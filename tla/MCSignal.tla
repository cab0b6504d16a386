------------------------------ MODULE MCSignal ------------------------------
(***************************************************************************)
(* The kinds of object: the module and a ConnectThread only emit, a        *)
(* handler only receives, a connector does both.  With four signals one    *)
(* owner can leave several behind before the sweep comes.                  *)
(***************************************************************************)
EXTENDS Signal, TLC

CONSTANTS thread, module, handler, conn, sig1, sig2, sig3, sig4

MCOwners == {thread, module, conn}
MCReceivers == {handler, conn}
MCSignals == {sig1, sig2, sig3, sig4}

Symmetry == Permutations(MCSignals)
=============================================================================
