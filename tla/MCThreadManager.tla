-------------------------- MODULE MCThreadManager --------------------------
(***************************************************************************)
(* Small instances of ThreadManager: two desks as in thread_manager.h, one *)
(* ConnectThread and two connectors.                                       *)
(***************************************************************************)
EXTENDS ThreadManager, TLC

CONSTANTS connect, conn1, conn2

MCThreads == {connect, conn1, conn2}
MCDestroyable == {connect}
MCFewThreads == {connect, conn1}

\* The two connectors differ in nothing.
Symmetry == Permutations({conn1, conn2})
=============================================================================
