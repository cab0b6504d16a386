--------------------------- MODULE MCClientModule ---------------------------
(***************************************************************************)
(* The client over two desks.  A ConnectThread lives only while it is in a *)
(* desk, so a third object is needed for the attempt that finds none; two  *)
(* connectors let one outlive another in the list, each with a session.    *)
(***************************************************************************)
EXTENDS ClientModule

CONSTANTS connect1, connect2, connect3, conn1, conn2, sess1, sess2

MCThreads == {connect1, connect2, connect3, conn1, conn2}
MCDestroyable == {connect1, connect2, connect3}
MCSessions == {sess1, sess2}

\* ConnectThreads, connectors and sessions are created and compared, no more.
Symmetry == Permutations(MCDestroyable) \cup Permutations({conn1, conn2})
              \cup Permutations(MCSessions)
\* Where an object stood and whether its socket was closed say nothing once it is
\* deleted: both are read of threads in a desk and of listed connectors only, and
\* set when the memory is used again.
View == <<vars, status, moduleVars, listVars, [t \in heap |-> at[t]], closed \cap heap,
          choreVars, reruns>>
=============================================================================
