------------------------------ MODULE PubSub ------------------------------
(***************************************************************************)
(* What signals promise: a subscription lasts exactly as long as both its  *)
(* ends.  An object that comes anew has none, whoever had its place.       *)
(***************************************************************************)
EXTENDS Naturals

CONSTANTS Objects

VARIABLES
  present,   \* the objects that exist and are not being destroyed
  subs       \* subs[o][r]: how many functions r has subscribed at o

pubSubVars == <<present, subs>>

PubSubInit ==
  /\ present = {}
  /\ subs = [o \in Objects |-> [r \in Objects |-> 0]]

Enter(x) ==
  /\ x \notin present
  /\ present' = present \cup {x}
  /\ UNCHANGED subs

Subscribe(o, r) ==
  /\ {o, r} \subseteq present
  /\ subs' = [subs EXCEPT ![o][r] = @ + 1]
  /\ UNCHANGED present

Leave(x) ==
  /\ x \in present
  /\ present' = present \ {x}
  /\ subs' = [o \in Objects |-> [r \in Objects |-> IF x \in {o, r} THEN 0 ELSE subs[o][r]]]

PubSubNext ==
  \/ \E x \in Objects : Enter(x) \/ Leave(x)
  \/ \E o, r \in Objects : Subscribe(o, r)

PubSubSpec == PubSubInit /\ [][PubSubNext]_pubSubVars
=============================================================================
