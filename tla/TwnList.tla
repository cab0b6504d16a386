------------------------------ MODULE TwnList ------------------------------
(***************************************************************************)
(* std/list.h: the doubly linked list that holds connectors, signals,      *)
(* receivers, managers and the module's objects.                           *)
(*                                                                         *)
(* An iterator is a copy of a node: its object and its two links.  The     *)
(* program walks a list with one, and what it does with an element may     *)
(* wait (a manager's pass, a handler, the notice of StopConnection); then  *)
(* others change the list and the copy grows old.  Inserting at both ends  *)
(* and erasing what was found in a walk without waits is all they do.      *)
(*                                                                         *)
(* A node stands for its object; nodes are allocated again once freed.     *)
(***************************************************************************)
EXTENDS Naturals, Sequences, FiniteSets, SequencesExt

CONSTANTS
  Nodes,   \* memory for nodes
  End,     \* *m_end, the node without an object
  Null     \* the null pointer

ASSUME NodeAssumption == End \notin Nodes /\ Null \notin Nodes /\ End # Null

VARIABLES
  next, prev,  \* m_next and m_prev of each node
  begin,       \* m_begin
  heap,        \* nodes that are allocated
  walk,        \* how the walker goes on, "none" if nobody walks
  it,          \* the walker's iterator
  fault,       \* TRUE once a freed or null node was accessed
  order,       \* history: the elements in their order
  gone,        \* history: the element after the walker's was erased
  misused,     \* history: the walker erased through an old copy, or lost its way
  stayed,      \* history: elements in the list since the walk began
  visits       \* history: how often the walk has met each of them

links == <<next, prev, begin, heap>>
walkVars == <<walk, it, gone, stayed, visits>>
vars == <<links, order, walkVars, fault, misused>>

\* Signal::onSignal, CheckManagers, StopConnection, SignalManager's sweep.
Walks == {"emit", "sweep", "find", "skip"}

Places == Nodes \cup {End}
Pointers == Places \cup {Null}
Iterators == [object : Places, next : Pointers, prev : Pointers]

TypeOK ==
  /\ next \in [Places -> Pointers] /\ prev \in [Places -> Pointers]
  /\ begin \in Places
  /\ heap \subseteq Nodes
  /\ walk \in Walks \cup {"none"}
  /\ it \in Iterators
  /\ fault \in BOOLEAN /\ gone \in BOOLEAN /\ misused \in BOOLEAN
  /\ order \in Seq(Nodes)
  /\ stayed \subseteq Nodes
  /\ visits \in [Nodes -> Nat]

Copy(n) == [object |-> n, next |-> next[n], prev |-> prev[n]]

Init ==
  /\ next = [n \in Places |-> Null] /\ prev = [n \in Places |-> Null]
  /\ begin = End
  /\ heap = {}
  /\ walk = "none" /\ it = Copy(End)
  /\ fault = FALSE /\ gone = FALSE /\ misused = FALSE
  /\ order = <<>>
  /\ stayed = {} /\ visits = [n \in Nodes |-> 0]

----------------------------------------------------------------------------
(***************************************************************************)
(* The list's operations.                                                  *)
(***************************************************************************)

Live(n) == n \in heap \cup {End}

\* A new node goes in front of the one the iterator stands for, which is found
\* through its neighbours.
InsertEmpty(n) ==
  /\ begin' = n
  /\ next' = [next EXCEPT ![n] = End]
  /\ prev' = [prev EXCEPT ![n] = Null, ![End] = n]

InsertBeforeUnlinked(i, n) ==                  \* variant: the node before not told
  LET node == IF i.prev # Null THEN next[i.prev] ELSE prev[i.next] IN
  /\ next' = [next EXCEPT ![n] = node]
  /\ prev' = [prev EXCEPT ![n] = prev[node], ![node] = n]
  /\ begin' = IF i.object = begin THEN n ELSE begin

InsertBefore(i, n) ==
  LET node == IF i.prev # Null THEN next[i.prev] ELSE prev[i.next] IN
  /\ next' = [p \in Places |->
                IF p = n THEN node ELSE IF p = prev[node] THEN n ELSE next[p]]
  /\ prev' = [prev EXCEPT ![n] = prev[node], ![node] = n]
  /\ begin' = IF i.object = begin THEN n ELSE begin

Insert(i, n) ==
  /\ n \in Nodes \ heap
  /\ heap' = heap \cup {n}
  /\ IF i.object = End /\ prev[End] = Null THEN InsertEmpty(n) ELSE InsertBefore(i, n)

\* The node is unlinked through the iterator's own links, and freed through
\* those of its successor.
EraseKeepsBegin(i) ==                          \* variant: m_begin left alone
  /\ prev' = [prev EXCEPT ![i.next] = i.prev]
  /\ next' = [p \in Places |-> IF p = i.prev THEN i.next ELSE next[p]]
  /\ heap' = heap \ {prev[i.next]}
  /\ UNCHANGED begin

Erase(i) ==
  /\ prev' = [prev EXCEPT ![i.next] = i.prev]
  /\ next' = [p \in Places |-> IF p = i.prev THEN i.next ELSE next[p]]
  /\ heap' = heap \ {prev[i.next]}
  /\ begin' = IF i.object = begin THEN i.next ELSE begin

EraseFaults(i) ==
  ~ (/\ Live(i.next) /\ prev[i.next] \in heap
     /\ i.prev # Null => Live(i.prev))

----------------------------------------------------------------------------
(***************************************************************************)
(* What happens to the list while the walker waits, or nobody walks.       *)
(***************************************************************************)

Running == ~fault /\ ~misused

InsertFirst(n) ==
  /\ Running
  /\ Insert(Copy(begin), n)
  /\ order' = <<n>> \o order
  /\ UNCHANGED <<walkVars, fault, misused>>

InsertLast(n) ==
  /\ Running
  /\ Insert(Copy(End), n)
  /\ order' = Append(order, n)
  /\ UNCHANGED <<walkVars, fault, misused>>

Forget(n) ==
  /\ stayed' = stayed \ {n}
  /\ visits' = [visits EXCEPT ![n] = 0]

Index(n) == CHOOSE k \in DOMAIN order : order[k] = n

EraseFound(n) ==
  /\ Running
  /\ n \in ToSet(order)
  /\ Erase(Copy(n))
  /\ fault' = EraseFaults(Copy(n))
  /\ order' = RemoveAt(order, Index(n))
  /\ gone' = (gone \/ (walk # "none" /\ n = it.next))
  /\ Forget(n)
  /\ UNCHANGED <<walk, it, misused>>

----------------------------------------------------------------------------
(***************************************************************************)
(* A walk.                                                                 *)
(***************************************************************************)

\* The walker is at an element, or it has come to the end.
Meets(n, v) == [v EXCEPT ![n] = @ + 1]

Begin ==
  /\ Running /\ walk = "none"
  /\ walk' \in Walks
  /\ it' = Copy(begin)
  /\ gone' = FALSE
  /\ stayed' = ToSet(order)
  /\ visits' = LET v == [n \in Nodes |-> 0]
               IN  IF begin = End THEN v ELSE Meets(begin, v)
  /\ UNCHANGED <<links, order, fault, misused>>

At == Running /\ walk # "none" /\ it.object # End

\* ++it copies the next node, and then the one before that for a value nobody
\* uses: if there is none, which is so once all up to the next node were erased,
\* the build may or may not read through the null pointer.
StepTwice ==                                   \* variant: ++it in the loop's body, too
  LET n == next[it.next] IN IF n = Null THEN Copy(it.next) ELSE Copy(n)
Step == Copy(it.next)

Advance ==
  /\ At
  /\ it' = Step
  /\ \/ fault' = ~Live(it.next)
     \/ prev[it.next] = Null /\ fault' = TRUE
  /\ misused' = (gone \/ prev[it.next] = Null)
  /\ gone' = FALSE
  /\ visits' = IF it'.object \in Nodes THEN Meets(it'.object, visits) ELSE visits
  /\ UNCHANGED <<links, order, walk, stayed>>

\* A copy that is not old: its element is in the list, between the neighbours it
\* had when it was copied.
Current == ~gone /\ it = Copy(it.object) /\ it.object \in ToSet(order)

Erased ==
  /\ Erase(it)
  /\ fault' = EraseFaults(it)
  /\ misused' = ~Current
  /\ order' = IF Current THEN RemoveAt(order, Index(it.object)) ELSE order
  /\ gone' = FALSE

\* it = erase(it): the iterator returned is a copy of the successor.  The sweep
\* of the SignalManager steps over that one.
After(n) == [object |-> n, next |-> next'[n], prev |-> prev'[n]]

SweepErases ==
  /\ At /\ walk \in {"sweep", "skip"}
  /\ Erased
  /\ LET successor == After(it.next)
         behind == IF successor.next # Null THEN After(successor.next) ELSE successor
         erased == [visits EXCEPT ![it.object] = 0]
     IN  /\ it' = IF walk = "skip" THEN behind ELSE successor
         /\ visits' = IF it'.object \in Nodes THEN Meets(it'.object, erased) ELSE erased
  /\ stayed' = stayed \ {it.object}
  /\ UNCHANGED walk

\* erase(it); break
FindErases ==
  /\ At /\ walk = "find"
  /\ Erased
  /\ walk' = "none"
  /\ Forget(it.object)
  /\ UNCHANGED it

Done ==
  /\ Running /\ walk # "none" /\ it.object = End
  /\ walk' = "none"
  /\ gone' = FALSE
  /\ UNCHANGED <<links, order, it, stayed, visits, fault, misused>>

Next ==
  \/ \E n \in Nodes : InsertFirst(n) \/ InsertLast(n) \/ EraseFound(n)
  \/ Begin \/ Advance \/ SweepErases \/ FindErases \/ Done

Spec == Init /\ [][Next]_vars

----------------------------------------------------------------------------
(***************************************************************************)
(* Properties.                                                             *)
(***************************************************************************)

\* Read forwards and backwards, the links are the elements in the order in which
\* they were put there, and nothing else is allocated, as long as nobody erases
\* through an old copy.
Following(k) == IF k = Len(order) THEN End ELSE order[k + 1]
Preceding(k) == IF k = 1 THEN Null ELSE order[k - 1]

Chain ==
  /\ heap = ToSet(order)
  /\ IsInjective(order)
  /\ begin = IF order = <<>> THEN End ELSE order[1]
  /\ prev[End] = IF order = <<>> THEN Null ELSE order[Len(order)]
  /\ \A k \in DOMAIN order : next[order[k]] = Following(k) /\ prev[order[k]] = Preceding(k)

Linked == Running => Chain

\* A copy may be old and a walk still go on from it: whatever is inserted
\* meanwhile, no freed node is read unless the next element was erased, or all up
\* to it, and none is written unless the walker's neighbours have changed.
NoStrayAccess == fault => misused

\* A walk that comes to its end has met every element that was there all the
\* time once, and none twice, although others insert and erase around it.
MeetsEachOnce ==
  /\ TypeOK
  /\ Running /\ ~gone =>
       /\ \A n \in Nodes : visits[n] <= 1
       /\ walk \in Walks \ {"skip"} /\ it.object = End => \A n \in stayed : visits[n] = 1
=============================================================================
