------------------------------ MODULE Signal ------------------------------
(***************************************************************************)
(* signal/*: objects own signals, receivers subscribe functions to them,   *)
(* and either may be destroyed first.  A signal outlives its owner until   *)
(* the main loop's sweep finds it without owner and without functions.     *)
(*                                                                         *)
(* The functions of one receiver at one signal differ in the message they  *)
(* are for, which nothing here depends on: they are counted.  A destructor *)
(* runs to its end before anything else does, step by step here because    *)
(* its parts go through pointers the parts before may have left behind.    *)
(***************************************************************************)
EXTENDS Naturals, Sequences, FiniteSets

CONSTANTS
  Owners,      \* SignalOwner: the module, the ConnectorManager, ConnectThreads, connectors
  Receivers,   \* SignalReceiver: the signal handlers, connectors
  Signals,     \* the Signal objects
  NoSignal, NoObject,
  MaxFuncs     \* bound: functions of a receiver at one signal

Objects == Owners \cup Receivers

ASSUME SignalAssumption == NoSignal \notin Signals /\ NoObject \notin Objects
ASSUME FuncsAssumption == MaxFuncs \in Nat

VARIABLES
  alive,      \* the objects that exist
  signalOf,   \* m_signal of each owner
  heap,       \* the signals that exist
  owned,      \* those with m_owner set
  listed,     \* SignalManager::m_signals
  funcs,      \* funcs[s][r]: r's entries in s's m_receiverFunctions
  known,      \* known[r][s]: how often s is in r's m_signals
  removed,    \* receivers with m_isRemove set
  dying,      \* the object whose destructor runs
  part,       \* how far that destructor has come
  freed       \* TRUE once something freed was accessed

signalVars == <<heap, owned, listed>>
subVars == <<funcs, known, removed>>
vars == <<alive, signalOf, signalVars, subVars, dying, part, freed>>

\* listed, a sequence of signals, matters to the sweep alone.
TypeOK ==
  /\ alive \subseteq Objects
  /\ signalOf \in [Owners -> Signals \cup {NoSignal}]
  /\ heap \subseteq Signals
  /\ owned \subseteq heap
  /\ funcs \in [Signals -> [Receivers -> Nat]]
  /\ known \in [Receivers -> [Signals -> Nat]]
  /\ removed \subseteq Receivers
  /\ dying \in Objects \cup {NoObject}
  /\ part \in {"none", "class", "base", "owner", "receiver", "gone"}
  /\ freed \in BOOLEAN

Init ==
  /\ alive = {}
  /\ signalOf = [o \in Owners |-> NoSignal]
  /\ heap = {} /\ owned = {} /\ listed = <<>>
  /\ funcs = [s \in Signals |-> [r \in Receivers |-> 0]]
  /\ known = [r \in Receivers |-> [s \in Signals |-> 0]]
  /\ removed = {}
  /\ dying = NoObject /\ part = "none"
  /\ freed = FALSE

----------------------------------------------------------------------------
\* An owner makes its signal, which enters itself at the head of the list.
Create(x) ==
  /\ dying = NoObject /\ ~freed
  /\ x \in Objects \ alive
  /\ alive' = alive \cup {x}
  /\ IF x \in Owners
     THEN \E s \in Signals \ heap :
            /\ signalOf' = [signalOf EXCEPT ![x] = s]
            /\ heap' = heap \cup {s}
            /\ owned' = owned \cup {s}
            /\ listed' = <<s>> \o listed
            /\ funcs' = [funcs EXCEPT ![s] = [r \in Receivers |-> 0]]
     ELSE UNCHANGED <<signalOf, signalVars, funcs>>
  /\ removed' = removed \ {x}
  /\ UNCHANGED <<known, dying, part, freed>>

\* addSubscriber and addSignal: the receiver notes the signal, the signal the
\* function.  A receiver that removes itself drops the function instead.
NotedOnce(r, s) ==                             \* variant: one entry per signal
  [known EXCEPT ![r][s] = 1]
Noted(r, s) == [known EXCEPT ![r][s] = @ + 1]

Subscribe(o, r) ==
  LET s == signalOf[o] IN
  /\ dying = NoObject /\ ~freed
  /\ o \in Owners \cap alive /\ r \in Receivers \cap alive
  /\ funcs[s][r] < MaxFuncs
  /\ IF r \in removed
     THEN UNCHANGED <<funcs, known, freed>>
     ELSE /\ known' = Noted(r, s)
          /\ IF s \in heap
             THEN funcs' = [funcs EXCEPT ![s][r] = @ + 1] /\ UNCHANGED freed
             ELSE freed' = TRUE /\ UNCHANGED funcs
  /\ UNCHANGED <<alive, signalOf, signalVars, removed, dying, part>>

----------------------------------------------------------------------------
(***************************************************************************)
(* Destructors.                                                            *)
(***************************************************************************)

\* A connector's class and its base IPCConnector each call removeReceiver, then
\* come the destructors of SignalOwner and of SignalReceiver; a handler's class
\* calls it before SignalReceiver does.
Connector(x) == x \in Owners \cap Receivers

FirstPart(x) == IF x \in Receivers THEN "class" ELSE "owner"

PartAfter(x) ==
  [class    |-> IF Connector(x) THEN "base" ELSE "receiver",
   base     |-> "owner",
   owner    |-> IF Connector(x) THEN "receiver" ELSE "gone",
   receiver |-> "gone"]

Destroy(x) ==
  /\ dying = NoObject /\ ~freed
  /\ x \in alive
  /\ dying' = x
  /\ part' = FirstPart(x)
  /\ UNCHANGED <<alive, signalOf, signalVars, subVars, freed>>

InPart(parts) == ~freed /\ part \in parts

\* The signals a receiver visits are those it knows; it goes on knowing them.
Known(r) == {s \in Signals : known[r][s] > 0}

\* unsubscribe erases all functions of the receiver.
StillSubscribed(s, r) == funcs[s]              \* variant: no erase in unsubscribe
Unsubscribed(s, r) == [funcs[s] EXCEPT ![r] = 0]

RemoveReceiver ==
  LET r == dying IN
  /\ InPart({"class", "base", "receiver"})
  /\ removed' = removed \cup {r}
  /\ part' = PartAfter(dying)[part]
  /\ IF Known(r) \subseteq heap
     THEN /\ funcs' = [s \in Signals |->
                         IF s \in Known(r) /\ funcs[s][r] > 0 THEN Unsubscribed(s, r)
                                                              ELSE funcs[s]]
          /\ UNCHANGED freed
     ELSE freed' = TRUE /\ UNCHANGED funcs
  /\ UNCHANGED <<alive, signalOf, signalVars, known, dying>>

\* onRemoveSignal erases one entry for each function, unless the receiver is
\* removing itself: then it says so and the function stays.
Subscribers(s) == {r \in Receivers : funcs[s][r] > 0}

Monus(a, b) == IF a > b THEN a - b ELSE 0

NotForgotten(s, told) == known                 \* variant: no erase in onRemoveSignal
Forgotten(s, told) ==
  [r \in Receivers |-> IF r \in told THEN [known[r] EXCEPT ![s] = Monus(@, funcs[s][r])]
                                     ELSE known[r]]

RemoveOwner ==
  LET s    == signalOf[dying]
      told == Subscribers(s) \ removed
  IN
  /\ InPart({"owner"})
  /\ part' = PartAfter(dying)[part]
  /\ IF s \in heap /\ Subscribers(s) \subseteq alive
     THEN /\ owned' = owned \ {s}
          /\ funcs' = [funcs EXCEPT ![s] = [r \in Receivers |-> IF r \in told THEN 0 ELSE @[r]]]
          /\ known' = Forgotten(s, told)
          /\ UNCHANGED freed
     ELSE freed' = TRUE /\ UNCHANGED <<owned, funcs, known>>
  /\ UNCHANGED <<alive, signalOf, heap, listed, removed, dying>>

\* The object's memory goes, its members with it.
Gone ==
  /\ InPart({"gone"})
  /\ alive' = alive \ {dying}
  /\ dying' = NoObject
  /\ part' = "none"
  /\ signalOf' = [o \in Owners |-> IF o = dying THEN NoSignal ELSE signalOf[o]]
  /\ known' = [r \in Receivers |-> IF r = dying THEN [s \in Signals |-> 0] ELSE known[r]]
  /\ UNCHANGED <<signalVars, funcs, removed, freed>>

----------------------------------------------------------------------------
(***************************************************************************)
(* SignalManager::ManagerFunc.                                             *)
(***************************************************************************)
CheckSignal(s) == s \notin owned /\ Subscribers(s) = {}

ExaminedFirst == {k \in 1 .. Len(listed) : k = 1}  \* variant: break after erase

\* The loop steps once more after it has erased an entry: the next one is not
\* looked at in this pass.
Looked[k \in 1 .. Len(listed)] ==
  k = 1 \/ ~(Looked[k - 1] /\ CheckSignal(listed[k - 1]))

Examined == {k \in 1 .. Len(listed) : Looked[k]}

Reaped == {listed[k] : k \in {n \in Examined : CheckSignal(listed[n])}}

\* What is left of the first k entries.
Kept[k \in 0 .. Len(listed)] ==
  IF k = 0 THEN <<>>
  ELSE IF listed[k] \in Reaped THEN Kept[k - 1] ELSE Append(Kept[k - 1], listed[k])

Sweep ==
  /\ dying = NoObject /\ ~freed
  /\ heap' = heap \ Reaped
  /\ listed' = Kept[Len(listed)]
  /\ UNCHANGED <<alive, signalOf, owned, subVars, dying, part, freed>>

----------------------------------------------------------------------------
Next ==
  \/ \E x \in Objects : Create(x) \/ Destroy(x)
  \/ \E o \in Owners, r \in Receivers : Subscribe(o, r)
  \/ RemoveReceiver \/ RemoveOwner \/ Gone
  \/ Sweep

Spec == Init /\ [][Next]_vars

----------------------------------------------------------------------------
(***************************************************************************)
(* Properties.                                                             *)
(***************************************************************************)

\* No destructor visits a signal that was reaped or a receiver that is gone,
\* whichever of owner and receiver goes first and whenever the sweep comes.
NothingFreedIsUsed == ~freed

\* A receiver knows a signal as often as the signal has functions of it: what
\* one side forgets the other does, so each can be found from the other.
BothSidesAgree ==
  \A r \in Receivers \cap alive, s \in heap :
    r \notin removed => known[r][s] = funcs[s][r]

\* The sweep deletes at least half of what could be deleted, in spite of the
\* entries it skips.
Dead == {s \in heap : CheckSignal(s)}

SweepHalves == [][Sweep => 2 * Cardinality(Dead') <= Cardinality(Dead)]_vars

\* Signals implement PubSub: once the destructor begins, the object's
\* subscriptions count no more, and when it has ended none of them is left to
\* whoever comes in its place.
Present == alive \ {dying}

PubSub == INSTANCE PubSub WITH
  present <- Present,
  subs <- [o \in Objects |-> [r \in Objects |->
             IF o \in Owners \cap Present /\ r \in Receivers \cap Present
             THEN funcs[signalOf[o]][r] ELSE 0]]

IsPubSub == PubSub!PubSubSpec
=============================================================================
