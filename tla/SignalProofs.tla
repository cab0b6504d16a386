---------------------------- MODULE SignalProofs ----------------------------
(***************************************************************************)
(* Nothing freed is used, both sides agree, a sweep deletes at least half  *)
(* of the dead signals, and signals implement PubSub, for any objects and  *)
(* any number of signals and functions.                                    *)
(***************************************************************************)
EXTENDS Signal, SequenceLemmas

Typed ==
  /\ alive \subseteq Objects
  /\ signalOf \in [Owners -> Signals \cup {NoSignal}]
  /\ heap \subseteq Signals
  /\ funcs \in [Signals -> [Receivers -> Nat]]
  /\ known \in [Receivers -> [Signals -> Nat]]
  /\ removed \subseteq Receivers

\* An owner's signal exists, belongs to it alone, and is owned until the
\* owner's destructor runs.
OwnersHaveSignals ==
  \A o \in Owners \cap alive :
    /\ signalOf[o] \in heap
    /\ o # dying => signalOf[o] \in owned
    /\ \A p \in Owners \cap alive : signalOf[o] = signalOf[p] => o = p

\* What is not there neither knows nor is known.
NothingDangles ==
  /\ \A s \in Signals \ heap, r \in Receivers : funcs[s][r] = 0 /\ known[r][s] = 0
  /\ \A s \in Signals, r \in Receivers :
       /\ r \in removed \/ r \notin alive => funcs[s][r] = 0
       /\ r \notin alive => known[r][s] = 0

\* Which parts each kind of destructor has; what removeReceiver has done by then.
DestructorShape ==
  /\ dying \in alive \/ dying = NoObject
  /\ dying = NoObject <=> part = "none"
  /\ dying \in Receivers => part \in {"class", "base", "owner", "receiver", "gone"}
  /\ dying \in Receivers /\ part # "class" => dying \in removed
  /\ dying \in Owners \ Receivers => part \in {"owner", "gone"}
  /\ dying \in Receivers \ Owners => part \in {"class", "receiver", "gone"}
  /\ removed \cap alive \subseteq {dying}

IInv ==
  /\ Typed /\ NothingFreedIsUsed
  /\ OwnersHaveSignals /\ BothSidesAgree /\ NothingDangles /\ DestructorShape

LEMMA InitIInv == Init => IInv
BY SignalAssumption
DEF Init, IInv, Typed, NothingFreedIsUsed, OwnersHaveSignals, BothSidesAgree,
    NothingDangles, DestructorShape, Objects

\* Agreement holds for signals that do not exist as well.
LEMMA AgreeEverywhere ==
  ASSUME IInv, NEW r \in Receivers \cap alive, NEW s \in Signals, r \notin removed
  PROVE  known[r][s] = funcs[s][r]
BY DEF IInv, BothSidesAgree, NothingDangles

----------------------------------------------------------------------------
LEMMA CreateIInv ==
  ASSUME IInv, NEW x \in Objects, Create(x)
  PROVE  IInv'
<1> USE SignalAssumption
    DEF IInv, Typed, NothingFreedIsUsed, OwnersHaveSignals, BothSidesAgree,
        NothingDangles, DestructorShape, Create, Objects, signalVars
<1>1. CASE x \in Owners
  <2>1. PICK s \in Signals \ heap :
          /\ signalOf' = [signalOf EXCEPT ![x] = s]
          /\ heap' = heap \cup {s}
          /\ owned' = owned \cup {s}
          /\ funcs' = [funcs EXCEPT ![s] = [r \in Receivers |-> 0]]
    BY <1>1
  <2>2. /\ alive' = alive \cup {x} /\ removed' = removed \ {x}
        /\ UNCHANGED <<known, dying, part, freed>>
        /\ dying = NoObject
    OBVIOUS
  <2>3. \A t \in Signals, r \in Receivers : funcs'[t][r] = funcs[t][r]
    BY <2>1
  <2>4. Typed' /\ NothingFreedIsUsed' /\ DestructorShape'
    BY <1>1, <2>1, <2>2
  <2>5. OwnersHaveSignals'
    BY <1>1, <2>1, <2>2
  <2>6. BothSidesAgree' /\ NothingDangles'
    BY <2>1, <2>2, <2>3
  <2> QED  BY <2>4, <2>5, <2>6
<1>2. CASE x \notin Owners
  <2>1. Typed' /\ NothingFreedIsUsed' /\ DestructorShape' /\ OwnersHaveSignals'
    BY <1>2
  <2>2. BothSidesAgree' /\ NothingDangles'
    BY <1>2
  <2> QED  BY <2>1, <2>2
<1> QED  BY <1>1, <1>2

LEMMA SubscribeIInv ==
  ASSUME IInv, NEW o \in Owners, NEW r \in Receivers, Subscribe(o, r)
  PROVE  IInv'
<1> USE SignalAssumption
    DEF IInv, Typed, NothingFreedIsUsed, OwnersHaveSignals, BothSidesAgree,
        NothingDangles, DestructorShape, Objects, signalVars
<1>1. /\ dying = NoObject /\ o \in alive /\ r \in alive
      /\ UNCHANGED <<alive, signalOf, heap, owned, removed, dying, part>>
  BY DEF Subscribe
<1>2. r \notin removed /\ signalOf[o] \in heap
  BY <1>1
<1>3. /\ known' = [known EXCEPT ![r][signalOf[o]] = @ + 1]
      /\ funcs' = [funcs EXCEPT ![signalOf[o]][r] = @ + 1]
      /\ freed' = freed
  BY <1>2 DEF Subscribe, Noted
<1>4. Typed' /\ NothingFreedIsUsed' /\ DestructorShape' /\ OwnersHaveSignals'
  BY <1>1, <1>2, <1>3
<1>5. BothSidesAgree' /\ NothingDangles'
  BY <1>1, <1>2, <1>3
<1> QED  BY <1>4, <1>5

LEMMA DestroyIInv ==
  ASSUME IInv, NEW x \in Objects, Destroy(x)
  PROVE  IInv'
BY SignalAssumption
DEF IInv, Typed, NothingFreedIsUsed, OwnersHaveSignals, BothSidesAgree,
    NothingDangles, DestructorShape, Objects, signalVars, subVars, Destroy, FirstPart

LEMMA RemoveReceiverIInv ==
  ASSUME IInv, RemoveReceiver
  PROVE  IInv'
<1> USE SignalAssumption
    DEF IInv, Typed, NothingFreedIsUsed, OwnersHaveSignals, BothSidesAgree,
        NothingDangles, DestructorShape, Objects
<1>1. dying \in Receivers \cap alive
  BY DEF RemoveReceiver, InPart
<1>2. Known(dying) \subseteq heap
  BY <1>1 DEF Known
<1>3. /\ removed' = removed \cup {dying}
      /\ part' = PartAfter(dying)[part] /\ part \in {"class", "base", "receiver"}
      /\ UNCHANGED <<alive, signalOf, heap, owned, known, dying, freed>>
      /\ funcs' = [s \in Signals |->
                     IF s \in Known(dying) /\ funcs[s][dying] > 0
                     THEN [funcs[s] EXCEPT ![dying] = 0] ELSE funcs[s]]
  BY <1>2 DEF RemoveReceiver, InPart, signalVars, Unsubscribed
<1>4. \A s \in Signals, r \in Receivers :
        funcs'[s][r] = IF r = dying THEN 0 ELSE funcs[s][r]
  <2> SUFFICES ASSUME NEW s \in Signals, NEW r \in Receivers
               PROVE  funcs'[s][r] = IF r = dying THEN 0 ELSE funcs[s][r]
    OBVIOUS
  <2>1. CASE r # dying
    BY <1>3, <2>1
  <2>2. CASE r = dying /\ s \in Known(dying) /\ funcs[s][dying] > 0
    BY <1>3, <2>2
  <2>3. CASE r = dying /\ ~(s \in Known(dying) /\ funcs[s][dying] > 0)
    <3>1. funcs[s][dying] = 0
      BY <1>1, <2>3, AgreeEverywhere DEF Known
    <3> QED  BY <1>3, <2>3, <3>1
  <2> QED  BY <2>1, <2>2, <2>3
<1>5. DestructorShape'
  BY <1>1, <1>3 DEF PartAfter, Connector
<1>6. Typed' /\ NothingFreedIsUsed' /\ OwnersHaveSignals'
  BY <1>1, <1>3
<1>7. BothSidesAgree' /\ NothingDangles'
  BY <1>1, <1>3, <1>4
<1> QED  BY <1>5, <1>6, <1>7

\* The functions at a signal are of receivers that live and are not removing
\* themselves.
LEMMA SubscribersLive ==
  ASSUME IInv, NEW s \in Signals
  PROVE  Subscribers(s) \subseteq alive /\ Subscribers(s) \cap removed = {}
BY DEF IInv, Typed, NothingDangles, Subscribers

LEMMA RemoveOwnerEffect ==
  ASSUME IInv, RemoveOwner
  PROVE  /\ dying \in Owners \cap alive /\ signalOf[dying] \in heap
         /\ part = "owner" /\ part' = IF Connector(dying) THEN "receiver" ELSE "gone"
         /\ owned' = owned \ {signalOf[dying]}
         /\ \A t \in Signals, r \in Receivers :
              /\ funcs'[t][r] = IF t = signalOf[dying] THEN 0 ELSE funcs[t][r]
              /\ r \in alive /\ r \notin removed =>
                   known'[r][t] = IF t = signalOf[dying] THEN 0 ELSE known[r][t]
              /\ known[r][t] = 0 => known'[r][t] = 0
         /\ funcs' \in [Signals -> [Receivers -> Nat]]
         /\ known' \in [Receivers -> [Signals -> Nat]]
         /\ UNCHANGED <<alive, signalOf, heap, removed, dying, freed>>
<1> DEFINE s == signalOf[dying]
           told == Subscribers(s) \ removed
<1>1. dying \in Owners \cap alive /\ s \in heap /\ s \in Signals
  BY SignalAssumption
  DEF IInv, Typed, DestructorShape, OwnersHaveSignals, RemoveOwner, InPart, Objects
<1>2. told = Subscribers(s) /\ Subscribers(s) \subseteq alive
  BY <1>1, SubscribersLive
<1>3. /\ owned' = owned \ {s}
      /\ funcs' = [funcs EXCEPT ![s] = [r \in Receivers |-> IF r \in told THEN 0 ELSE @[r]]]
      /\ known' = Forgotten(s, told)
      /\ UNCHANGED freed
  BY <1>1, <1>2 DEF RemoveOwner
<1>4. \A t \in Signals, r \in Receivers :
        funcs'[t][r] = IF t = s THEN 0 ELSE funcs[t][r]
  BY <1>1, <1>2, <1>3 DEF Subscribers, IInv, Typed
<1>5. known' \in [Receivers -> [Signals -> Nat]]
  <2>1. \A r \in Receivers, t \in Signals : Monus(known[r][t], funcs[t][r]) \in Nat
    BY DEF Monus, IInv, Typed
  <2> QED  BY <1>1, <1>3, <2>1 DEF Forgotten, IInv, Typed
<1>6. ASSUME NEW t \in Signals, NEW r \in Receivers
      PROVE  known'[r][t] = IF t = s /\ r \in told
                            THEN Monus(known[r][t], funcs[t][r]) ELSE known[r][t]
  BY <1>1, <1>3 DEF Forgotten, IInv, Typed
<1>7. ASSUME NEW t \in Signals, NEW r \in Receivers, known[r][t] = 0
      PROVE  known'[r][t] = 0
  BY <1>6, <1>7 DEF Monus, IInv, Typed
<1>8. ASSUME NEW t \in Signals, NEW r \in Receivers, r \in alive, r \notin removed
      PROVE  known'[r][t] = IF t = s THEN 0 ELSE known[r][t]
  <2>1. known[r][t] = funcs[t][r] /\ funcs[t][r] \in Nat
    BY <1>8, AgreeEverywhere DEF IInv, Typed
  <2>2. CASE t = s /\ r \in told
    BY <1>6, <2>1, <2>2 DEF Monus
  <2>3. CASE t = s /\ r \notin told
    BY <1>2, <1>6, <2>1, <2>3 DEF Subscribers
  <2>4. CASE t # s
    BY <1>6, <2>4
  <2> QED  BY <2>2, <2>3, <2>4
<1>9. funcs' \in [Signals -> [Receivers -> Nat]]
  BY <1>1, <1>3 DEF IInv, Typed
<1>10. part = "owner" /\ part' = IF Connector(dying) THEN "receiver" ELSE "gone"
  BY DEF RemoveOwner, InPart, PartAfter
<1>11. UNCHANGED <<alive, signalOf, heap, removed, dying>>
  BY DEF RemoveOwner
<1>12. \A t \in Signals, r \in Receivers :
         r \in alive /\ r \notin removed => known'[r][t] = IF t = s THEN 0 ELSE known[r][t]
  BY <1>8
<1>13. \A t \in Signals, r \in Receivers : known[r][t] = 0 => known'[r][t] = 0
  BY <1>7
<1> HIDE DEF s, told
<1> QED
  BY <1>1, <1>3, <1>4, <1>5, <1>9, <1>10, <1>11, <1>12, <1>13 DEF s

LEMMA RemoveOwnerIInv ==
  ASSUME IInv, RemoveOwner
  PROVE  IInv'
<1>1. PICK s \in heap : s = signalOf[dying]
  BY RemoveOwnerEffect
<1> USE RemoveOwnerEffect, <1>1, SignalAssumption
    DEF IInv, Typed, NothingFreedIsUsed, OwnersHaveSignals, BothSidesAgree,
        NothingDangles, DestructorShape, Objects
<1>2. DestructorShape'
  BY DEF Connector
<1>3. Typed' /\ NothingFreedIsUsed'
  OBVIOUS
<1>4. OwnersHaveSignals'
  OBVIOUS
<1>5. BothSidesAgree'
  OBVIOUS
<1>6. NothingDangles'
  OBVIOUS
<1> QED  BY <1>2, <1>3, <1>4, <1>5, <1>6

LEMMA GoneIInv ==
  ASSUME IInv, Gone
  PROVE  IInv'
<1> USE SignalAssumption
    DEF IInv, Typed, NothingFreedIsUsed, OwnersHaveSignals, BothSidesAgree,
        NothingDangles, DestructorShape, Objects, Gone, signalVars
<1>1. dying \in Receivers => dying \in removed
  BY DEF InPart
<1>2. /\ dying \in alive /\ alive' = alive \ {dying} /\ dying' = NoObject /\ part' = "none"
      /\ UNCHANGED <<heap, owned, listed, funcs, removed, freed>>
  BY DEF InPart
<1>6. /\ \A o \in Owners \ {dying} : signalOf'[o] = signalOf[o]
      /\ \A r \in Receivers, s \in Signals :
           known'[r][s] = IF r = dying THEN 0 ELSE known[r][s]
  OBVIOUS
<1>3. Typed' /\ NothingFreedIsUsed'
  BY <1>2
<1>4. OwnersHaveSignals' /\ DestructorShape'
  BY <1>2, <1>6
<1>5. BothSidesAgree' /\ NothingDangles'
  BY <1>1, <1>2, <1>6
<1> QED  BY <1>3, <1>4, <1>5

LEMMA SweepIInv ==
  ASSUME IInv, Sweep
  PROVE  IInv'
<1> USE SignalAssumption
    DEF IInv, Typed, NothingFreedIsUsed, OwnersHaveSignals, BothSidesAgree,
        NothingDangles, DestructorShape, Objects, Sweep, subVars
<1>1. \A s \in Reaped : s \notin owned /\ Subscribers(s) = {}
  BY DEF Reaped, CheckSignal
<1>2. \A s \in Reaped \cap Signals, r \in Receivers : funcs[s][r] = 0
  BY <1>1 DEF Subscribers
<1>3. ASSUME NEW s \in Reaped \cap Signals, NEW r \in Receivers PROVE known[r][s] = 0
  <2>1. funcs[s][r] = 0
    BY <1>2
  <2>2. r \in removed => r \notin alive
    OBVIOUS
  <2>3. CASE r \in alive
    BY <2>1, <2>2, <2>3, AgreeEverywhere
  <2>4. CASE r \notin alive
    BY <2>4
  <2> QED  BY <2>3, <2>4
<1>4. Typed' /\ NothingFreedIsUsed' /\ DestructorShape' /\ BothSidesAgree'
  OBVIOUS
<1>5. OwnersHaveSignals'
  BY <1>1
<1>6. NothingDangles'
  BY <1>2, <1>3
<1> QED  BY <1>4, <1>5, <1>6

LEMMA NextIInv == IInv /\ [Next]_vars => IInv'
<1> SUFFICES ASSUME IInv, [Next]_vars PROVE IInv'
  OBVIOUS
<1>1. CASE Next
  BY <1>1, CreateIInv, DestroyIInv, SubscribeIInv, RemoveReceiverIInv, RemoveOwnerIInv,
     GoneIInv, SweepIInv DEF Next
<1>2. CASE UNCHANGED vars
  BY <1>2 DEF vars, signalVars, subVars, IInv, Typed, NothingFreedIsUsed,
              OwnersHaveSignals, BothSidesAgree, NothingDangles, DestructorShape
<1> QED  BY <1>1, <1>2

LEMMA Inductive == Spec => []IInv
BY InitIInv, NextIInv, PTL DEF Spec

\* No destructor, subscription or sweep touches a signal that was deleted or a
\* receiver that is gone.
THEOREM NoUseAfterFree == Spec => []NothingFreedIsUsed
<1>1. IInv => NothingFreedIsUsed
  BY DEF IInv
<1> QED  BY <1>1, Inductive, PTL

\* m_signals of a receiver and m_receiverFunctions of a signal tell the same.
THEOREM SidesAgree == Spec => []BothSidesAgree
<1>1. IInv => BothSidesAgree
  BY DEF IInv
<1> QED  BY <1>1, Inductive, PTL

\* What the types say beyond Typed.
LEMMA TypesKept ==
  ASSUME IInv, TypeOK, [Next]_vars, IInv'
  PROVE  TypeOK'
<1> USE DEF TypeOK
<1>1. Typed'
  BY DEF IInv
<1>2. owned' \subseteq heap'
  <2>1. ASSUME NEW x \in Objects, Create(x) PROVE owned' \subseteq heap'
    BY <2>1 DEF Create, signalVars
  <2>2. CASE Sweep
    BY <2>2 DEF Sweep, Reaped, CheckSignal
  <2> QED
    BY <2>1, <2>2 DEF Next, Destroy, Subscribe, RemoveReceiver, RemoveOwner, Gone, vars, signalVars
<1>3. /\ dying' \in Objects \cup {NoObject}
      /\ part' \in {"none", "class", "base", "owner", "receiver", "gone"}
      /\ freed' \in BOOLEAN
  <2>1. ASSUME InPart({"class", "base", "receiver"}) \/ InPart({"owner"})
        PROVE  PartAfter(dying)[part] \in {"base", "owner", "receiver", "gone"}
    BY <2>1 DEF InPart, PartAfter
  <2> QED
    BY <2>1 DEF Next, Create, Destroy, FirstPart, Subscribe, RemoveReceiver, RemoveOwner, Gone,
                Sweep, vars
<1> QED BY <1>1, <1>2, <1>3 DEF Typed

\* Objects, signals, functions and the parts of destructors keep their types, and
\* a signal with an owner exists (signal_owner.cpp, signal_receiver.cpp).
THEOREM TypeCorrect == Spec => []TypeOK
<1>1. Init => TypeOK
  BY InitIInv DEF IInv, Typed, Init, TypeOK
<1> QED  BY <1>1, Inductive, TypesKept, PTL DEF Spec

----------------------------------------------------------------------------
(***************************************************************************)
(* The sweep.  m_signals holds each signal that exists once.               *)
(***************************************************************************)
Entered == listed \in Seq(Signals) /\ IsInjective(listed) /\ ToSet(listed) = heap

LEMMA ListFacts ==
  ASSUME Entered
  PROVE  /\ Len(listed) \in Nat /\ DOMAIN listed = 1 .. Len(listed)
         /\ \A k \in 1 .. Len(listed) : listed[k] \in Signals /\ listed[k] \in heap
<1>1. Len(listed) \in Nat /\ DOMAIN listed = 1 .. Len(listed)
  BY LenProperties DEF Entered
<1>2. \A k \in 1 .. Len(listed) : listed[k] \in Signals
  BY ElementOfSeq DEF Entered
<1> QED  BY <1>1, <1>2 DEF Entered, ToSet

\* Looked is the function its equation defines, ...
LEMMA LookedDefined ==
  ASSUME Entered
  PROVE  Looked = [k \in 1 .. Len(listed) |->
                     k = 1 \/ ~(Looked[k - 1] /\ CheckSignal(listed[k - 1]))]
<1> DEFINE Step(x, k) == ~(x /\ CheckSignal(listed[k - 1]))
           Is(f, n) == f = [k \in 1 .. n |-> k = 1 \/ Step(f[k - 1], k)]
           T == {n \in Nat : ~ \E f : Is(f, n)}
<1>1. Len(listed) \in Nat /\ Looked = CHOOSE f : Is(f, Len(listed))
  BY ListFacts DEF Looked
<1> HIDE DEF Step
<1>2. ASSUME T # {}
      PROVE  FALSE
  <2>1. PICK n \in T : \A m \in T : n <= m
    <3> HIDE DEF T
    <3>1. T \in SUBSET Nat
      BY DEF T
    <3> QED  BY <1>2, <3>1, LeastNat
  <2>2. n # 0
    <3> DEFINE e == [k \in 1 .. 0 |-> TRUE]
    <3>1. Is(e, 0)
      OBVIOUS
    <3> QED  BY <3>1, <2>1
  <2>3. n \in Nat /\ n - 1 \in Nat /\ n - 1 \notin T /\ n - 1 + 1 = n
    <3>1. n \in Nat
      BY <2>1
    <3>2. n - 1 \in Nat /\ n - 1 + 1 = n /\ ~ (n <= n - 1)
      BY <3>1, <2>2
    <3>3. n - 1 \notin T
      <4> HIDE DEF T
      <4> QED  BY <2>1, <3>2
    <3> QED  BY <3>1, <3>2, <3>3
  <2>4. PICK f : Is(f, n - 1)
    BY <2>3
  <2> DEFINE g == [k \in 1 .. n |-> k = 1 \/ Step(f[k - 1], k)]
  <2>5. \A k \in 1 .. n - 1 : g[k] = f[k]
    BY <2>3, <2>4
  <2>6. ASSUME NEW k \in 1 .. n, k # 1
        PROVE  g[k - 1] = f[k - 1]
    <3>1. k - 1 \in 1 .. n - 1
      BY <2>3, <2>6
    <3> QED  BY <3>1, <2>5
  <2>7. Is(g, n)
    BY <2>6
  <2> QED  BY <2>7, <2>1
<1>3. \E f : Is(f, Len(listed))
  BY <1>1, <1>2
<1>4. Is(Looked, Len(listed))
  <2> HIDE DEF Is
  <2> QED  BY <1>1, <1>3
<1> QED  BY <1>4 DEF Step

\* ... and so is Kept.
LEMMA KeptDefined ==
  ASSUME Entered
  PROVE  Kept = [k \in 0 .. Len(listed) |->
                   IF k = 0 THEN <<>>
                   ELSE IF listed[k] \in Reaped THEN Kept[k - 1]
                                                ELSE Append(Kept[k - 1], listed[k])]
<1> DEFINE Step(x, k) == IF listed[k] \in Reaped THEN x ELSE Append(x, listed[k])
           Is(f, n) == f = [k \in 0 .. n |-> IF k = 0 THEN <<>> ELSE Step(f[k - 1], k)]
           T == {n \in Nat : ~ \E f : Is(f, n)}
<1>1. Len(listed) \in Nat /\ Kept = CHOOSE f : Is(f, Len(listed))
  BY ListFacts DEF Kept
<1> HIDE DEF Step
<1>2. ASSUME T # {}
      PROVE  FALSE
  <2>1. PICK n \in T : \A m \in T : n <= m
    <3> HIDE DEF T
    <3>1. T \in SUBSET Nat
      BY DEF T
    <3> QED  BY <1>2, <3>1, LeastNat
  <2>2. n # 0
    <3> DEFINE e == [k \in 0 .. 0 |-> <<>>]
    <3>1. Is(e, 0)
      OBVIOUS
    <3> QED  BY <3>1, <2>1
  <2>3. n \in Nat /\ n - 1 \in Nat /\ n - 1 \notin T /\ n - 1 + 1 = n
    <3>1. n \in Nat
      BY <2>1
    <3>2. n - 1 \in Nat /\ n - 1 + 1 = n /\ ~ (n <= n - 1)
      BY <3>1, <2>2
    <3>3. n - 1 \notin T
      <4> HIDE DEF T
      <4> QED  BY <2>1, <3>2
    <3> QED  BY <3>1, <3>2, <3>3
  <2>4. PICK f : Is(f, n - 1)
    BY <2>3
  <2> DEFINE g == [k \in 0 .. n |-> IF k = 0 THEN <<>> ELSE Step(f[k - 1], k)]
  <2>5. \A k \in 0 .. n - 1 : g[k] = f[k]
    BY <2>3, <2>4
  <2>6. ASSUME NEW k \in 0 .. n, k # 0
        PROVE  g[k - 1] = f[k - 1]
    <3>1. k - 1 \in 0 .. n - 1
      BY <2>3, <2>6
    <3> QED  BY <3>1, <2>5
  <2>7. Is(g, n)
    BY <2>6
  <2> QED  BY <2>7, <2>1
<1>3. \E f : Is(f, Len(listed))
  BY <1>1, <1>2
<1>4. Is(Kept, Len(listed))
  <2> HIDE DEF Is
  <2> QED  BY <1>1, <1>3
<1> QED  BY <1>4 DEF Step

\* What the sweep leaves in the list.
LEMMA KeptIs ==
  ASSUME Entered
  PROVE  /\ Kept[Len(listed)] \in Seq(Signals) /\ IsInjective(Kept[Len(listed)])
         /\ ToSet(Kept[Len(listed)]) = heap \ Reaped
<1> DEFINE Upto(k) == {listed[j] : j \in 1 .. k}
           Good(k) == /\ Kept[k] \in Seq(Signals) /\ IsInjective(Kept[k])
                      /\ ToSet(Kept[k]) = Upto(k) \ Reaped
           T == {k \in 0 .. Len(listed) : ~Good(k)}
<1>1. Len(listed) \in Nat /\ DOMAIN listed = 1 .. Len(listed)
  BY ListFacts
<1>2. ASSUME T # {}
      PROVE  FALSE
  <2>1. PICK k \in T : \A m \in T : k <= m
    <3> HIDE DEF Good
    <3>1. T \in SUBSET Nat
      BY <1>1
    <3> HIDE DEF T
    <3> QED  BY <1>2, <3>1, LeastNat
  <2>2. k # 0
    <3>1. Kept[0] = <<>>
      BY <1>1, KeptDefined
    <3>2. Good(0)
      BY <3>1 DEF IsInjective, ToSet
    <3> HIDE DEF Good
    <3> QED  BY <2>1, <3>2
  <2>3. /\ k \in 1 .. Len(listed) /\ k - 1 \in 0 .. Len(listed)
        /\ ~ (k <= k - 1) /\ k \in 0 .. Len(listed)
    <3> HIDE DEF Good
    <3> QED  BY <2>1, <2>2, <1>1
  <2>4. Good(k - 1)
    <3> HIDE DEF Good
    <3> QED  BY <2>1, <2>3
  <2>5. Kept[k] = IF listed[k] \in Reaped THEN Kept[k - 1] ELSE Append(Kept[k - 1], listed[k])
    BY <2>2, <2>3, KeptDefined, Zenon
  <2>6. Upto(k) = Upto(k - 1) \cup {listed[k]}
    <3>1. 1 .. k = (1 .. k - 1) \cup {k}
      BY <2>3, <1>1
    <3> QED  BY <3>1
  <2>7. listed[k] \in Signals
    BY <2>3, ListFacts
  <2>8. listed[k] \notin Upto(k - 1)
    <3>1. \A j \in 1 .. k - 1 : j \in DOMAIN listed /\ j # k
      BY <2>3, <1>1
    <3> QED  BY <3>1, <2>3, <1>1 DEF Entered, IsInjective
  <2> HIDE DEF Upto
  <2>9. Good(k)
    <3>1. CASE listed[k] \in Reaped
      BY <3>1, <2>4, <2>5, <2>6
    <3>2. CASE listed[k] \notin Reaped
      <4> DEFINE s == Kept[k - 1]
                 n == listed[k]
      <4>1. s \in Seq(Signals) /\ n \in Signals /\ IsInjective(s) /\ n \notin ToSet(s)
        BY <2>4, <2>7, <2>8
      <4> HIDE DEF s, n
      <4>2. /\ Append(s, n) \in Seq(Signals) /\ IsInjective(Append(s, n))
            /\ ToSet(Append(s, n)) = ToSet(s) \cup {n}
        BY <4>1, SetAddedLast
      <4> QED  BY <3>2, <4>2, <2>4, <2>5, <2>6 DEF s, n
    <3> QED  BY <3>1, <3>2
  <2> HIDE DEF Good
  <2> QED  BY <2>1, <2>9
<1>3. Good(Len(listed))
  <2> HIDE DEF Good
  <2> QED  BY <1>1, <1>2
<1>4. Upto(Len(listed)) = heap
  BY <1>1 DEF Entered, ToSet
<1> QED  BY <1>3, <1>4

LEMMA StepEntered ==
  ASSUME IInv, Entered, [Next]_vars
  PROVE  Entered'
<1>1. ASSUME NEW x \in Objects, Create(x) PROVE Entered'
  <2>1. CASE x \in Owners
    <3>1. PICK s \in Signals \ heap : heap' = heap \cup {s} /\ listed' = <<s>> \o listed
      BY <1>1, <2>1 DEF Create
    <3>2. listed \in Seq(Signals) /\ IsInjective(listed) /\ s \notin ToSet(listed)
      BY <3>1 DEF Entered
    <3>3. /\ <<s>> \o listed \in Seq(Signals) /\ IsInjective(<<s>> \o listed)
          /\ ToSet(<<s>> \o listed) = ToSet(listed) \cup {s}
      BY <3>1, <3>2, SetAddedFirst
    <3> QED  BY <3>1, <3>3 DEF Entered
  <2>2. CASE x \notin Owners
    BY <1>1, <2>2 DEF Create, Entered, signalVars
  <2> QED  BY <2>1, <2>2
<1>2. CASE Sweep
  BY <1>2, KeptIs DEF Sweep, Entered
<1> QED
  BY <1>1, <1>2
  DEF Next, Destroy, Subscribe, RemoveReceiver, RemoveOwner, Gone, Entered, vars, signalVars

LEMMA AlwaysEntered == Spec => [](IInv /\ Entered)
<1>1. Init => Entered
  <2> SUFFICES ASSUME Init PROVE Entered
    OBVIOUS
  <2>1. listed = <<>> /\ heap = {}
    BY DEF Init
  <2> QED  BY <2>1 DEF Entered, IsInjective, ToSet
<1> QED  BY <1>1, InitIInv, NextIInv, StepEntered, PTL DEF Spec

\* An entry that the loop skips stands behind one that it erases, so each dead
\* signal that is left behind has one of its own that is deleted.
LEMMA HalfIsReaped ==
  ASSUME Entered, Sweep
  PROVE  2 * Cardinality(Dead') <= Cardinality(Dead)
<1> DEFINE left == Dead \ Reaped
           before == [s \in left |-> CHOOSE r \in Reaped :
                        \E k \in 2 .. Len(listed) : s = listed[k] /\ r = listed[k - 1]]
<1>1. Dead' = left
  BY DEF Dead, CheckSignal, Subscribers, Sweep, subVars
<1>2. Len(listed) \in Nat /\ DOMAIN listed = 1 .. Len(listed)
      /\ \A k \in 1 .. Len(listed) : listed[k] \in heap
  BY ListFacts
<1>3. \A k \in 1 .. Len(listed) : Looked[k] <=> k = 1 \/ ~(Looked[k - 1] /\ CheckSignal(listed[k - 1]))
  <2> DEFINE IsLooked(k) == k = 1 \/ ~(Looked[k - 1] /\ CheckSignal(listed[k - 1]))
  <2>1. Looked = [k \in 1 .. Len(listed) |-> IsLooked(k)]
    BY LookedDefined
  <2> HIDE DEF IsLooked
  <2>2. \A k \in 1 .. Len(listed) : Looked[k] = IsLooked(k)
    BY <2>1, Zenon
  <2> QED  BY <2>2 DEF IsLooked
<1>4. \A k \in 1 .. Len(listed) :
        Looked[k] /\ CheckSignal(listed[k]) => listed[k] \in Reaped
  BY DEF Reaped, Examined
<1>5. Reaped \subseteq Dead
  BY <1>2 DEF Reaped, Examined, Dead
<1>6. ASSUME NEW s \in left
      PROVE  \E k \in 2 .. Len(listed) : s = listed[k] /\ listed[k - 1] \in Reaped
  <2>1. PICK k \in 1 .. Len(listed) : s = listed[k]
    BY <1>2 DEF Dead, Entered, ToSet
  <2>2. CheckSignal(listed[k]) /\ ~Looked[k]
    BY <2>1, <1>4 DEF Dead
  <2>3. k # 1 /\ Looked[k - 1] /\ CheckSignal(listed[k - 1])
    BY <2>2, <1>3
  <2>4. k \in 2 .. Len(listed) /\ k - 1 \in 1 .. Len(listed)
    BY <2>3, <1>2
  <2> QED  BY <2>1, <2>3, <2>4, <1>4
<1>7. ASSUME NEW s \in left
      PROVE  /\ before[s] \in Reaped
             /\ \E k \in 2 .. Len(listed) : s = listed[k] /\ before[s] = listed[k - 1]
  BY <1>6
<1>8. before \in Injection(left, Reaped)
  <2>1. before \in [left -> Reaped]
    BY <1>7
  <2> HIDE DEF before
  <2>2. ASSUME NEW s \in left, NEW t \in left, before[s] = before[t] PROVE s = t
    <3>1. PICK k \in 2 .. Len(listed) : s = listed[k] /\ before[s] = listed[k - 1]
      BY <1>7
    <3>2. PICK m \in 2 .. Len(listed) : t = listed[m] /\ before[t] = listed[m - 1]
      BY <1>7
    <3>3. k - 1 \in DOMAIN listed /\ m - 1 \in DOMAIN listed
      BY <1>2
    <3>4. k - 1 = m - 1
      BY <3>1, <3>2, <3>3, <2>2 DEF Entered, IsInjective
    <3>5. k = m
      BY <3>4, <1>2
    <3> QED  BY <3>1, <3>2, <3>5
  <2> HIDE DEF left
  <2>3. \A s, t \in left : before[s] = before[t] => s = t
    BY <2>2
  <2> QED  BY <2>1, <2>3 DEF Injection, IsInjective
<1>9. IsFiniteSet(Dead)
  <2> DEFINE entries == 1 .. Len(listed)
             at == [k \in entries |-> listed[k]]
  <2>1. IsFiniteSet(entries)
    BY <1>2, FS_Interval
  <2>2. at \in Surjection(entries, heap)
    BY <1>2 DEF Surjection, Entered, ToSet
  <2>3. IsFiniteSet(heap)
    <3> HIDE DEF at, entries
    <3> QED  BY <2>1, <2>2, FS_Surjection
  <2> QED  BY <2>3, FS_Subset DEF Dead
<1> HIDE DEF before
<1>10. IsFiniteSet(Reaped) /\ Cardinality(Reaped) \in Nat
  BY <1>5, <1>9, FS_Subset, FS_CardinalityType
<1>11. /\ IsFiniteSet(left) /\ Cardinality(left) \in Nat
       /\ Cardinality(left) <= Cardinality(Reaped)
  <2> HIDE DEF left
  <2> QED  BY <1>8, <1>10, FS_Injection, FS_CardinalityType
<1>12. Cardinality(Dead) = Cardinality(left) + Cardinality(Reaped)
  <2>1. Dead = left \cup Reaped /\ left \cap Reaped = {}
    BY <1>5
  <2> HIDE DEF left
  <2>2. Cardinality(left \cup Reaped) =
          Cardinality(left) + Cardinality(Reaped) - Cardinality(left \cap Reaped)
    BY <1>10, <1>11, FS_Union
  <2>3. Cardinality(left \cap Reaped) = 0
    BY <2>1, FS_EmptySet
  <2> QED  BY <2>1, <2>2, <2>3, <1>10, <1>11
<1> QED  BY <1>1, <1>10, <1>11, <1>12

\* Although the loop of SignalManager::ManagerFunc skips the entry behind each one
\* it erases, it deletes at least half of the signals that could be deleted.
THEOREM SweepsHalve == Spec => SweepHalves
<1>1. IInv /\ Entered /\ [Next]_vars =>
        [Sweep => 2 * Cardinality(Dead') <= Cardinality(Dead)]_vars
  BY HalfIsReaped
<1> QED  BY <1>1, AlwaysEntered, PTL DEF Spec, SweepHalves

----------------------------------------------------------------------------
(***************************************************************************)
(* Refinement.                                                             *)
(***************************************************************************)
Subs(o, r) ==
  IF o \in Owners \cap Present /\ r \in Receivers \cap Present
  THEN funcs[signalOf[o]][r] ELSE 0

SubsTable == [o \in Objects |-> [r \in Objects |-> Subs(o, r)]]

\* Steps that do not change who is present, nor what the present know of each
\* other, change nothing.
LEMMA NoSubsChange ==
  ASSUME IInv, Present' = Present,
         \A o \in Owners \cap Present, r \in Receivers \cap Present :
           funcs'[signalOf'[o]][r] = funcs[signalOf[o]][r]
  PROVE  UNCHANGED <<Present, SubsTable>>
<1>1. \A o, r \in Objects : Subs(o, r)' = Subs(o, r)
  BY DEF Subs
<1> QED  BY <1>1 DEF SubsTable

LEMMA NothingDies ==
  ASSUME IInv, dying = NoObject
  PROVE  Present = alive /\ \A r \in Receivers \cap alive : r \notin removed
BY SignalAssumption DEF Present, IInv, Typed, DestructorShape

LEMMA CreateEnters ==
  ASSUME IInv, NEW x \in Objects, Create(x)
  PROVE  PubSub!Enter(x)
<1>1. Present = alive /\ Present' = alive \cup {x} /\ x \notin alive
  BY NothingDies, SignalAssumption DEF Create, Present
<1>2. ASSUME NEW o \in Objects, NEW r \in Objects PROVE Subs(o, r)' = Subs(o, r)
  <2>1. CASE o \in Owners \cap alive /\ r \in Receivers \cap alive
    <3>1. o # x /\ signalOf[o] \in heap
      BY <1>1, <2>1 DEF IInv, OwnersHaveSignals
    <3>2. signalOf'[o] = signalOf[o] /\ funcs'[signalOf[o]] = funcs[signalOf[o]]
      BY <3>1, <2>1 DEF Create, IInv, Typed
    <3> QED  BY <1>1, <2>1, <3>2 DEF Subs
  <2>2. CASE o = x /\ o \in Owners /\ r \in Receivers
    <3>1. PICK s \in Signals : /\ signalOf' = [signalOf EXCEPT ![x] = s]
                               /\ funcs' = [funcs EXCEPT ![s] = [q \in Receivers |-> 0]]
      BY <2>2 DEF Create
    <3>2. funcs'[signalOf'[x]][r] = 0
      BY <2>2, <3>1 DEF IInv, Typed
    <3> QED  BY <1>1, <2>2, <3>2 DEF Subs
  <2>3. CASE r = x /\ r \in Receivers /\ o \in Owners \cap alive
    <3>1. o # x /\ signalOf[o] \in heap /\ signalOf[o] \in Signals
      BY <1>1, <2>3 DEF IInv, OwnersHaveSignals, Typed
    <3>2. signalOf'[o] = signalOf[o] /\ funcs'[signalOf[o]] = funcs[signalOf[o]]
      BY <3>1, <2>3 DEF Create, IInv, Typed
    <3>3. funcs[signalOf[o]][x] = 0
      BY <1>1, <2>3, <3>1 DEF IInv, NothingDangles
    <3> QED  BY <1>1, <2>3, <3>2, <3>3 DEF Subs
  <2>4. CASE o \notin Owners \cap (alive \cup {x}) \/ r \notin Receivers \cap (alive \cup {x})
    BY <1>1, <2>4 DEF Subs
  <2> QED  BY <2>1, <2>2, <2>3, <2>4
<1>3. SubsTable' = SubsTable
  BY <1>2 DEF SubsTable
<1> QED  BY <1>1, <1>3 DEF PubSub!Enter, SubsTable, Subs

LEMMA SubscribeSubscribes ==
  ASSUME IInv, NEW o \in Owners, NEW r \in Receivers, Subscribe(o, r)
  PROVE  PubSub!Subscribe(o, r)
<1>1. /\ Present = alive /\ Present' = alive /\ o \in alive /\ r \in alive
      /\ r \notin removed /\ signalOf' = signalOf
  BY NothingDies DEF Subscribe, Present
<1>2. signalOf[o] \in heap /\ signalOf[o] \in Signals
  BY <1>1 DEF IInv, OwnersHaveSignals, Typed
<1>3. funcs' = [funcs EXCEPT ![signalOf[o]][r] = @ + 1]
  BY <1>1, <1>2 DEF Subscribe
<1>4. ASSUME NEW p \in Objects, NEW q \in Objects
      PROVE  Subs(p, q)' = IF p = o /\ q = r THEN Subs(o, r) + 1 ELSE Subs(p, q)
  <2>1. CASE p \in Owners \cap alive /\ q \in Receivers \cap alive
    <3>1. signalOf[p] \in Signals /\ (signalOf[p] = signalOf[o] <=> p = o)
      BY <1>1, <2>1 DEF IInv, OwnersHaveSignals, Typed
    <3>2. funcs'[signalOf[p]][q] = IF p = o /\ q = r THEN funcs[signalOf[o]][r] + 1
                                                    ELSE funcs[signalOf[p]][q]
      BY <1>2, <1>3, <2>1, <3>1 DEF IInv, Typed
    <3> QED  BY <1>1, <2>1, <3>2 DEF Subs
  <2>2. CASE ~(p \in Owners \cap alive /\ q \in Receivers \cap alive)
    BY <1>1, <2>2 DEF Subs
  <2> QED  BY <2>1, <2>2
<1>5. o \in Objects /\ r \in Objects
  BY DEF Objects
<1>6. SubsTable' = [SubsTable EXCEPT ![o][r] = @ + 1]
  BY <1>4, <1>5 DEF SubsTable
<1> QED  BY <1>1, <1>6 DEF PubSub!Subscribe, SubsTable, Subs

LEMMA DestroyLeaves ==
  ASSUME IInv, NEW x \in Objects, Destroy(x)
  PROVE  PubSub!Leave(x)
<1>1. /\ Present = alive /\ Present' = Present \ {x} /\ x \in Present
      /\ funcs' = funcs /\ signalOf' = signalOf
  BY NothingDies DEF Destroy, Present, subVars
<1>2. \A o, r \in Objects : Subs(o, r)' = IF x \in {o, r} THEN 0 ELSE Subs(o, r)
  BY <1>1 DEF Subs
<1>3. SubsTable' = [o \in Objects |-> [r \in Objects |->
                      IF x \in {o, r} THEN 0 ELSE SubsTable[o][r]]]
  BY <1>2 DEF SubsTable
<1> QED  BY <1>1, <1>3 DEF PubSub!Leave, SubsTable, Subs

\* Destructors only touch what the dying object has to do with.
LEMMA TeardownIsSilent ==
  ASSUME IInv, RemoveReceiver \/ RemoveOwner \/ Gone \/ Sweep
  PROVE  UNCHANGED <<Present, SubsTable>>
<1>1. CASE RemoveReceiver
  <2>1. Present' = Present /\ signalOf' = signalOf
    BY <1>1 DEF RemoveReceiver, Present
  <2>2. \A s \in Signals, r \in Receivers \ {dying} : funcs'[s][r] = funcs[s][r]
    BY <1>1 DEF RemoveReceiver, Unsubscribed, IInv, Typed
  <2>3. \A o \in Owners \cap Present : signalOf[o] \in Signals
    BY DEF Present, IInv, OwnersHaveSignals, Typed
  <2> QED  BY <2>1, <2>2, <2>3, NoSubsChange DEF Present
<1>2. CASE RemoveOwner
  <2>1. /\ Present' = Present /\ signalOf' = signalOf
        /\ dying \in Owners \cap alive /\ signalOf[dying] \in heap
        /\ \A t \in Signals, r \in Receivers :
             t # signalOf[dying] => funcs'[t][r] = funcs[t][r]
    BY <1>2, RemoveOwnerEffect DEF Present
  <2>2. \A o \in Owners \cap Present :
          signalOf[o] \in Signals /\ signalOf[o] # signalOf[dying]
    BY <2>1 DEF Present, IInv, OwnersHaveSignals, Typed
  <2> QED  BY <2>1, <2>2, NoSubsChange
<1>3. CASE Gone
  <2>1. /\ Present' = Present /\ funcs' = funcs
        /\ \A o \in Owners \cap Present : signalOf'[o] = signalOf[o]
    BY <1>3, SignalAssumption DEF Gone, Present, IInv, Typed
  <2> QED  BY <2>1, NoSubsChange
<1>4. CASE Sweep
  <2>1. Present' = Present /\ funcs' = funcs /\ signalOf' = signalOf
    BY <1>4 DEF Sweep, Present, subVars
  <2> QED  BY <2>1, NoSubsChange
<1> QED  BY <1>1, <1>2, <1>3, <1>4

LEMMA StepIsPubSub ==
  ASSUME IInv, [Next]_vars
  PROVE  [PubSub!PubSubNext]_<<Present, SubsTable>>
<1>1. CASE \E x \in Objects : Create(x) \/ Destroy(x)
  BY <1>1, CreateEnters, DestroyLeaves DEF PubSub!PubSubNext
<1>2. CASE \E o \in Owners, r \in Receivers : Subscribe(o, r)
  BY <1>2, SubscribeSubscribes DEF PubSub!PubSubNext, Objects
<1>3. CASE RemoveReceiver \/ RemoveOwner \/ Gone \/ Sweep
  BY <1>3, TeardownIsSilent
<1>4. CASE UNCHANGED vars
  BY <1>4, NoSubsChange DEF vars, subVars, Present
<1> QED  BY <1>1, <1>2, <1>3, <1>4 DEF Next

\* Signals keep what PubSub promises.
THEOREM SignalsArePubSub == Spec => IsPubSub
<1>1. Init => PubSub!PubSubInit
  <2>1. Init => Present = {}
    BY DEF Init, Present
  <2> QED  BY <2>1 DEF PubSub!PubSubInit, Present
<1>2. IInv /\ [Next]_vars => [PubSub!PubSubNext]_(PubSub!pubSubVars)
  BY StepIsPubSub DEF PubSub!pubSubVars, SubsTable, Subs
<1> QED  BY <1>1, <1>2, Inductive, PTL DEF Spec, IsPubSub, PubSub!PubSubSpec
=============================================================================
