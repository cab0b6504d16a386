--------------------------- MODULE ConsoleProofs ---------------------------
(***************************************************************************)
(* Whatever is typed, sent and reset, the settings stay a tree, answer as  *)
(* they were told, and a Write nothing came across is read back; a command *)
(* is made of words that were typed, and completion loses none of them.    *)
(***************************************************************************)
EXTENDS Console, SequenceTheorems, FiniteSetTheorems, TLAPS

Content == Value \cup {Object, Blank}

----------------------------------------------------------------------------
(***************************************************************************)
(* Trees.                                                                  *)
(***************************************************************************)

LEMMA IsTree ==
  ASSUME NEW D \in SUBSET Path, NEW t \in [D -> Content]
  PROVE  t \in Trees
BY DEF Trees, Content

LEMMA TreeIs ==
  ASSUME NEW t \in Trees
  PROVE  DOMAIN t \subseteq Path /\ t \in [DOMAIN t -> Content]
BY DEF Trees, Content

LEMMA PathOrder ==
  /\ \A p, q \in Path : q \in Below(p) <=> p \in Over(q)
  /\ \A p \in Path : p \notin Below(p) /\ p \notin Over(p)
  /\ \A p, q, r \in Path : p \in Over(q) /\ q \in Over(r) => p \in Over(r)
  /\ \A p \in Path : Over(p) \subseteq Path /\ Below(p) \subseteq Path
BY AboveAssumption DEF Below, Over

LEMMA EmptyIsTree ==
  /\ EmptyTree \in Trees /\ IsNested(EmptyTree)
  /\ \A p \in Path : Answer(EmptyTree, p) = NoText
<1>1. EmptyTree \in [{} -> Content]
  BY DEF EmptyTree
<1>2. EmptyTree \in Trees
  BY <1>1, IsTree
<1> QED BY <1>1, <1>2 DEF IsNested, Answer

LEMMA AnswerTyped ==
  ASSUME NEW t \in Trees
  PROVE  Answers(t) \in [Path -> Value \cup {NoText, Unknown}]
BY DEF Answers, Answer

\* Objects made on the way to a path answer nothing.
LEMMA ObjectsMade ==
  ASSUME NEW t \in Trees, IsNested(t), NEW p \in Path,
         \A q \in Over(p) \cap DOMAIN t : t[q] = Object,
         NEW S \in SUBSET Over(p), \A q \in S : Over(q) \subseteq S
  PROVE  /\ WithObjects(t, S) \in Trees
         /\ IsNested(WithObjects(t, S))
         /\ \A q \in Path : Answer(WithObjects(t, S), q) = Answer(t, q)
<1> DEFINE u == WithObjects(t, S)
<1>1. DOMAIN t \subseteq Path /\ S \subseteq Path
  BY TreeIs, PathOrder
<1>2. u \in [DOMAIN t \cup S -> Content]
  BY TreeIs DEF WithObjects, Content
<1>3. u \in Trees
  BY <1>1, <1>2, IsTree
<1>4. IsNested(u)
  <2> SUFFICES ASSUME NEW r \in DOMAIN u, NEW q \in Over(r)
               PROVE  q \in DOMAIN u /\ u[q] = Object
    BY DEF IsNested
  <2>1. DOMAIN u = DOMAIN t \cup S
    BY DEF WithObjects
  <2>2. CASE r \in DOMAIN t
    BY <2>1, <2>2 DEF IsNested, WithObjects
  <2>3. CASE r \in S
    <3>1. q \in S
      BY <2>3
    <3> QED BY <2>1, <3>1 DEF WithObjects
  <2> QED BY <2>1, <2>2, <2>3
<1>5. ASSUME NEW q \in Path PROVE Answer(u, q) = Answer(t, q)
  BY MarkAssumption DEF Answer, WithObjects
<1> QED BY <1>3, <1>4, <1>5

\* A key that is set answers, those below it are gone, the others stay.
LEMMA KeyPut ==
  ASSUME NEW t \in Trees, IsNested(t), NEW p \in Path,
         \A q \in Over(p) \cap DOMAIN t : t[q] = Object,
         NEW x \in Value \cup {Blank}
  PROVE  /\ Put(t, p, x) \in Trees
         /\ IsNested(Put(t, p, x))
         /\ \A q \in Path :
              Answer(Put(t, p, x), q) =
                IF q = p THEN IF x \in Value THEN x ELSE NoText
                ELSE IF q \in Below(p) THEN NoText ELSE Answer(t, q)
<1> DEFINE w == WithObjects(t, Over(p))
           D == (DOMAIN w \ Below(p)) \cup {p}
           u == [q \in D |-> IF q = p THEN x ELSE w[q]]
<1>1. Put(t, p, x) = u
  BY DEF Put
<1>2. \A q \in Over(p) : Over(q) \subseteq Over(p)
  BY PathOrder
<1>3. /\ w \in Trees /\ IsNested(w)
      /\ \A q \in Path : Answer(w, q) = Answer(t, q)
  BY <1>2, ObjectsMade, PathOrder
<1>4. Over(p) \subseteq DOMAIN w /\ \A q \in Over(p) : w[q] = Object
  BY DEF WithObjects
<1> HIDE DEF w
<1>5. DOMAIN w \subseteq Path /\ w \in [DOMAIN w -> Content]
  BY <1>3, TreeIs
<1>6. D \subseteq Path /\ u \in [D -> Content]
  BY <1>5 DEF Content
<1>7. u \in Trees
  BY <1>6, IsTree
<1>8. ASSUME NEW r \in D, NEW q \in Over(r) PROVE q \in D /\ u[q] = Object
  <2>1. CASE r = p
    BY <1>4, <2>1, <1>5, PathOrder
  <2>2. CASE r # p
    <3>1. q \in DOMAIN w /\ w[q] = Object /\ q \in Path /\ r \in Path
      BY <1>3, <1>5, <2>2 DEF IsNested
    <3>2. q # p /\ q \notin Below(p)
      BY <2>2, <3>1, PathOrder
    <3> QED BY <3>1, <3>2
  <2> QED BY <2>1, <2>2
<1>9. IsNested(u)
  BY <1>8 DEF IsNested
<1>10. ASSUME NEW q \in Path
       PROVE  Answer(u, q) = IF q = p THEN IF x \in Value THEN x ELSE NoText
                             ELSE IF q \in Below(p) THEN NoText ELSE Answer(t, q)
  <2>1. CASE q = p
    BY <2>1 DEF Answer
  <2>2. CASE q # p
    <3>1. Answer(w, q) = Answer(t, q)
      BY <1>3
    <3> QED BY <2>2, <3>1 DEF Answer
  <2> QED BY <2>1, <2>2
<1> HIDE DEF u
<1> QED BY <1>1, <1>7, <1>9, <1>10

LEMMA KeyRemoved ==
  ASSUME NEW t \in Trees, IsNested(t), NEW p \in Path
  PROVE  /\ Without(t, p) \in Trees
         /\ IsNested(Without(t, p))
         /\ \A q \in Path :
              Answer(Without(t, p), q) =
                IF q = p \/ q \in Below(p) THEN NoText ELSE Answer(t, q)
<1> DEFINE D == DOMAIN t \ ({p} \cup Below(p))
           u == [q \in D |-> t[q]]
<1>1. Without(t, p) = u
  BY DEF Without, Restrict
<1>2. DOMAIN t \subseteq Path /\ u \in [D -> Content]
  BY TreeIs
<1>3. u \in Trees
  BY <1>2, IsTree
<1>4. ASSUME NEW r \in D, NEW q \in Over(r) PROVE q \in D /\ u[q] = Object
  <2>1. q \in DOMAIN t /\ t[q] = Object /\ q \in Path /\ r \in Path
    BY <1>2 DEF IsNested
  <2>2. q # p /\ q \notin Below(p)
    BY <2>1, PathOrder
  <2> QED BY <2>1, <2>2
<1>5. IsNested(u)
  BY <1>4 DEF IsNested
<1>6. ASSUME NEW q \in Path
      PROVE  Answer(u, q) = IF q = p \/ q \in Below(p) THEN NoText ELSE Answer(t, q)
  BY DEF Answer
<1> HIDE DEF u
<1> QED BY <1>1, <1>3, <1>5, <1>6

----------------------------------------------------------------------------
(***************************************************************************)
(* The settings' invariant.  A Write nothing came across holds a snapshot  *)
(* of what was told when it began, and an open file is empty.              *)
(***************************************************************************)

Matches(t) == \A p \in Path : newest[p] # Unknown => newest[p] = Answer(t, p)

Safe ==
  /\ opened # Nobody => Writing(opened) /\ file = Cut
  /\ ~spoiled => \A c \in Contexts :
       Writing(c) => Matches(data[c]) /\ \A d \in Contexts : Writing(d) => d = c

CInv == ConfigTypeOK /\ Nested /\ AsTold /\ Safe /\ Survives

LEMMA ConfigStarts == ConfigInit => CInv
<1> SUFFICES ASSUME ConfigInit PROVE CInv
  OBVIOUS
<1>1. ConfigTypeOK
  BY EmptyIsTree, AnswerTyped DEF ConfigInit, ConfigTypeOK, Nobody
<1>2. Nested
  BY EmptyIsTree DEF ConfigInit, Nested, Writing
<1>3. AsTold
  BY DEF ConfigInit, AsTold, Answers
<1>4. Safe
  BY DEF ConfigInit, Safe, Writing
<1>5. Survives
  BY EmptyIsTree, MarkAssumption DEF ConfigInit, Survives, Answers
<1> QED BY <1>1, <1>2, <1>3, <1>4, <1>5 DEF CInv

\* What leaves the file and the writes under way alone.
LEMMA FlashKept ==
  ASSUME CInv, UNCHANGED <<root, flash>>, tree' \in Trees, IsNested(tree'), AsTold',
         told' \in [Path -> Value \cup {NoText, Unknown}]
  PROVE  CInv'
<1>1. ConfigTypeOK'
  BY DEF CInv, flash, ConfigTypeOK
<1>2. Nested'
  BY DEF CInv, flash, Nested, IsNested, Writing
<1>3. Safe' /\ Survives'
  BY DEF CInv, flash, Safe, Survives, Matches, Writing, Answer
<1> QED BY <1>1, <1>2, <1>3 DEF CInv

LEMMA SetKeeps ==
  ASSUME CInv, NEW p, NEW v, v \in Value, setValue(p, v)
  PROVE  CInv'
<1>1. /\ tree \in Trees /\ IsNested(tree) /\ AsTold
      /\ told \in [Path -> Value \cup {NoText, Unknown}]
      /\ UNCHANGED <<root, flash>>
  BY DEF CInv, ConfigTypeOK, Nested, setValue
<1>2. CASE ~(p \in Path /\ Reachable(p))
  <2>1. UNCHANGED <<tree, told>>
    BY <1>2 DEF setValue
  <2> QED BY <1>1, <2>1, FlashKept DEF AsTold, IsNested, Answer
<1>3. CASE p \in Path /\ Reachable(p)
  <2>0. \A q \in Over(p) \cap DOMAIN tree : tree[q] = Object
    BY <1>3 DEF Reachable
  <2>1. CASE SetSucceeds(p, v)
    <3>1. /\ tree' = Put(tree, p, v)
          /\ told' = [q \in Path |->
               IF q = p THEN v ELSE IF q \in Below(p) THEN NoText ELSE told[q]]
      BY <2>1 DEF SetSucceeds, Told
    <3>2. tree' \in Trees /\ IsNested(tree')
      BY <1>1, <1>3, <2>0, <3>1, KeyPut
    <3>3. \A q \in Path :
            Answer(tree', q) = IF q = p THEN v
                               ELSE IF q \in Below(p) THEN NoText ELSE Answer(tree, q)
      BY <1>1, <1>3, <2>0, <3>1, KeyPut
    <3>4. told' \in [Path -> Value \cup {NoText, Unknown}]
      BY <1>1, <3>1
    <3>5. AsTold'
      BY <1>1, <3>1, <3>3 DEF AsTold
    <3> QED BY <1>1, <3>2, <3>4, <3>5, FlashKept
  <2>2. CASE SetFindsNoMemory(p)
    <3>1. told' = [told EXCEPT ![p] = Unknown]
      BY <2>2 DEF SetFindsNoMemory
    <3>2. /\ tree' \in Trees /\ IsNested(tree')
          /\ \A q \in Path \ {p} : Answer(tree', q) = Answer(tree, q)
      <4>1. ASSUME NEW S \in SUBSET Over(p), \A q \in S : Over(q) \subseteq S,
                   tree' = WithObjects(tree, S)
            PROVE  /\ tree' \in Trees /\ IsNested(tree')
                   /\ \A q \in Path \ {p} : Answer(tree', q) = Answer(tree, q)
        BY <1>1, <1>3, <2>0, <4>1, ObjectsMade
      <4>2. ASSUME p \notin DOMAIN tree, tree' = Put(tree, p, Blank)
            PROVE  /\ tree' \in Trees /\ IsNested(tree')
                   /\ \A q \in Path \ {p} : Answer(tree', q) = Answer(tree, q)
        <5>1. /\ tree' \in Trees /\ IsNested(tree')
              /\ \A q \in Path \ {p} :
                   Answer(tree', q) = IF q \in Below(p) THEN NoText ELSE Answer(tree, q)
          BY <1>1, <1>3, <2>0, <4>2, KeyPut
        <5>2. ASSUME NEW q \in Below(p) PROVE q \notin DOMAIN tree
          BY <1>1, <1>3, <4>2, PathOrder DEF IsNested
        <5>3. \A q \in Below(p) : Answer(tree, q) = NoText
          BY <5>2 DEF Answer
        <5> QED BY <5>1, <5>3
      <4> QED BY <2>2, <4>1, <4>2 DEF SetFindsNoMemory
    <3>3. told' \in [Path -> Value \cup {NoText, Unknown}]
      BY <1>1, <3>1
    <3>4. AsTold'
      BY <1>1, <1>3, <3>1, <3>2 DEF AsTold
    <3> QED BY <1>1, <3>2, <3>3, <3>4, FlashKept
  <2> QED BY <1>3, <2>1, <2>2 DEF setValue
<1> QED BY <1>2, <1>3

LEMMA RemoveKeeps ==
  ASSUME CInv, NEW p, removeValue(p)
  PROVE  CInv'
<1>1. /\ tree \in Trees /\ IsNested(tree) /\ AsTold
      /\ told \in [Path -> Value \cup {NoText, Unknown}]
      /\ UNCHANGED <<root, flash>>
  BY DEF CInv, ConfigTypeOK, Nested, removeValue
<1>2. CASE ~(p \in Path /\ Reachable(p))
  <2>1. UNCHANGED <<tree, told>>
    BY <1>2 DEF removeValue
  <2> QED BY <1>1, <2>1, FlashKept DEF AsTold, IsNested, Answer
<1>3. CASE p \in Path /\ Reachable(p)
  <2>1. /\ tree' = Without(tree, p)
        /\ told' = [q \in Path |->
             IF q = p THEN NoText ELSE IF q \in Below(p) THEN NoText ELSE told[q]]
    BY <1>3 DEF removeValue, Told
  <2>2. /\ tree' \in Trees /\ IsNested(tree')
        /\ \A q \in Path : Answer(tree', q) =
             IF q = p \/ q \in Below(p) THEN NoText ELSE Answer(tree, q)
    BY <1>1, <1>3, <2>1, KeyRemoved
  <2>3. told' \in [Path -> Value \cup {NoText, Unknown}]
    BY <1>1, <2>1
  <2>4. AsTold'
    BY <1>1, <2>1, <2>2 DEF AsTold
  <2> QED BY <1>1, <2>2, <2>3, <2>4, FlashKept
<1> QED BY <1>2, <1>3

\* What leaves the settings in memory alone.
LEMMA MemoryKept ==
  ASSUME CInv, UNCHANGED memory
  PROVE  AsTold' /\ tree' \in Trees /\ IsNested(tree')
BY DEF CInv, memory, AsTold, Answer, IsNested, Nested, ConfigTypeOK

LEMMA WriteKeeps ==
  ASSUME CInv, NEW c \in Contexts, ~Writing(c), opened = Nobody, Write(c)
  PROVE  CInv'
<1>1. AsTold' /\ tree' \in Trees /\ IsNested(tree')
  BY MemoryKept DEF Write
<1>2. /\ data' = [data EXCEPT ![c] = tree]
      /\ newest' = told /\ spoiled' = \E d \in Contexts : Writing(d)
      /\ tree' = tree /\ told' = told /\ root' = root /\ file' = file /\ opened' = opened
  BY DEF Write, memory
<1>3. ConfigTypeOK /\ AsTold /\ Nested
  BY DEF CInv
<1>4. ConfigTypeOK'
  BY <1>2, <1>3 DEF ConfigTypeOK
<1>5. /\ data'[c] = tree /\ tree # NoText
      /\ \A d \in Contexts \ {c} : data'[d] = data[d]
  BY <1>2, <1>3, MarkAssumption DEF ConfigTypeOK
<1>6. Nested'
  BY <1>2, <1>3, <1>5 DEF Nested, IsNested, Writing
<1>7. Safe'
  <2>1. (opened # Nobody)' => FALSE
    BY <1>2
  <2>2. Matches(tree)'
    BY <1>2, <1>3 DEF Matches, AsTold, Answer
  <2>3. ASSUME ~spoiled', NEW d \in Contexts, Writing(d)'
        PROVE  d = c /\ Matches(data[d])'
    BY <1>2, <1>5, <2>2, <2>3 DEF Writing, Matches, Answer
  <2> QED BY <2>1, <2>3 DEF Safe
<1>8. Survives'
  BY <1>5 DEF Survives, Writing
<1> QED BY <1>1, <1>4, <1>6, <1>7, <1>8 DEF CInv

LEMMA OpensKeeps ==
  ASSUME CInv, NEW c \in Contexts, Opens(c)
  PROVE  CInv'
<1>1. AsTold' /\ tree' \in Trees /\ IsNested(tree')
  BY MemoryKept DEF Opens
<1>2. /\ opened' = c /\ file' = Cut /\ Writing(c)
      /\ UNCHANGED <<root, tree, told, data, newest, spoiled>>
  BY DEF Opens, memory, OpenTruncates
<1>3. ConfigTypeOK' /\ Nested'
  BY <1>2 DEF CInv, ConfigTypeOK, Nested, IsNested, Writing
<1>4. Safe'
  BY <1>2 DEF CInv, Safe, Writing, Matches, Answer
<1>5. Survives'
  BY <1>2 DEF Survives, Writing
<1> QED BY <1>1, <1>3, <1>4, <1>5 DEF CInv

LEMMA StoresKeeps ==
  ASSUME CInv, NEW c \in Contexts, Stores(c)
  PROVE  CInv'
<1>1. AsTold' /\ tree' \in Trees /\ IsNested(tree')
  BY MemoryKept DEF Stores
<1>2. /\ opened = c /\ c # Nobody /\ opened' = Nobody
      /\ data' = [data EXCEPT ![c] = NoText]
      /\ UNCHANGED <<root, tree, told, newest>>
  BY MarkAssumption DEF Stores, memory, Nobody
<1>3. ConfigTypeOK /\ Nested /\ Safe
  BY DEF CInv
<1>4. /\ data[c] \in Trees /\ data[c] # Cut /\ data[c] # NoText /\ IsNested(data[c])
      /\ file = Cut
  BY <1>2, <1>3, MarkAssumption DEF ConfigTypeOK, Safe, Writing, Nested
<1>5. /\ data'[c] = NoText /\ \A d \in Contexts \ {c} : data'[d] = data[d]
  BY <1>2, <1>3 DEF ConfigTypeOK
<1>6. \/ file' = data[c] /\ spoiled' = spoiled
      \/ file' = file /\ spoiled' = TRUE
  BY <1>4 DEF Stores
<1>7. ConfigTypeOK'
  BY <1>2, <1>3, <1>4, <1>6 DEF ConfigTypeOK, Nobody
<1>8. Nested'
  BY <1>2, <1>3, <1>4, <1>5, <1>6 DEF Nested, IsNested, Writing
<1>9. Safe'
  <2>1. ASSUME ~spoiled', NEW d \in Contexts, Writing(d)'
        PROVE  FALSE
    <3>1. ~spoiled /\ Writing(d) /\ d # c /\ Writing(c)
      BY <1>4, <1>5, <1>6, <2>1 DEF Writing
    <3> QED BY <1>3, <3>1 DEF Safe
  <2> QED BY <1>2, <2>1 DEF Safe
<1>10. Survives'
  <2> SUFFICES ASSUME ~spoiled'
               PROVE  /\ file' # Cut /\ file' # NoText
                      /\ \A p \in Path : newest'[p] # Unknown =>
                                           newest'[p] = Answer(file', p)
    BY DEF Survives, Answer
  <2>1. ~spoiled /\ file' = data[c]
    BY <1>6
  <2>2. Matches(data[c])
    BY <1>3, <1>4, <2>1 DEF Safe, Writing
  <2> QED BY <1>2, <1>4, <2>1, <2>2 DEF Matches
<1> QED BY <1>1, <1>7, <1>8, <1>9, <1>10 DEF CInv

LEMMA GivesUpKeeps ==
  ASSUME CInv, NEW c \in Contexts, GivesUp(c)
  PROVE  CInv'
<1>1. AsTold' /\ tree' \in Trees /\ IsNested(tree')
  BY MemoryKept DEF GivesUp
<1>2. /\ data' = [data EXCEPT ![c] = NoText] /\ spoiled' = TRUE
      /\ opened' = Nobody
      /\ UNCHANGED <<root, tree, told, file, newest>>
  BY DEF GivesUp, memory
<1>3. ConfigTypeOK /\ Nested
  BY DEF CInv
<1>4. ConfigTypeOK'
  BY <1>2, <1>3 DEF ConfigTypeOK, Nobody
<1>5. Nested'
  BY <1>2, <1>3 DEF Nested, IsNested, Writing, ConfigTypeOK
<1>6. Safe' /\ Survives'
  BY <1>2 DEF Safe, Survives
<1> QED BY <1>1, <1>4, <1>5, <1>6 DEF CInv

LEMMA ResetKeeps ==
  ASSUME CInv, Reset
  PROVE  CInv'
<1>1. ConfigTypeOK /\ Nested /\ Safe /\ Survives
  BY DEF CInv
<1>2. /\ root' \in {"object", "invalid"} /\ tree' \in Trees /\ IsNested(tree')
      /\ told' = Answers(tree')
  <2>1. \/ tree' = EmptyTree
        \/ file \notin {NoText, Cut} /\ tree' = file
    BY DEF Reset, Read
  <2>2. file \notin {NoText, Cut} => file \in Trees /\ IsNested(file)
    BY <1>1 DEF ConfigTypeOK, Nested
  <2>3. tree' \in Trees /\ IsNested(tree')
    BY <2>1, <2>2, EmptyIsTree
  <2> QED BY <2>3 DEF Reset, Read
<1>3. /\ data' = [c \in Contexts |-> NoText] /\ opened' = Nobody
      /\ spoiled' = (spoiled \/ \E c \in Contexts : Writing(c))
      /\ file' = file /\ newest' = newest
  BY DEF Reset
<1>4. ConfigTypeOK'
  <2>1. told' \in [Path -> Value \cup {NoText, Unknown}]
    BY <1>2, AnswerTyped
  <2>2. spoiled' \in BOOLEAN
    BY <1>1, <1>3 DEF ConfigTypeOK
  <2> QED BY <1>1, <1>2, <1>3, <2>1, <2>2 DEF ConfigTypeOK, Nobody
<1>5. Nested'
  BY <1>1, <1>2, <1>3 DEF Nested, IsNested, Writing
<1>6. AsTold'
  BY <1>2 DEF AsTold, Answers, Answer
<1>7. Safe'
  BY <1>3 DEF Safe, Writing
<1>8. Survives'
  BY <1>1, <1>3 DEF Survives, Answer
<1> QED BY <1>4, <1>5, <1>6, <1>7, <1>8 DEF CInv

LEMMA ConfigRests ==
  ASSUME CInv, UNCHANGED configVars
  PROVE  CInv'
<1>1. UNCHANGED memory /\ UNCHANGED flash
  BY DEF configVars
<1>2. AsTold' /\ tree' \in Trees /\ IsNested(tree')
  BY <1>1, MemoryKept
<1>3. told' \in [Path -> Value \cup {NoText, Unknown}] /\ root' = root
  BY <1>1 DEF CInv, ConfigTypeOK, memory
<1> QED BY <1>1, <1>2, <1>3, FlashKept

----------------------------------------------------------------------------
(***************************************************************************)
(* Lines and what they order.                                              *)
(***************************************************************************)

LEMMA FrontOf ==
  ASSUME NEW s \in Seq(Word), \A i \in 1 .. Len(s) - 1 : s[i] \in Value
  PROVE  Front(s) \in Seq(Value)
<1>1. Len(s) \in Nat
  BY LenProperties
<1>2. 1 \in Int /\ Len(s) - 1 \in Int
  BY <1>1
<1>3. SubSeq(s, 1, Len(s) - 1) \in Seq(Value)
  BY <1>2, SubSeqProperties
<1> QED BY <1>3 DEF Front

LEMMA WordsOf ==
  ASSUME NEW l, IsLine(l)
  PROVE  Words(l) \in Seq(Value)
<1>1. l \in Seq(Word) /\ Len(l) \in Nat /\ DOMAIN l = 1 .. Len(l)
  BY LenProperties DEF IsLine
<1>2. \A i \in 1 .. Len(l) : l[i] \in Word /\ (i # Len(l) => l[i] # Empty)
  BY <1>1, ElementOfSeq DEF IsLine
<1>3. \A i \in 1 .. Len(l) - 1 : l[i] \in Value
  <2>1. \A i \in 1 .. Len(l) - 1 : i \in 1 .. Len(l) /\ i # Len(l)
    <3>1. Len(l) \in Nat
      BY <1>1
    <3> QED BY <3>1
  <2> QED BY <1>2, <2>1 DEF Word
<1>4. CASE l # <<>> /\ Last(l) = Empty
  BY <1>1, <1>3, <1>4, FrontOf DEF Words
<1>5. CASE ~(l # <<>> /\ Last(l) = Empty)
  <2>1. ASSUME NEW i \in 1 .. Len(l) PROVE l[i] \in Value
    <3>1. i = Len(l) => l[i] # Empty
      BY <1>1, <1>5, EmptySeq DEF Last
    <3> QED BY <1>2, <3>1 DEF Word
  <2>2. l \in Seq(Value)
    BY <1>1, <2>1, SeqDef
  <2> QED BY <1>5, <2>2 DEF Words
<1> QED BY <1>4, <1>5

LEMMA CommandsDiffer ==
  /\ config \notin {set, get, remove, write}
  /\ set # get /\ set # remove /\ set # write /\ remove # get /\ remove # write /\ get # write
  /\ Empty \notin {set, get, remove, write}
BY WordAssumption

\* The slots of a vector up to its length are the words behind the first.
LEMMA SlotsOfLine ==
  ASSUME NEW w \in Seq(Value), w # <<>>
  PROVE  /\ \A i \in 1 .. Len(w) - 1 : Slot(Parameters(w), i) = w[i + 1]
         /\ Len(w) = 1 => Slot(Parameters(w), 1) = w[1]
         /\ Parameters(w).length = Len(w) - 1
<1>1. Len(w) \in Nat /\ Len(w) >= 1
  BY LenProperties, EmptySeq
<1>2. Parameters(w).length = Len(w) - 1
  BY DEF Parameters
<1>3. CASE Len(w) = 1
  <2>1. Parameters(w).slots = w
    BY <1>3 DEF Parameters
  <2> QED BY <1>1, <1>2, <1>3, <2>1, LenProperties DEF Slot
<1>4. CASE Len(w) # 1
  <2> DEFINE t == Tail(w)
  <2>1. /\ t \in Seq(Value) /\ Len(t) = Len(w) - 1
        /\ \A i \in 1 .. Len(w) - 1 : t[i] = w[i + 1]
    BY HeadTailProperties
  <2> HIDE DEF t
  <2>2. Last(w) \in Value
    BY <1>1, ElementOfSeq DEF Last
  <2>3. Parameters(w).slots = Append(t, Last(w))
    BY <1>4 DEF Parameters, t
  <2>4. /\ Append(t, Last(w)) \in Seq(Value) /\ Len(Append(t, Last(w))) = Len(w)
        /\ \A i \in 1 .. Len(w) - 1 : Append(t, Last(w))[i] = t[i]
    BY <1>1, <2>1, <2>2, AppendProperties
  <2>5. \A i \in 1 .. Len(w) - 1 : i \in DOMAIN Append(t, Last(w))
    BY <1>1, <2>4, LenProperties
  <2> QED BY <1>2, <1>4, <2>1, <2>3, <2>4, <2>5 DEF Slot
<1> QED BY <1>3, <1>4

\* Which word is a key and which a text follows from the slots the length covers.
LEMMA OrderOfSlots ==
  ASSUME NEW w \in Seq(Value), Len(w) \in Nat, Len(w) >= 1, NEW params,
         params.length = Len(w) - 1,
         \A i \in 1 .. Len(w) - 1 : Slot(params, i) = w[i + 1],
         Len(w) = 1 => Slot(params, 1) \notin Subcommands
  PROVE  Order(params) = Meant(w)
<1> USE CommandsDiffer
<1>1. CASE Len(w) = 1
  BY <1>1 DEF Order, Warned, Meant, Subcommands
<1>2. CASE Len(w) = 2
  <2>1. Slot(params, 1) = w[2]
    BY <1>2
  <2> QED BY <1>2, <2>1 DEF Order, Warned, Meant
<1>3. CASE Len(w) = 3
  <2>1. Slot(params, 1) = w[2] /\ Slot(params, 2) = w[3]
    BY <1>3
  <2> QED BY <1>3, <2>1 DEF Order, Warned, Meant
<1>4. CASE Len(w) >= 4
  <2>1. Slot(params, 1) = w[2] /\ Slot(params, 2) = w[3] /\ Slot(params, 3) = w[4]
    BY <1>4
  <2>2. ~Warned(params)
    BY <1>4 DEF Warned
  <2> DEFINE word == Slot(params, 1)
             key == Slot(params, 2)
             text == Slot(params, 3)
  <2>3. /\ Len(w) >= 4 /\ Len(w) >= 3 /\ Len(w) >= 2
        /\ word = w[2] /\ key = w[3] /\ text = w[4]
    BY <1>4, <2>1
  <2>4. Order(params) =
          CASE word = set -> <<"set", key, text>>
            [] word = remove -> <<"remove", key>>
            [] word = write -> <<"write">>
            [] OTHER -> <<"none">>
    BY <2>2, Zenon DEF Order
  <2> HIDE DEF word, key, text
  <2>5. CASE word = set
    BY <2>3, <2>4, <2>5 DEF Meant
  <2>6. CASE word = remove
    BY <2>3, <2>4, <2>6 DEF Meant
  <2>7. CASE word = write
    BY <2>3, <2>4, <2>7 DEF Meant
  <2>8. CASE word \notin {set, remove, write}
    <3>1. Order(params) = <<"none">>
      BY <2>4, <2>8
    <3>2. Meant(w) = <<"none">>
      BY <2>3, <2>8 DEF Meant
    <3> QED BY <3>1, <3>2
  <2> QED BY <2>5, <2>6, <2>7, <2>8
<1>5. \A n \in Nat : n >= 1 => n = 1 \/ n = 2 \/ n = 3 \/ n >= 4
  OBVIOUS
<1>6. Len(w) = 1 \/ Len(w) = 2 \/ Len(w) = 3 \/ Len(w) >= 4
  BY <1>5, Zenon
<1> QED BY <1>1, <1>2, <1>3, <1>4, <1>6, Zenon

LEMMA OrderIsMeant ==
  ASSUME NEW w \in Seq(Value), w # <<>>, w[1] = config
  PROVE  Order(Parameters(w)) = Meant(w)
<1>1. Len(w) \in Nat /\ Len(w) >= 1
  BY LenProperties, EmptySeq
<1>2. Len(w) = 1 => Slot(Parameters(w), 1) \notin Subcommands
  BY SlotsOfLine, CommandsDiffer DEF Subcommands
<1> QED BY <1>1, <1>2, SlotsOfLine, OrderOfSlots

LEMMA MessageIsMeant ==
  ASSUME NEW w \in Seq(Value), w # <<>>
  PROVE  Order([slots |-> Tail(w), length |-> Len(w) - 1]) = Meant(w)
<1> DEFINE params == [slots |-> Tail(w), length |-> Len(w) - 1]
<1>1. Len(w) \in Nat /\ Len(w) >= 1
  BY LenProperties, EmptySeq
<1>2. /\ Tail(w) \in Seq(Value) /\ Len(Tail(w)) = Len(w) - 1
      /\ \A i \in 1 .. Len(w) - 1 : Tail(w)[i] = w[i + 1]
  BY HeadTailProperties
<1>3. DOMAIN Tail(w) = 1 .. Len(w) - 1
  BY <1>2, LenProperties
<1>4. \A i \in 1 .. Len(w) - 1 : Slot(params, i) = w[i + 1]
  BY <1>2, <1>3 DEF Slot
<1>5. Len(w) = 1 => Slot(params, 1) = Empty
  <2>1. Len(w) = 1 => 1 \notin DOMAIN Tail(w)
    BY <1>3
  <2> QED BY <2>1 DEF Slot
<1>6. Len(w) = 1 => Slot(params, 1) \notin Subcommands
  BY <1>5, CommandsDiffer DEF Subcommands
<1>7. params.length = Len(w) - 1
  OBVIOUS
<1> HIDE DEF params
<1>8. Order(params) = Meant(w)
  BY <1>1, <1>4, <1>6, <1>7, OrderOfSlots
<1> QED BY <1>8 DEF params

\* A command in words keeps the invariant.
LEMMA CommandKeeps ==
  ASSUME CInv, NEW c \in Contexts, Listening(c), NEW w \in Seq(Value), w # <<>>,
         NEW params, w[1] = config => Order(params) = Meant(w),
         DoCommand(c, w[1], params)
  PROVE  CInv'
<1>1. CASE w[1] # config
  BY <1>1, ConfigRests DEF DoCommand
<1>2. CASE w[1] = config
  <2> DEFINE o == Meant(w)
  <2>1. \/ o[1] = "set" /\ setValue(o[2], o[3])
        \/ o[1] = "remove" /\ removeValue(o[2])
        \/ o[1] = "write" /\ Write(c)
        \/ UNCHANGED configVars
    BY <1>2 DEF DoCommand, doCommand
  <2>2. o[1] = "set" => o[3] \in Value
    <3>1. Len(w) \in Nat /\ (Len(w) >= 4 => w[4] \in Value)
      BY LenProperties, ElementOfSeq
    <3> QED BY <3>1 DEF Meant
  <2>3. ~Writing(c) /\ opened = Nobody
    BY DEF Listening
  <2> QED BY <2>1, <2>2, <2>3, SetKeeps, RemoveKeeps, WriteKeeps, ConfigRests
<1> QED BY <1>1, <1>2

\* Completion makes a line of a line.
LEMMA CompletedIsLine ==
  ASSUME NEW l, IsLine(l), NEW garbage \in BOOLEAN
  PROVE  IsLine(Completed(l, garbage))
<1> DEFINE typed == Words(l)
           next == GetNextCommandArgs(typed, garbage)
           params == IF next.new THEN Append(typed, Empty) ELSE typed
           found == autoCompleteHelper(IF params = <<>> THEN Empty ELSE Last(params), next.args)
           added == CHOOSE w \in found : TRUE
           front == Front(params)
<1>1. typed \in Seq(Value)
  BY WordsOf
<1>2. next.args \subseteq Value
  BY WordAssumption DEF GetNextCommandArgs, ConfigArgs, Subcommands
<1>3. found \subseteq Value
  BY <1>2 DEF autoCompleteHelper
<1>4. front \in Seq(Value)
  <2>1. typed \in Seq(Word) /\ Empty \in Word /\ Len(typed) \in Nat
        /\ \A i \in 1 .. Len(typed) : typed[i] \in Value
    BY <1>1, LenProperties, ElementOfSeq, SeqDef DEF Word
  <2> HIDE DEF typed, next
  <2>2. CASE next.new
    <3>1. /\ params \in Seq(Word) /\ Len(params) = Len(typed) + 1
          /\ \A i \in 1 .. Len(typed) : params[i] = typed[i]
      BY <2>1, <2>2, AppendProperties
    <3> HIDE DEF params
    <3>2. \A i \in 1 .. Len(params) - 1 : params[i] \in Value
      BY <2>1, <3>1
    <3> QED BY <3>1, <3>2, FrontOf
  <2>3. CASE ~next.new
    <3>1. params = typed /\ \A i \in 1 .. Len(typed) - 1 : typed[i] \in Value
      BY <2>1, <2>3
    <3> QED BY <2>1, <3>1, FrontOf
  <2> QED BY <2>2, <2>3
<1>5. Completed(l, garbage) =
        IF Cardinality(found) = 1 THEN front \o <<added, Empty>> ELSE l
  BY DEF Completed
<1> HIDE DEF typed, next, params, found, front
<1>6. CASE Cardinality(found) = 1
  <2>1. found # {}
    BY <1>6, FS_EmptySet
  <2>2. added \in Value
    BY <1>3, <2>1
  <2> HIDE DEF added
  <2> DEFINE tail == <<added, Empty>>
             r == front \o tail
  <2>3. tail \in Seq(Word) /\ Len(tail) = 2 /\ tail[1] = added /\ tail[2] = Empty
    BY <2>2 DEF Word
  <2>4. front \in Seq(Word) /\ Len(front) \in Nat /\ \A i \in 1 .. Len(front) : front[i] \in Value
    BY <1>4, LenProperties, ElementOfSeq, SeqDef DEF Word
  <2> HIDE DEF tail
  <2>5. /\ r \in Seq(Word) /\ Len(r) = Len(front) + 2
        /\ \A i \in 1 .. Len(front) + 2 :
             r[i] = IF i <= Len(front) THEN front[i] ELSE tail[i - Len(front)]
    <3>1. /\ front \o tail \in Seq(Word)
          /\ Len(front \o tail) = Len(front) + Len(tail)
          /\ \A i \in 1 .. Len(front) + Len(tail) :
               (front \o tail)[i] = IF i <= Len(front) THEN front[i] ELSE tail[i - Len(front)]
      BY <2>3, <2>4, ConcatProperties
    <3> QED BY <2>3, <2>4, <3>1
  <2> HIDE DEF r
  <2>6. DOMAIN r = 1 .. Len(front) + 2
    BY <2>5, LenProperties
  <2>7. ASSUME NEW i \in 1 .. Len(front) + 2, r[i] = Empty
        PROVE  i = Len(r) /\ i > 1
    <3>1. i > Len(front)
      BY <2>4, <2>5, <2>7, WordAssumption
    <3>2. i # Len(front) + 1
      BY <2>2, <2>3, <2>4, <2>5, <2>7, WordAssumption
    <3> QED BY <2>4, <2>5, <3>1, <3>2
  <2>8. IsLine(r)
    BY <2>5, <2>6, <2>7 DEF IsLine
  <2> QED BY <1>5, <1>6, <2>8 DEF r, tail
<1>7. CASE Cardinality(found) # 1
  BY <1>5, <1>7
<1> QED BY <1>6, <1>7

----------------------------------------------------------------------------
(***************************************************************************)
(* The steps.                                                              *)
(***************************************************************************)

IInv == CInv /\ IsLine(line)

LEMMA EmptyLine == IsLine(<<>>)
<1>1. <<>> \in Seq(Word) /\ DOMAIN <<>> = {}
  BY EmptySeq
<1> QED BY <1>1 DEF IsLine

LEMMA Start == Init => IInv
BY ConfigStarts, EmptyLine DEF Init, IInv

LEMMA Inductive == IInv /\ [Next]_vars => IInv'
<1> SUFFICES ASSUME IInv, [Next]_vars PROVE IInv'
  OBVIOUS
<1> USE DEF IInv
<1>1. CASE Type
  BY <1>1, ConfigRests, WordAssumption DEF Type
<1>2. CASE Space
  BY <1>2, ConfigRests, WordAssumption DEF Space
<1>3. CASE Backspace
  BY <1>3, ConfigRests, WordAssumption DEF Backspace
<1>4. CASE Escape
  BY <1>4, ConfigRests, EmptyLine DEF Escape
<1>5. CASE Tab
  BY <1>5, ConfigRests, CompletedIsLine DEF Tab
<1>6. CASE Enter
  <2> DEFINE w == Words(line)
  <2>1. w \in Seq(Value)
    BY WordsOf
  <2>2. line' = <<>> /\ Listening(loop) /\ loop \in Contexts
    BY <1>6, WordAssumption DEF Enter
  <2>3. CASE w = <<>>
    BY <1>6, <2>2, <2>3, ConfigRests, EmptyLine DEF Enter
  <2>4. CASE w # <<>>
    <3>1. DoCommand(loop, w[1], Parameters(w))
      BY <1>6, <2>4 DEF Enter
    <3>2. w[1] = config => Order(Parameters(w)) = Meant(w)
      BY <2>1, <2>4, OrderIsMeant
    <3> QED BY <2>1, <2>2, <2>4, <3>1, <3>2, CommandKeeps, EmptyLine
  <2> QED BY <2>3, <2>4
<1>7. ASSUME NEW l \in Lines, onMessage(Words(l))
      PROVE  IInv'
  <2> DEFINE w == Words(l)
             params == [slots |-> Tail(w), length |-> Len(w) - 1]
  <2>1. w \in Seq(Value) /\ w # <<>> /\ line' = line
    BY <1>7, WordAssumption, WordsOf DEF onMessage
  <2>2. Listening(reader) /\ reader \in Contexts /\ DoCommand(reader, w[1], params)
    BY <1>7, WordAssumption DEF onMessage
  <2>3. Order(params) = Meant(w)
    BY <2>1, MessageIsMeant
  <2> HIDE DEF w, params
  <2> QED BY <2>1, <2>2, <2>3, CommandKeeps
<1>8. ASSUME NEW c \in Contexts, Opens(c) \/ Stores(c) \/ GivesUp(c), UNCHANGED line
      PROVE  IInv'
  BY <1>8, OpensKeeps, StoresKeeps, GivesUpKeeps
<1>9. CASE Interrupted
  BY <1>9, ResetKeeps, EmptyLine DEF Interrupted
<1>10. CASE UNCHANGED vars
  BY <1>10, ConfigRests DEF vars
<1> QED BY <1>1, <1>2, <1>3, <1>4, <1>5, <1>6, <1>7, <1>8, <1>9, <1>10 DEF Next

\* The types, for any paths, texts and lines.
THEOREM TypeCorrect == Spec => []TypeOK
<1>1. IInv => TypeOK
  BY DEF IInv, CInv, TypeOK
<1> QED BY <1>1, Start, Inductive, PTL DEF Spec

\* A path has keys below it only if it is an object, in memory, in the file and
\* in every snapshot (Config::setValue, Config::removeValue).
THEOREM StaysNested == Spec => []Nested
<1>1. IInv => Nested
  BY DEF IInv, CInv
<1> QED BY <1>1, Start, Inductive, PTL DEF Spec

\* get answers what the key was told last, unless memory was short
\* (Config::getValue).
THEOREM AnswersAsTold == Spec => []AsTold
<1>1. IInv => AsTold
  BY DEF IInv, CInv
<1> QED BY <1>1, Start, Inductive, PTL DEF Spec

\* A Write that nothing came across is in the file for the next boot
\* (Config::Write, Config::Read).
THEOREM WriteSurvives == Spec => []Survives
<1>1. IInv => Survives
  BY DEF IInv, CInv
<1> QED BY <1>1, Start, Inductive, PTL DEF Spec

\* What a config command does follows from the words before the end of its
\* vector, for lines of any length (ConfigCommand::doCommand, vector::erase).
THEOREM StaleWordsAreNotUsed == Spec => []OnlyWhatWasTyped
<1>1. IInv => OnlyWhatWasTyped
  <2> SUFFICES ASSUME IInv, Words(line) # <<>>, Words(line)[1] = config
               PROVE  Order(Parameters(Words(line))) = Meant(Words(line))
    BY DEF OnlyWhatWasTyped
  <2>1. Words(line) \in Seq(Value)
    BY WordsOf DEF IInv
  <2> QED BY <2>1, OrderIsMeant
<1> QED BY <1>1, Start, Inductive, PTL DEF Spec
----------------------------------------------------------------------------
(***************************************************************************)
(* Completion.                                                             *)
(***************************************************************************)

\* Sets of more than one word.
LEMMA Several ==
  ASSUME NEW S, IsFiniteSet(S), NEW x \in S, NEW y \in S, x # y
  PROVE  Cardinality(S) # 1
BY FS_Singleton

\* What is offered to a line that gets a new word is nothing, or several words;
\* the answers that leave new_word alone offer nothing.
LEMMA Offers ==
  ASSUME NEW typed \in Seq(Value), NEW garbage \in BOOLEAN
  PROVE  LET next == GetNextCommandArgs(typed, garbage)
             sure == GetNextCommandArgs(typed, TRUE)
         IN  /\ next.args \subseteq Value /\ IsFiniteSet(next.args)
             /\ next.args = sure.args
             /\ next.args # {} => next.new = sure.new
             /\ typed = <<>> => next.new
             /\ next.new => Cardinality(next.args) # 1
<1> DEFINE next == GetNextCommandArgs(typed, garbage)
           sure == GetNextCommandArgs(typed, TRUE)
           IsOffer(n) == /\ n.args \subseteq Value /\ IsFiniteSet(n.args)
                         /\ Cardinality(n.args) # 1
<1>1. /\ Subcommands \subseteq Value /\ IsFiniteSet(Subcommands)
      /\ Cardinality(Subcommands) # 1
  <2>1. IsFiniteSet({set, get, remove, write})
    <3>1. IsFiniteSet({set}) /\ IsFiniteSet({set} \cup {get})
      BY FS_Singleton, FS_AddElement
    <3>2. IsFiniteSet((({set} \cup {get}) \cup {remove}) \cup {write})
      BY <3>1, FS_AddElement
    <3>3. {set, get, remove, write} = (({set} \cup {get}) \cup {remove}) \cup {write}
      OBVIOUS
    <3> QED  BY <3>2, <3>3
  <2> QED  BY <2>1, Several, CommandsDiffer, WordAssumption DEF Subcommands
<1>2. /\ {ipcinfo, config} \subseteq Value /\ IsFiniteSet({ipcinfo, config})
      /\ Cardinality({ipcinfo, config}) # 1
  <2>1. IsFiniteSet({ipcinfo, config})
    <3>1. IsFiniteSet({ipcinfo} \cup {config})
      BY FS_Singleton, FS_AddElement
    <3>2. {ipcinfo, config} = {ipcinfo} \cup {config}
      OBVIOUS
    <3> QED  BY <3>1, <3>2
  <2> QED  BY <2>1, Several, WordAssumption
<1>3. Keys \subseteq Value /\ IsFiniteSet(Keys) /\ Cardinality(Keys) # 1
  BY CompletionAssumption, WordAssumption, Several
<1>4. {} \subseteq Value /\ IsFiniteSet({}) /\ Cardinality({}) # 1
  BY FS_EmptySet
<1>5. /\ next.args \in {Subcommands, Keys, {ipcinfo, config}, {}}
      /\ next.args = sure.args
      /\ next.args # {} => next.new = sure.new
      /\ typed = <<>> => next.new
  <2>1. CASE typed # <<>> /\ typed[1] = config
    <3> DEFINE params == Tail(typed)
               ForCommand == params = <<>> \/ (Len(params) = 1 /\ params[1] \notin Subcommands)
               ForKey == Len(params) \in {1, 2} /\ params[1] \in {set, get, remove}
               Offer(b) == CASE ForCommand -> [args |-> Subcommands, new |-> params = <<>>]
                             [] ForKey -> [args |-> Keys, new |-> Len(params) = 1]
                             [] OTHER -> [args |-> {}, new |-> b]
    <3>1. next = Offer(garbage) /\ sure = Offer(TRUE)
      BY <2>1, WordAssumption DEF GetNextCommandArgs, ConfigArgs
    <3>2. ForCommand => ~ForKey
      <4>1. params = <<>> => Len(params) = 0
        <5> HIDE DEF params
        <5> QED  BY EmptySeq
      <4> HIDE DEF params
      <4> QED  BY <4>1 DEF Subcommands
    <3>3. typed # <<>>
      BY <2>1
    <3> HIDE DEF ForCommand, ForKey, params, next, sure
    <3>4. CASE ForCommand
      BY <3>1, <3>2, <3>3, <3>4
    <3>5. CASE ForKey
      BY <3>1, <3>2, <3>3, <3>5
    <3>6. CASE ~ForCommand /\ ~ForKey
      BY <3>1, <3>3, <3>6
    <3> QED  BY <3>4, <3>5, <3>6
  <2>2. CASE typed # <<>> /\ typed[1] = ipcinfo
    BY <2>2, WordAssumption DEF GetNextCommandArgs
  <2>3. CASE ~ (typed # <<>> /\ typed[1] \in {config, ipcinfo})
    BY <2>3 DEF GetNextCommandArgs
  <2> QED  BY <2>1, <2>2, <2>3
<1> HIDE DEF next, sure
<1> QED  BY <1>1, <1>2, <1>3, <1>4, <1>5 DEF next, sure

\* A completed line is the words in front, the word found and a blank.
LEMMA WordsOfCompleted ==
  ASSUME NEW front \in Seq(Value), NEW w \in Value
  PROVE  Words(front \o <<w, Empty>>) = Append(front, w)
<1> DEFINE r == front \o <<w, Empty>>
           tail == <<w, Empty>>
<1>1. tail \in Seq(Word) /\ Len(tail) = 2 /\ tail[1] = w /\ tail[2] = Empty
  BY DEF Word
<1>2. front \in Seq(Word) /\ Len(front) \in Nat /\ DOMAIN front = 1 .. Len(front)
  BY LenProperties, ElementOfSeq, SeqDef DEF Word
<1>3. /\ r \in Seq(Word) /\ Len(r) = Len(front) + 2
      /\ \A i \in 1 .. Len(front) + 2 :
           r[i] = IF i <= Len(front) THEN front[i] ELSE tail[i - Len(front)]
  <2> HIDE DEF tail
  <2>1. /\ front \o tail \in Seq(Word)
        /\ Len(front \o tail) = Len(front) + Len(tail)
        /\ \A i \in 1 .. Len(front) + Len(tail) :
             (front \o tail)[i] = IF i <= Len(front) THEN front[i] ELSE tail[i - Len(front)]
    BY <1>1, <1>2, ConcatProperties
  <2> QED  BY <1>1, <2>1 DEF tail
<1> HIDE DEF r, tail
<1>4. r # <<>> /\ Last(r) = Empty
  <2>1. Len(front) + 2 \in 1 .. Len(front) + 2 /\ ~ (Len(front) + 2 <= Len(front))
        /\ Len(front) + 2 - Len(front) = 2 /\ Len(front) + 2 # 0
    BY <1>2
  <2>2. r[Len(front) + 2] = Empty
    BY <2>1, <1>1, <1>3
  <2> QED  BY <1>3, <2>1, <2>2, EmptySeq DEF Last
<1>5. Words(r) = SubSeq(r, 1, Len(front) + 1)
  <2>1. Len(r) - 1 = Len(front) + 1
    BY <1>2, <1>3
  <2> QED  BY <1>4, <2>1 DEF Words, Front
<1>6. \A i \in 1 .. Len(front) + 1 : r[i] \in Word /\ r[i] = IF i <= Len(front) THEN front[i] ELSE w
  <2> TAKE i \in 1 .. Len(front) + 1
  <2>1. i \in 1 .. Len(front) + 2 /\ (~ (i <= Len(front)) => i - Len(front) = 1)
    BY <1>2
  <2>2. r[i] = IF i <= Len(front) THEN front[i] ELSE tail[i - Len(front)]
    BY <1>3, <2>1
  <2>3. r[i] = IF i <= Len(front) THEN front[i] ELSE w
    BY <1>1, <2>1, <2>2
  <2>4. r[i] \in Word
    BY <1>3, <2>1, ElementOfSeq
  <2> QED  BY <2>3, <2>4
<1> DEFINE s == SubSeq(r, 1, Len(front) + 1)
<1>7. /\ s \in Seq(Word) /\ Len(s) = Len(front) + 1
      /\ \A i \in 1 .. Len(front) + 1 : s[i] = r[i]
  <2>1. /\ s \in Seq(Word)
        /\ Len(s) = IF 1 <= Len(front) + 1 THEN Len(front) + 1 - 1 + 1 ELSE 0
        /\ \A i \in 1 .. Len(front) + 1 - 1 + 1 : s[i] = r[1 + i - 1]
    <3> HIDE DEF s
    <3>1. 1 \in Int /\ Len(front) + 1 \in Int /\ \A i \in 1 .. Len(front) + 1 : r[i] \in Word
      BY <1>2, <1>6
    <3> QED  BY <3>1, SubSeqProperties DEF s
  <2> HIDE DEF s
  <2> QED  BY <2>1, <1>2
<1>8. /\ Append(front, w) \in Seq(Word) /\ Len(Append(front, w)) = Len(front) + 1
      /\ \A i \in 1 .. Len(front) : Append(front, w)[i] = front[i]
      /\ Append(front, w)[Len(front) + 1] = w
  <2>1. w \in Word
    BY DEF Word
  <2> QED  BY <1>2, <2>1, AppendProperties
<1> HIDE DEF s
<1>9. \A i \in 1 .. Len(front) + 1 : s[i] = Append(front, w)[i]
  <2> TAKE i \in 1 .. Len(front) + 1
  <2>1. i \in 1 .. Len(front) \/ i = Len(front) + 1
    BY <1>2
  <2>2. s[i] = IF i <= Len(front) THEN front[i] ELSE w
    BY <1>6, <1>7
  <2> QED  BY <2>1, <2>2, <1>2, <1>8
<1>10. s = Append(front, w)
  BY <1>7, <1>8, <1>9, SeqEqual
<1> QED  BY <1>5, <1>10 DEF r, s

\* Tab on any line: the words stay, or the last one grows to the one word it begins.
LEMMA TabKeeps ==
  ASSUME NEW l, IsLine(l), NEW garbage \in BOOLEAN
  PROVE  LET old == Words(l)
             new == Words(Completed(l, garbage))
         IN  /\ Completed(l, garbage) = Completed(l, TRUE)
             /\ \/ new = old
                \/ old # <<>> /\ \E w \in Value : new = Append(Front(old), w) /\ Starts(Last(old), w)
<1> DEFINE typed == Words(l)
           args == GetNextCommandArgs(typed, TRUE).args
           Offered(n) == IF n THEN Append(typed, Empty) ELSE typed
           Found(n, a) == autoCompleteHelper(IF Offered(n) = <<>> THEN Empty ELSE Last(Offered(n)), a)
           Then(n, a) == IF Cardinality(Found(n, a)) = 1
                         THEN Front(Offered(n)) \o <<CHOOSE w \in Found(n, a) : TRUE, Empty>> ELSE l
<1>1. typed \in Seq(Value)
  BY WordsOf
<1>2. ASSUME NEW b \in BOOLEAN
      PROVE  LET next == GetNextCommandArgs(typed, b)
             IN  /\ next.args = args /\ args \subseteq Value /\ IsFiniteSet(args)
                 /\ args # {} => next.new = GetNextCommandArgs(typed, TRUE).new
                 /\ typed = <<>> => next.new
                 /\ next.new => Cardinality(args) # 1
  <2> HIDE DEF typed
  <2> QED  BY <1>1, Offers
<1>3. ASSUME NEW b \in BOOLEAN
      PROVE  Completed(l, b) = Then(GetNextCommandArgs(typed, b).new, args)
  <2> DEFINE next == GetNextCommandArgs(typed, b)
  <2>1. Completed(l, b) = Then(next.new, next.args)
    BY DEF Completed
  <2>2. next.args = args
    BY <1>2
  <2> HIDE DEF Then, next, args
  <2> QED  BY <2>1, <2>2 DEF next
<1>4. ASSUME args = {}, NEW n
      PROVE  Then(n, args) = l
  <2> HIDE DEF Offered, args
  <2>1. Found(n, args) = {}
    BY <1>4 DEF autoCompleteHelper
  <2> HIDE DEF Found
  <2> QED  BY <2>1, FS_EmptySet
<1>5. ASSUME NEW n, n, Cardinality(args) # 1
      PROVE  Then(n, args) = l
  <2> HIDE DEF typed, args
  <2>1. /\ Append(typed, Empty) # <<>> /\ Last(Append(typed, Empty)) = Empty
    <3>1. typed \in Seq(Word) /\ Empty \in Word /\ Len(typed) \in Nat
      BY <1>1, LenProperties, ElementOfSeq, SeqDef DEF Word
    <3>2. /\ Append(typed, Empty) \in Seq(Word) /\ Len(Append(typed, Empty)) = Len(typed) + 1
          /\ Append(typed, Empty)[Len(typed) + 1] = Empty
      BY <3>1, AppendProperties
    <3>3. Len(typed) + 1 # 0
      BY <3>1
    <3> QED  BY <3>2, <3>3, EmptySeq DEF Last
  <2>2. Found(n, args) = args
    <3>1. \A w \in args : Starts(Empty, w)
      BY <1>2, CompletionAssumption DEF Starts
    <3> QED  BY <1>5, <2>1, <3>1 DEF autoCompleteHelper
  <2> QED  BY <1>5, <2>2
<1> DEFINE sure == GetNextCommandArgs(typed, TRUE).new
           new == GetNextCommandArgs(typed, garbage).new
<1>6. Completed(l, garbage) = Completed(l, TRUE)
  <2>1. /\ Completed(l, garbage) = Then(new, args)
        /\ Completed(l, TRUE) = Then(sure, args)
    BY <1>3
  <2>2. args # {} => new = sure
    BY <1>2
  <2> HIDE DEF Then, args, new, sure
  <2> QED  BY <1>4, <2>1, <2>2
<1>7. CASE new \/ args = {}
  <2>1. Completed(l, garbage) = l
    <3> HIDE DEF Then, args, typed
    <3> QED  BY <1>2, <1>3, <1>4, <1>5, <1>7
  <2> QED  BY <1>6, <2>1
<1>8. CASE ~new /\ args # {}
  <2>1. typed # <<>> /\ Completed(l, garbage) = Then(new, args)
    BY <1>2, <1>3, <1>8
  <2>2. Offered(new) = typed
    BY <1>8
  <2> DEFINE found == autoCompleteHelper(Last(typed), args)
  <2>3. Completed(l, garbage) =
          IF Cardinality(found) = 1 THEN Front(typed) \o <<CHOOSE w \in found : TRUE, Empty>> ELSE l
    <3> HIDE DEF typed, args, new
    <3> QED  BY <2>1, <2>2
  <2>4. CASE Cardinality(found) = 1
    <3>1. found # {} /\ found \subseteq Value /\ \A w \in found : Starts(Last(typed), w)
      <4>1. found \subseteq args /\ \A w \in found : Starts(Last(typed), w)
        BY DEF autoCompleteHelper
      <4>2. found # {}
        <5> HIDE DEF found
        <5> QED  BY <2>4, FS_EmptySet
      <4> QED  BY <1>2, <4>1, <4>2
    <3> DEFINE w == CHOOSE w \in found : TRUE
    <3>2. w \in found
      <4> HIDE DEF found
      <4> QED  BY <3>1
    <3> HIDE DEF w, found
    <3>3. Front(typed) \in Seq(Value)
      <4> HIDE DEF typed
      <4>1. typed \in Seq(Word) /\ Len(typed) \in Nat /\ \A i \in 1 .. Len(typed) : typed[i] \in Value
        BY <1>1, LenProperties, ElementOfSeq, SeqDef DEF Word
      <4>2. \A i \in 1 .. Len(typed) - 1 : typed[i] \in Value
        BY <4>1
      <4> QED  BY <4>1, <4>2, FrontOf
    <3>4. Words(Front(typed) \o <<w, Empty>>) = Append(Front(typed), w)
      <4> HIDE DEF typed
      <4> QED  BY <3>1, <3>2, <3>3, WordsOfCompleted
    <3>5. Completed(l, garbage) = Front(typed) \o <<w, Empty>>
      BY <2>3, <2>4 DEF w
    <3> QED  BY <1>6, <2>1, <3>1, <3>2, <3>4, <3>5
  <2>5. CASE Cardinality(found) # 1
    BY <1>6, <2>3, <2>5
  <2> QED  BY <2>4, <2>5
<1> QED  BY <1>7, <1>8

\* Completion loses no word of the line, and new_word, which Read does not
\* initialise, makes no difference (Console::Read, GetNextCommandArgs).
THEOREM TabLosesNothing == Spec => []TabExtends
<1>1. IInv => TabExtends
  <2> SUFFICES ASSUME IInv PROVE TabExtends
    OBVIOUS
  <2>1. IsLine(line)
    BY DEF IInv
  <2> QED  BY <2>1, TabKeeps DEF TabExtends
<1> QED  BY <1>1, Start, Inductive, PTL DEF Spec
=============================================================================
