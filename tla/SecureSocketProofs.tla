------------------------- MODULE SecureSocketProofs -------------------------
(***************************************************************************)
(* The secure socket, for every cipher block, buffer, stream of blocks and *)
(* way the bytes come in: it stays in step with the peer, what Recv hands  *)
(* over is a ByteStream, and the peer reads what was given to Send.        *)
(*                                                                         *)
(* IInv ties what Recv has kept to its place in the peer's stream: Aligned *)
(* says at which block each step stands, Kept that the bytes kept are the  *)
(* text that comes next.  Before and Decoded are recursive; that they      *)
(* exist, and what holds of all their places, is shown by a least          *)
(* counterexample (LeastNat).                                              *)
(***************************************************************************)
EXTENDS SecureSocket, SequenceLemmas, TLAPS

----------------------------------------------------------------------------
(***************************************************************************)
(* Padding.                                                                *)
(***************************************************************************)
LEMMA DivModFacts ==
  ASSUME NEW n \in Nat, NEW b \in Nat \ {0}
  PROVE  /\ n \div b \in Nat /\ n % b \in 0 .. b - 1
         /\ n = (n \div b) * b + (n % b)
OBVIOUS

LEMMA Product ==
  ASSUME NEW q \in Int, NEW p \in Int, NEW b \in Nat \ {0}, q < p
  PROVE  q * b + b <= p * b
<1>1. PICK d \in Nat : p = q + 1 + d
  <2>1. p - q - 1 \in Nat
    OBVIOUS
  <2> QED  BY <2>1
<1>2. p * b = q * b + b + d * b /\ d * b \in Nat
  BY <1>1
<1> QED BY <1>2

LEMMA DivIs ==
  ASSUME NEW q \in Nat, NEW b \in Nat \ {0}, NEW r \in 0 .. b - 1
  PROVE  (q * b + r) \div b = q
<1> DEFINE p == (q * b + r) \div b
           s == (q * b + r) % b
<1>1. q * b \in Nat /\ p * b \in Int
  OBVIOUS
<1>2. p \in Nat /\ s \in 0 .. b - 1 /\ q * b + r = p * b + s
  <2>1. q * b + r \in Nat
    <3>1. \A x \in Nat : x + r \in Nat
      OBVIOUS
    <3>2. q * b \in Nat
      OBVIOUS
    <3> QED  BY <3>1, <3>2
  <2> QED  BY <2>1, DivModFacts
<1>3. ~ (p < q)
  <2> SUFFICES ASSUME p < q PROVE FALSE
    OBVIOUS
  <2>1. p * b + b <= q * b
    BY Product, <1>2
  <2> QED  BY <2>1, <1>1, <1>2
<1>4. ~ (q < p)
  <2> SUFFICES ASSUME q < p PROVE FALSE
    OBVIOUS
  <2>1. q * b + b <= p * b
    BY Product, <1>2
  <2> QED  BY <2>1, <1>1, <1>2
<1> QED  BY <1>2, <1>3, <1>4

\* GetEncriptedDataLen is rounding up to whole cipher blocks.
LEMMA PaddedIs ==
  ASSUME NEW n \in Nat
  PROVE  /\ ((n + BLOCK - 1) \div BLOCK) * BLOCK = Padded(n)
         /\ Padded(n) \in Nat /\ n <= Padded(n)
<1> DEFINE q == n \div BLOCK
           r == n % BLOCK
<1>1. q \in Nat /\ r \in 0 .. BLOCK - 1 /\ n = q * BLOCK + r /\ BLOCK \in Nat \ {0}
  BY DivModFacts, UnitAssumption
<1> HIDE DEF q, r
<1>2. q * BLOCK \in Nat /\ (q + 1) * BLOCK = q * BLOCK + BLOCK
  BY <1>1
<1>3. CASE r = 0
  <2>1. n + BLOCK - 1 = q * BLOCK + (BLOCK - 1) /\ BLOCK - 1 \in 0 .. BLOCK - 1
    BY <1>1, <1>2, <1>3
  <2>2. (n + BLOCK - 1) \div BLOCK = q
    BY <2>1, <1>1, DivIs
  <2>3. Padded(n) = n
    BY <1>3 DEF Padded, r
  <2> QED  BY <2>2, <2>3, <1>1, <1>2, <1>3
<1>4. CASE r # 0
  <2>1. n + BLOCK - 1 = (q + 1) * BLOCK + (r - 1) /\ r - 1 \in 0 .. BLOCK - 1
    BY <1>1, <1>2, <1>4
  <2>2. (n + BLOCK - 1) \div BLOCK = q + 1
    BY <2>1, <1>1, DivIs
  <2>3. Padded(n) = (q + 1) * BLOCK
    BY <1>4 DEF Padded, r, q
  <2> QED  BY <2>2, <2>3, <1>1, <1>2
<1> QED  BY <1>3, <1>4
----------------------------------------------------------------------------
(***************************************************************************)
(* The blocks of the peer's stream lie behind each other.                  *)
(***************************************************************************)
\* Before is the function its equation defines.
LEMMA BeforeDefined ==
  Before = [k \in 1 .. BLOCKS + 1 |->
              IF k = 1 THEN HANDSHAKE
              ELSE Before[k - 1] + 1 + ((lens[k - 1] + BLOCK - 1) \div BLOCK) * BLOCK]
<1> DEFINE Step(x, k) == x + 1 + ((lens[k - 1] + BLOCK - 1) \div BLOCK) * BLOCK
           Is(f, n) == f = [k \in 1 .. n |-> IF k = 1 THEN HANDSHAKE ELSE Step(f[k - 1], k)]
           T == {n \in Nat : ~ \E f : Is(f, n + 1)}
<1>1. BLOCKS \in Nat /\ Before = CHOOSE f : Is(f, BLOCKS + 1)
  BY BoundAssumption DEF Before
<1> HIDE DEF Step
<1>2. ASSUME T # {}
      PROVE  FALSE
  <2>1. PICK n \in T : \A m \in T : n <= m
    <3> HIDE DEF T
    <3>1. T \in SUBSET Nat
      BY DEF T
    <3> QED  BY <1>2, <3>1, LeastNat
  <2>2. n # 0
    <3> DEFINE e == [k \in 1 .. 1 |-> HANDSHAKE]
    <3>1. Is(e, 0 + 1)
      OBVIOUS
    <3> QED  BY <3>1, <2>1
  <2>3. n \in Nat /\ n - 1 \in Nat /\ n - 1 \notin T /\ n - 1 + 1 = n
    <3>1. n \in Nat /\ n - 1 \in Nat /\ n - 1 + 1 = n /\ ~ (n <= n - 1)
      <4>1. n \in Nat
        BY <2>1
      <4> QED  BY <4>1, <2>2
    <3>2. n - 1 \notin T
      <4> HIDE DEF T
      <4> QED  BY <2>1, <3>1
    <3> QED  BY <3>1, <3>2
  <2>4. PICK f : Is(f, n)
    BY <2>3
  <2> DEFINE g == [k \in 1 .. n + 1 |-> IF k = 1 THEN HANDSHAKE ELSE Step(f[k - 1], k)]
  <2>5. \A k \in 1 .. n : g[k] = f[k]
    BY <2>3, <2>4
  <2>6. ASSUME NEW k \in 1 .. n + 1, k # 1
        PROVE  g[k - 1] = f[k - 1]
    <3>1. k - 1 \in 1 .. n
      BY <2>3, <2>6
    <3> QED  BY <3>1, <2>5
  <2>7. Is(g, n + 1)
    BY <2>6
  <2> QED  BY <2>7, <2>1
<1>3. \E f : Is(f, BLOCKS + 1)
  BY <1>1, <1>2
<1>4. Is(Before, BLOCKS + 1)
  <2> HIDE DEF Is
  <2> QED  BY <1>1, <1>3
<1> QED  BY <1>4 DEF Step

\* Where the blocks begin.
LEMMA BeforeFacts ==
  ASSUME lens \in [1 .. BLOCKS -> Nat]
  PROVE  /\ Before[1] = HANDSHAKE
         /\ \A k \in 1 .. BLOCKS + 1 : Before[k] \in Nat
         /\ \A k \in 1 .. BLOCKS : Before[k + 1] = Before[k] + 1 + Padded(lens[k])
<1>1. BLOCKS \in Nat
  BY BoundAssumption
<1>2. Before[1] = HANDSHAKE
  BY <1>1, BeforeDefined
<1>3. ASSUME NEW k \in 1 .. BLOCKS
      PROVE  Before[k + 1] = Before[k] + 1 + Padded(lens[k])
  <2>1. k + 1 \in 1 .. BLOCKS + 1 /\ k + 1 # 1 /\ k + 1 - 1 = k
    BY <1>1
  <2>2. Before[k + 1] = Before[k] + 1 + ((lens[k] + BLOCK - 1) \div BLOCK) * BLOCK
    <3>1. \A i \in 1 .. BLOCKS + 1 : i # 1 =>
            Before[i] = Before[i - 1] + 1 + ((lens[i - 1] + BLOCK - 1) \div BLOCK) * BLOCK
      BY BeforeDefined, Zenon
    <3> QED  BY <2>1, <3>1
  <2>3. ((lens[k] + BLOCK - 1) \div BLOCK) * BLOCK = Padded(lens[k])
    BY PaddedIs
  <2> QED  BY <2>2, <2>3
<1>4. \A k \in 1 .. BLOCKS + 1 : Before[k] \in Nat
  <2> DEFINE T == {k \in 1 .. BLOCKS + 1 : Before[k] \notin Nat}
  <2>1. SUFFICES ASSUME T # {}
                 PROVE  FALSE
    OBVIOUS
  <2>2. T \in SUBSET Nat
    BY <1>1
  <2>3. PICK k \in T : \A m \in T : k <= m
    <3> HIDE DEF T
    <3> QED  BY <2>1, <2>2, LeastNat
  <2>4. k \in 1 .. BLOCKS + 1 /\ k # 1
    BY <2>3, <1>2 DEF HANDSHAKE
  <2>5. k - 1 \in 1 .. BLOCKS /\ k - 1 \in 1 .. BLOCKS + 1 /\ k - 1 + 1 = k /\ ~ (k <= k - 1)
    BY <2>4, <1>1
  <2>6. Before[k - 1] \in Nat
    <3>1. k - 1 \notin T
      <4> HIDE DEF T
      <4> QED  BY <2>3, <2>5
    <3> QED  BY <3>1, <2>5
  <2>7. Before[k] = Before[k - 1] + 1 + Padded(lens[k - 1])
    BY <1>3, <2>5
  <2>8. Padded(lens[k - 1]) \in Nat
    BY PaddedIs, <2>5
  <2>9. Before[k] \in Nat
    BY <2>6, <2>7, <2>8
  <2> QED  BY <2>3, <2>9
<1> QED  BY <1>2, <1>3, <1>4

\* Blocks lie behind each other.
LEMMA BeforeGrows ==
  ASSUME lens \in [1 .. BLOCKS -> Nat],
         NEW j \in 1 .. BLOCKS, NEW k \in 1 .. BLOCKS + 1, j < k
  PROVE  Before[j] < Before[j + 1] /\ Before[j + 1] <= Before[k]
<1>1. BLOCKS \in Nat
  BY BoundAssumption
<1>2. \A i \in 1 .. BLOCKS : /\ i \in 1 .. BLOCKS + 1 /\ i + 1 \in 1 .. BLOCKS + 1
                             /\ Before[i] \in Nat /\ Before[i + 1] \in Nat
                             /\ Before[i] < Before[i + 1]
  <2> TAKE i \in 1 .. BLOCKS
  <2>1. i \in 1 .. BLOCKS + 1 /\ i + 1 \in 1 .. BLOCKS + 1
    BY <1>1
  <2>2. Before[i] \in Nat /\ Padded(lens[i]) \in Nat
        /\ Before[i + 1] = Before[i] + 1 + Padded(lens[i])
    BY <2>1, BeforeFacts, PaddedIs
  <2> QED  BY <2>1, <2>2
<1>3. \A i \in 1 .. BLOCKS + 1 : j < i => Before[j + 1] <= Before[i]
  <2> DEFINE T == {i \in 1 .. BLOCKS + 1 : j < i /\ ~ (Before[j + 1] <= Before[i])}
  <2>1. SUFFICES ASSUME T # {}
                 PROVE  FALSE
    OBVIOUS
  <2>2. T \in SUBSET Nat
    BY <1>1
  <2>3. PICK i \in T : \A m \in T : i <= m
    <3> HIDE DEF T
    <3> QED  BY <2>1, <2>2, LeastNat
  <2>4. i \in 1 .. BLOCKS + 1 /\ j < i /\ i # j + 1
    BY <2>3, <1>2
  <2>5. i - 1 \in 1 .. BLOCKS /\ j < i - 1 /\ i - 1 + 1 = i /\ ~ (i <= i - 1)
    BY <2>4, <1>1
  <2>6. Before[j + 1] <= Before[i - 1]
    <3>1. i - 1 \notin T
      <4> HIDE DEF T
      <4> QED  BY <2>3, <2>5
    <3> QED  BY <3>1, <2>5, <1>2
  <2>7. Before[j + 1] \in Nat /\ Before[i - 1] \in Nat /\ Before[i] \in Nat
        /\ Before[i - 1] < Before[i]
    <3>1. Before[i - 1] < Before[i - 1 + 1] /\ Before[i - 1] \in Nat /\ Before[i - 1 + 1] \in Nat
      BY <1>2, <2>5
    <3> QED  BY <3>1, <1>2, <2>5
  <2>8. Before[j + 1] <= Before[i]
    BY <2>6, <2>7
  <2> QED  BY <2>3, <2>8
<1> QED  BY <1>2, <1>3

\* Nothing but block k lies between its place and the next block's.
LEMMA OwnPlaces ==
  ASSUME lens \in [1 .. BLOCKS -> Nat],
         NEW k \in 1 .. BLOCKS, NEW p \in Before[k] + 1 .. Before[k + 1],
         NEW j \in 1 .. BLOCKS, p \in Before[j] + 1 .. Before[j + 1]
  PROVE  j = k
<1>1. /\ BLOCKS \in Nat /\ p \in Int
      /\ j + 1 \in 1 .. BLOCKS + 1 /\ k + 1 \in 1 .. BLOCKS + 1
      /\ j \in 1 .. BLOCKS + 1 /\ k \in 1 .. BLOCKS + 1
  BY BoundAssumption
<1>2. /\ Before[j] \in Nat /\ Before[j + 1] \in Nat
      /\ Before[k] \in Nat /\ Before[k + 1] \in Nat
  BY <1>1, BeforeFacts
<1>3. j < k => Before[j + 1] <= Before[k]
  BY <1>1, BeforeGrows
<1>4. k < j => Before[k + 1] <= Before[j]
  BY <1>1, BeforeGrows
<1>5. ~ (j < k) /\ ~ (k < j)
  BY <1>2, <1>3, <1>4
<1> QED  BY <1>5

LEMMA BlockPlaces ==
  ASSUME lens \in [1 .. BLOCKS -> Nat], NEW k \in 1 .. BLOCKS
  PROVE  /\ Before[k] \in Nat /\ Before[k + 1] \in Nat /\ lens[k] \in Nat
         /\ Padded(lens[k]) \in Nat /\ lens[k] <= Padded(lens[k])
         /\ Before[k + 1] = Before[k] + 1 + Padded(lens[k])
         /\ Before[k] + 1 \in Before[k] + 1 .. Before[k + 1]
         /\ \A p : p - Before[k] - 1 \in 1 .. lens[k] /\ p \in Int => p \in Before[k] + 1 .. Before[k + 1]
<1>1. k \in 1 .. BLOCKS + 1 /\ k + 1 \in 1 .. BLOCKS + 1
  BY BoundAssumption
<1>2. /\ Before[k] \in Nat /\ Before[k + 1] \in Nat /\ lens[k] \in Nat
      /\ Padded(lens[k]) \in Nat /\ lens[k] <= Padded(lens[k])
      /\ Before[k + 1] = Before[k] + 1 + Padded(lens[k])
  BY <1>1, BeforeFacts, PaddedIs
<1>3. ASSUME NEW b \in Nat, NEW c \in Nat, NEW n \in Nat, NEW m \in Nat,
             n <= m, c = b + 1 + m
      PROVE  b + 1 \in b + 1 .. c /\ \A p \in Int : p - b - 1 \in 1 .. n => p \in b + 1 .. c
  BY <1>3
<1> QED  BY <1>2, <1>3

LEMMA TextWhere ==
  ASSUME lens \in [1 .. BLOCKS -> Nat], NEW k \in 1 .. BLOCKS,
         NEW p \in Before[k] + 1 .. Before[k + 1]
  PROVE  IsText(p) <=> p - Before[k] - 1 \in 1 .. lens[k]
<1>1. p \in Int
  BY BlockPlaces
<1>2. ASSUME NEW j \in 1 .. BLOCKS, p - Before[j] - 1 \in 1 .. lens[j]
      PROVE  j = k
  <2>1. p \in Before[j] + 1 .. Before[j + 1]
    BY <1>1, <1>2, BlockPlaces
  <2> QED  BY <2>1, OwnPlaces
<1> QED  BY <1>2 DEF IsText

LEMMA HeaderWhere ==
  ASSUME lens \in [1 .. BLOCKS -> Nat], NEW k \in 1 .. BLOCKS
  PROVE  IsHeader(Before[k] + 1) /\ Announced(Before[k] + 1) = lens[k]
<1>1. IsHeader(Before[k] + 1)
  BY DEF IsHeader
<1>2. ASSUME NEW j \in 1 .. BLOCKS, Before[k] + 1 = Before[j] + 1
      PROVE  j = k
  <2>1. Before[k] + 1 \in Before[k] + 1 .. Before[k + 1]
        /\ Before[k] + 1 \in Before[j] + 1 .. Before[j + 1]
    BY <1>2, BlockPlaces
  <2> QED  BY <2>1, OwnPlaces
<1>3. (CHOOSE j \in 1 .. BLOCKS : Before[k] + 1 = Before[j] + 1) = k
  BY <1>2
<1> QED  BY <1>1, <1>3 DEF Announced

\* The handshake is no text, and text lies within the stream.
LEMMA NoTextBefore ==
  ASSUME lens \in [1 .. BLOCKS -> Nat], NEW p \in Int, IsText(p)
  PROVE  \E j \in 1 .. BLOCKS : p \in Before[j] + 1 .. Before[j + 1]
                                /\ p - Before[j] - 1 \in 1 .. lens[j]
BY BlockPlaces DEF IsText

LEMMA BeforeOrder ==
  ASSUME lens \in [1 .. BLOCKS -> Nat],
         NEW j \in 1 .. BLOCKS + 1, NEW k \in 1 .. BLOCKS + 1, j <= k
  PROVE  /\ Before[j] \in Nat /\ Before[k] \in Nat /\ Before[j] <= Before[k]
         /\ HANDSHAKE <= Before[j] /\ Before[k] <= WireLength
<1>1. ASSUME NEW i \in 1 .. BLOCKS + 1, NEW l \in 1 .. BLOCKS + 1, i <= l
      PROVE  Before[i] \in Nat /\ Before[l] \in Nat /\ Before[i] <= Before[l]
  <2>1. Before[i] \in Nat /\ Before[l] \in Nat
    BY BeforeFacts
  <2>2. CASE i = l
    BY <2>1, <2>2
  <2>3. CASE i < l
    <3>1. i \in 1 .. BLOCKS /\ i + 1 \in 1 .. BLOCKS + 1
      BY <2>3, BoundAssumption
    <3>2. Before[i] < Before[i + 1] /\ Before[i + 1] <= Before[l] /\ Before[i + 1] \in Nat
      BY <3>1, <2>3, BeforeGrows, BeforeFacts
    <3> QED  BY <3>2, <2>1
  <2> QED  BY <2>2, <2>3, <1>1
<1>2. 1 \in 1 .. BLOCKS + 1 /\ BLOCKS + 1 \in 1 .. BLOCKS + 1
      /\ 1 <= j /\ k <= BLOCKS + 1
  BY BoundAssumption
<1>3. Before[1] <= Before[j] /\ Before[k] <= Before[BLOCKS + 1] /\ Before[j] <= Before[k]
      /\ Before[j] \in Nat /\ Before[k] \in Nat
  BY <1>1, <1>2
<1> QED  BY <1>3, BeforeFacts DEF WireLength
----------------------------------------------------------------------------
(***************************************************************************)
(* Counting text.                                                          *)
(***************************************************************************)
\* No more text than places.
LEMMA TextIsCounted ==
  ASSUME NEW P, IsFiniteSet(P)
  PROVE  Text(P) \in Nat /\ Text(P) <= Cardinality(P)
<1>1. {p \in P : IsText(p)} \in SUBSET P
  OBVIOUS
<1> QED  BY <1>1, FS_Subset, FS_CardinalityType DEF Text

LEMMA TextGrows ==
  ASSUME NEW P, NEW Q, IsFiniteSet(Q), P \subseteq Q
  PROVE  Text(P) <= Text(Q)
<1> DEFINE TP == {p \in P : IsText(p)}
           TQ == {p \in Q : IsText(p)}
<1>1. TQ \in SUBSET Q /\ TP \in SUBSET TQ
  OBVIOUS
<1>2. IsFiniteSet(TQ)
  <2> HIDE DEF TP, TQ
  <2> QED  BY <1>1, FS_Subset
<1>3. Cardinality(TP) <= Cardinality(TQ)
  <2> HIDE DEF TP, TQ
  <2> QED  BY <1>1, <1>2, FS_Subset
<1> QED  BY <1>3 DEF Text

\* The text of a block is counted as it is passed.
LEMMA TextInBlock ==
  ASSUME lens \in [1 .. BLOCKS -> Nat], NEW k \in 1 .. BLOCKS, NEW m \in 0 .. Padded(lens[k])
  PROVE  /\ Text(1 .. Before[k]) \in Nat
         /\ Text(1 .. Before[k] + 1 + m)
              = Text(1 .. Before[k]) + (IF m <= lens[k] THEN m ELSE lens[k])
<1> DEFINE b == Before[k]
           n == lens[k]
           i == IF m <= n THEN m ELSE n
           T0 == {p \in 1 .. b : IsText(p)}
           T1 == {p \in 1 .. b + 1 + m : IsText(p)}
           D == b + 2 .. b + 1 + i
<1>1. b \in Nat /\ n \in Nat /\ m \in Nat /\ i \in 0 .. m /\ i <= n
      /\ Before[k + 1] = b + 1 + Padded(n) /\ Padded(n) \in Nat /\ m <= Padded(n)
  BY BlockPlaces
<1>2. \A p \in b + 1 .. b + 1 + m : IsText(p) <=> p \in D
  <2> TAKE p \in b + 1 .. b + 1 + m
  <2>1. p \in b + 1 .. Before[k + 1]
    BY <1>1
  <2>2. IsText(p) <=> p - b - 1 \in 1 .. n
    BY <2>1, TextWhere
  <2>3. p - b - 1 \in 1 .. n <=> p \in D
    <3> HIDE DEF b, n
    <3> QED  BY <1>1
  <2> QED  BY <2>2, <2>3
<1>3. T1 = T0 \cup D
  <2>1. \A p \in Int : p \in 1 .. b + 1 + m <=> p \in 1 .. b \/ p \in b + 1 .. b + 1 + m
    <3> HIDE DEF b
    <3> QED  BY <1>1
  <2>2. \A p \in D : p \in b + 1 .. b + 1 + m /\ p \in Int
    <3> HIDE DEF b, n
    <3> QED  BY <1>1
  <2> QED  BY <1>2, <2>1, <2>2
<1>4. T0 \cap D = {}
  <2>1. \A p : ~ (p \in 1 .. b /\ p \in D)
    <3> HIDE DEF b, n, i
    <3> QED  BY <1>1
  <2> QED  BY <2>1
<1>5. IsFiniteSet(T0) /\ IsFiniteSet(D) /\ Cardinality(D) = i
  <2>1. IsFiniteSet(1 .. b) /\ T0 \in SUBSET (1 .. b)
    <3>1. IsFiniteSet(1 .. b)
      <4> HIDE DEF b
      <4> QED  BY <1>1, FS_Interval
    <3> QED  BY <3>1
  <2>2. IsFiniteSet(T0)
    <3> HIDE DEF T0
    <3> QED  BY <2>1, FS_Subset
  <2>3. b + 2 \in Int /\ b + 1 + i \in Int /\ i = (IF b + 2 > b + 1 + i THEN 0 ELSE (b + 1 + i) - (b + 2) + 1)
    <3> HIDE DEF b, i
    <3> QED  BY <1>1
  <2>4. IsFiniteSet(D) /\ Cardinality(D) = i
    <3> HIDE DEF b, i
    <3> QED  BY <2>3, FS_Interval
  <2> QED  BY <2>2, <2>4
<1>6. Cardinality(T1) = Cardinality(T0) + i /\ Cardinality(T0) \in Nat
  <2> HIDE DEF T0, T1, D
  <2>1. Cardinality(T0 \cup D) = Cardinality(T0) + Cardinality(D) - Cardinality(T0 \cap D)
    BY <1>5, FS_Union
  <2>2. Cardinality(T0) \in Nat /\ Cardinality(T0 \cap D) = 0
    BY <1>4, <1>5, FS_CardinalityType, FS_EmptySet
  <2>3. i \in Nat
    BY <1>1
  <2> QED  BY <1>3, <1>5, <2>1, <2>2, <2>3
<1> QED  BY <1>6 DEF Text

\* The text before a block, in bytes.
LEMMA TextBefore ==
  ASSUME lens \in [1 .. BLOCKS -> Nat]
  PROVE  /\ \A k \in 1 .. BLOCKS + 1 : Text(1 .. Before[k]) \in Nat
         /\ \A k \in 1 .. BLOCKS : Text(1 .. Before[k + 1]) = Text(1 .. Before[k]) + lens[k]
         /\ Text(1 .. Before[1]) = 0
<1>1. \A k \in 1 .. BLOCKS + 1 : Text(1 .. Before[k]) \in Nat
  <2>1. \A b \in Nat : IsFiniteSet(1 .. b)
    BY FS_Interval
  <2> QED  BY <2>1, BeforeFacts, TextIsCounted
<1>2. ASSUME NEW k \in 1 .. BLOCKS
      PROVE  Text(1 .. Before[k + 1]) = Text(1 .. Before[k]) + lens[k]
  <2>1. Padded(lens[k]) \in 0 .. Padded(lens[k]) /\ Before[k + 1] = Before[k] + 1 + Padded(lens[k])
        /\ lens[k] <= Padded(lens[k]) /\ lens[k] \in Nat /\ Padded(lens[k]) \in Nat
    BY BlockPlaces
  <2>2. Text(1 .. Before[k] + 1 + Padded(lens[k]))
          = Text(1 .. Before[k]) + (IF Padded(lens[k]) <= lens[k] THEN Padded(lens[k]) ELSE lens[k])
    BY <2>1, TextInBlock
  <2> QED  BY <2>1, <2>2
<1>3. Text(1 .. Before[1]) = 0
  <2>1. ASSUME NEW p \in 1 .. Before[1]
        PROVE  ~ IsText(p)
    <3>1. p \in Int /\ p <= HANDSHAKE
      BY BeforeFacts DEF HANDSHAKE
    <3>2. ASSUME NEW j \in 1 .. BLOCKS
          PROVE  ~ (p - Before[j] - 1 \in 1 .. lens[j])
      <4>1. j \in 1 .. BLOCKS + 1 /\ j <= j
        BY BoundAssumption
      <4>2. HANDSHAKE <= Before[j] /\ Before[j] \in Nat /\ lens[j] \in Nat
        BY <4>1, BeforeOrder
      <4> QED  BY <3>1, <4>2 DEF HANDSHAKE
    <3> QED  BY <3>2 DEF IsText
  <2>2. {p \in 1 .. Before[1] : IsText(p)} = {}
    BY <2>1
  <2> QED  BY <2>2, FS_EmptySet DEF Text
<1> QED  BY <1>1, <1>2, <1>3

\* The bytes of block k's text follow the text before it.
LEMMA TextNumbers ==
  ASSUME lens \in [1 .. BLOCKS -> Nat], NEW k \in 1 .. BLOCKS, NEW j \in 1 .. lens[k]
  PROVE  TextNumber(Before[k] + 1 + j) = Text(1 .. Before[k]) + j
<1>1. /\ Before[k] \in Nat /\ Before[k + 1] \in Nat /\ lens[k] \in Nat
      /\ Padded(lens[k]) \in Nat /\ lens[k] <= Padded(lens[k])
      /\ Before[k + 1] = Before[k] + 1 + Padded(lens[k])
  BY BlockPlaces
<1>2. ASSUME NEW b \in Nat, NEW n \in Nat, NEW m \in Nat, NEW i \in 1 .. n, n <= m
      PROVE  /\ b + 1 + i \in b + 1 .. b + 1 + m /\ (b + 1 + i) - b - 1 \in 1 .. n
             /\ i \in 0 .. m /\ i <= n
  BY <1>2
<1>3. /\ Before[k] + 1 + j \in Before[k] + 1 .. Before[k + 1]
      /\ (Before[k] + 1 + j) - Before[k] - 1 \in 1 .. lens[k]
      /\ j \in 0 .. Padded(lens[k]) /\ j <= lens[k]
  BY <1>1, <1>2
<1>4. IsText(Before[k] + 1 + j)
  BY <1>3, TextWhere
<1>5. Text(1 .. Before[k] + 1 + j) = Text(1 .. Before[k]) + j
  BY <1>3, TextInBlock
<1> QED  BY <1>4, <1>5 DEF TextNumber

----------------------------------------------------------------------------
\* The places of the blocks that are whole when w bytes have arrived.
WholeBlocks(w) ==
  UNION {Before[k] + 1 .. Before[k + 1] : k \in {j \in 1 .. BLOCKS : Before[j + 1] <= w}}

LEMMA WholeBlocksArrived ==
  ASSUME lens \in [1 .. BLOCKS -> Nat], NEW w \in Nat
  PROVE  WholeBlocks(w) \subseteq 1 .. w /\ IsFiniteSet(WholeBlocks(w))
<1>1. ASSUME NEW j \in 1 .. BLOCKS, Before[j + 1] <= w
      PROVE  Before[j] + 1 .. Before[j + 1] \subseteq 1 .. w
  <2>1. Before[j] \in Nat /\ Before[j + 1] \in Nat
    BY BlockPlaces
  <2> QED  BY <2>1, <1>1
<1>2. WholeBlocks(w) \subseteq 1 .. w
  BY <1>1 DEF WholeBlocks
<1>3. IsFiniteSet(1 .. w)
  BY FS_Interval
<1> QED  BY <1>2, <1>3, FS_Subset

\* What is read up to block k has arrived in whole blocks.
LEMMA ReadIsWhole ==
  ASSUME lens \in [1 .. BLOCKS -> Nat], NEW w \in Nat,
         NEW k \in 1 .. BLOCKS + 1, Before[k] <= w
  PROVE  Text(1 .. Before[k]) <= Text(WholeBlocks(w))
<1> DEFINE P == {p \in 1 .. Before[k] : IsText(p)}
           Q == {p \in WholeBlocks(w) : IsText(p)}
<1>1. ASSUME NEW p \in P
      PROVE  p \in WholeBlocks(w)
  <2>1. PICK j \in 1 .. BLOCKS : p \in Before[j] + 1 .. Before[j + 1]
    BY NoTextBefore
  <2>2. /\ Before[k] \in Nat /\ Before[j] \in Nat /\ Before[j + 1] \in Nat
        /\ j + 1 \in 1 .. BLOCKS + 1 /\ j \in 1 .. BLOCKS + 1
    BY BlockPlaces, BeforeFacts, BoundAssumption
  <2>3. j < k
    <3>1. k <= j => Before[k] <= Before[j]
      BY <2>2, BeforeOrder
    <3>2. Before[j] < p /\ p <= Before[k] /\ p \in Int
      BY <2>1, <2>2
    <3> QED  BY <2>2, <3>1, <3>2
  <2>4. Before[j + 1] <= Before[k]
    BY <2>3, BeforeGrows
  <2>5. Before[j + 1] <= w
    BY <2>2, <2>4
  <2> QED  BY <2>1, <2>5 DEF WholeBlocks
<1>2. P \in SUBSET Q
  BY <1>1
<1>3. IsFiniteSet(Q)
  <2>1. Q \in SUBSET WholeBlocks(w)
    OBVIOUS
  <2> HIDE DEF Q
  <2> QED  BY <2>1, WholeBlocksArrived, FS_Subset
<1>4. Cardinality(P) <= Cardinality(Q)
  <2> HIDE DEF P, Q
  <2> QED  BY <1>2, <1>3, FS_Subset
<1> QED  BY <1>4 DEF Text

\* Text arrives as bytes do, no faster.
LEMMA TextArrivedFacts ==
  ASSUME lens \in [1 .. BLOCKS -> Nat], NEW w \in Nat
  PROVE  /\ Text(WholeBlocks(w)) \in Nat /\ Text(WholeBlocks(w)) <= w
         /\ \A v \in Nat : w <= v => Text(WholeBlocks(w)) <= Text(WholeBlocks(v))
<1>1. Text(WholeBlocks(w)) \in Nat /\ Text(WholeBlocks(w)) <= Text(1 .. w)
      /\ Text(1 .. w) \in Nat /\ Text(1 .. w) <= Cardinality(1 .. w) /\ Cardinality(1 .. w) = w
  <2>1. IsFiniteSet(1 .. w) /\ Cardinality(1 .. w) = w
    BY FS_Interval
  <2> QED  BY <2>1, WholeBlocksArrived, TextIsCounted, TextGrows
<1>2. ASSUME NEW v \in Nat, w <= v
      PROVE  Text(WholeBlocks(w)) <= Text(WholeBlocks(v))
  <2>1. \A j \in 1 .. BLOCKS : Before[j + 1] <= w => Before[j + 1] <= v
    BY <1>2, BlockPlaces
  <2>2. WholeBlocks(w) \subseteq WholeBlocks(v)
    BY <2>1 DEF WholeBlocks
  <2> QED  BY <2>2, WholeBlocksArrived, TextGrows
<1> QED  BY <1>1, <1>2

LEMMA TextArrivedIs == TextArrived = Text(WholeBlocks(wArrived))
BY DEF TextArrived, WholeBlocks

LEMMA TextArrivedNext ==
  ASSUME lens' = lens
  PROVE  TextArrived' = Text(WholeBlocks(wArrived'))
BY DEF TextArrived, WholeBlocks, Text, IsText, Before
----------------------------------------------------------------------------
(***************************************************************************)
(* The inductive invariant.                                                *)
(***************************************************************************)
Verifying == {"dial", "sendkey"} \cup Handshaking

PlaceOf == [dial |-> 0, start |-> 0, keylen |-> 1, key |-> 2, sendkey |-> HANDSHAKE]

\* Between two blocks, k the next: all text before it is kept or handed over.
BeforeBlock(k) == wTaken = Before[k] /\ taken + Len(data) = Text(1 .. Before[k])

\* Behind the length of block k.
InBlock(k) ==
  /\ wTaken = Before[k] + 1 /\ taken + Len(data) = Text(1 .. Before[k])
  /\ recvlen = lens[k] /\ recvlen > 0
  /\ Padded(recvlen) <= MAX /\ wWant \in {0, Padded(recvlen)}

Aligned ==
  /\ at \in Verifying => wTaken = PlaceOf[at] /\ data = <<>> /\ taken = 0
  /\ at \in Handshaking \cup {"header"} => wWant \in {0, 1}
  /\ at \in {"dial", "sendkey", "idle", "try"} => wWant = 0
  /\ at \in {"idle", "try", "header"} => \E k \in 1 .. BLOCKS + 1 : BeforeBlock(k)
  /\ at = "body" => \E k \in 1 .. BLOCKS : InBlock(k)

Kept ==
  /\ \A j \in DOMAIN data : TextNumber(data[j]) = taken + j
  /\ taken + Len(data) <= TextArrived

Pending ==
  /\ at \in Receiving => want > 0
  /\ at \in Verifying \cup {"idle", "failed"} => want = 0
  /\ broken => at \in {"failed", "reset"}

IInv == TypeOK /\ Aligned /\ Kept /\ Pending

LEMMA LensAreNat == TypeOK => lens \in [1 .. BLOCKS -> Nat]
BY LengthAssumption DEF TypeOK

\* The peer's stream stays what it is.
LEMMA SameStream ==
  ASSUME lens' = lens
  PROVE  /\ WireLength' = WireLength
         /\ \A k : BeforeBlock(k)' <=>
                     wTaken' = Before[k] /\ taken' + Len(data') = Text(1 .. Before[k])
         /\ \A k : InBlock(k)' <=>
                     /\ wTaken' = Before[k] + 1 /\ taken' + Len(data') = Text(1 .. Before[k])
                     /\ recvlen' = lens[k] /\ recvlen' > 0
                     /\ Padded(recvlen') <= MAX /\ wWant' \in {0, Padded(recvlen')}
         /\ Kept' <=>
              /\ \A j \in DOMAIN data' : TextNumber(data'[j]) = taken' + j
              /\ taken' + Len(data') <= Text(WholeBlocks(wArrived'))
<1>1. WireLength' = WireLength
  BY DEF WireLength, Before
<1>2. \A k : BeforeBlock(k)' <=>
               wTaken' = Before[k] /\ taken' + Len(data') = Text(1 .. Before[k])
  BY DEF BeforeBlock, Before, Text, IsText
<1>3. \A k : InBlock(k)' <=>
               /\ wTaken' = Before[k] + 1 /\ taken' + Len(data') = Text(1 .. Before[k])
               /\ recvlen' = lens[k] /\ recvlen' > 0
               /\ Padded(recvlen') <= MAX /\ wWant' \in {0, Padded(recvlen')}
  BY DEF InBlock, Before, Text, IsText, Padded
<1>4. Kept' <=>
        /\ \A j \in DOMAIN data' : TextNumber(data'[j]) = taken' + j
        /\ taken' + Len(data') <= Text(WholeBlocks(wArrived'))
  <2>1. \A p : TextNumber(p)' = TextNumber(p)
    BY DEF TextNumber, Before, Text, IsText
  <2>2. (\A j \in DOMAIN data : TextNumber(data[j]) = taken + j)'
          <=> \A j \in DOMAIN data' : TextNumber(data'[j]) = taken' + j
    BY DEF TextNumber, Before, Text, IsText
  <2> QED  BY <2>2, TextArrivedNext DEF Kept
<1> QED  BY <1>1, <1>2, <1>3, <1>4

LEMMA InitHolds == Init => IInv
<1> SUFFICES ASSUME Init
             PROVE  IInv
  OBVIOUS
<1>1. lens \in [1 .. BLOCKS -> Nat]
  BY LengthAssumption DEF Init
<1>2. WireLength \in Nat
  <2>1. BLOCKS + 1 \in 1 .. BLOCKS + 1
    BY BoundAssumption
  <2> QED  BY <1>1, <2>1, BeforeFacts DEF WireLength
<1>3. /\ wArrived = 0 /\ wTaken = 0 /\ wWant = 0 /\ wLast = <<>> /\ wBroken = FALSE
      /\ at = "dial" /\ data = <<>> /\ taken = 0 /\ want = 0 /\ last = <<>> /\ broken = FALSE
  BY DEF Init, Wire!StreamInit
<1>4. TypeOK
  <2>1. \A S : <<>> \in Seq(S)
    OBVIOUS
  <2>2. /\ 0 \in 0 .. WireLength /\ 0 \in 0 .. 0 /\ 0 \in 0 .. MAX /\ 0 \in 0 .. MAXLEN
        /\ 0 \in 0 .. SENDS /\ 0 \in 0 .. OOM /\ 0 \in Nat
    BY <1>2, UnitAssumption, LengthAssumption, BoundAssumption
  <2>3. at \in Places
    BY <1>3 DEF Places
  <2> QED  BY <1>3, <2>1, <2>2, <2>3 DEF Init, TypeOK
<1>5. Aligned /\ Pending
  BY <1>3 DEF Aligned, Pending, Verifying, Handshaking, Receiving, PlaceOf
<1>6. Kept
  <2>1. TextArrived \in Nat
    BY <1>1, <1>3, TextArrivedIs, TextArrivedFacts
  <2>2. Len(data) = 0 /\ DOMAIN data = {}
    BY <1>3
  <2> QED  BY <1>3, <2>1, <2>2 DEF Kept
<1> QED  BY <1>4, <1>5, <1>6 DEF IInv

LEMMA StreamFacts ==
  ASSUME TypeOK
  PROVE  /\ lens \in [1 .. BLOCKS -> Nat]
         /\ WireLength \in Nat /\ wArrived \in Nat /\ wTaken \in Nat
         /\ wTaken <= wArrived /\ wArrived <= WireLength
         /\ MAX \in Nat /\ MAX > 0 /\ wWant \in Nat
         /\ taken \in Nat /\ want \in Nat /\ Len(data) \in Nat /\ DOMAIN data = 1 .. Len(data)
<1>1. lens \in [1 .. BLOCKS -> Nat]
  BY LensAreNat
<1>2. BLOCKS + 1 \in 1 .. BLOCKS + 1
  BY BoundAssumption
<1>3. WireLength \in Nat
  BY <1>1, <1>2, BeforeFacts DEF WireLength
<1> QED  BY <1>1, <1>3, UnitAssumption, LengthAssumption DEF TypeOK

LEMMA KeptStays ==
  ASSUME Kept, UNCHANGED <<lens, wArrived, data, taken>>
  PROVE  Kept'
BY SameStream, TextArrivedIs DEF Kept

LEMMA ArriveHolds ==
  ASSUME IInv, Arrive
  PROVE  IInv'
<1>1. /\ wArrived' \in Nat /\ wArrived < wArrived' /\ wArrived' <= WireLength
      /\ UNCHANGED <<wTaken, wWant, wLast, wBroken, peerVars, at, recvVars, sendVars, oom>>
  BY StreamFacts, BoundAssumption DEF IInv, Arrive, Wire!Arrive
<1>2. lens' = lens /\ WireLength' = WireLength
  BY <1>1, SameStream DEF peerVars
<1>3. TypeOK'
  <2>1. wArrived' \in 0 .. WireLength /\ wTaken \in 0 .. wArrived'
    BY <1>1, StreamFacts DEF IInv
  <2> QED  BY <1>1, <1>2, <2>1 DEF IInv, TypeOK, peerVars, recvVars, textVars, sendVars
<1>4. Aligned' /\ Pending'
  BY <1>1, <1>2, SameStream
  DEF IInv, Aligned, Pending, BeforeBlock, InBlock, peerVars, recvVars, textVars
<1>5. Kept'
  <2>1. TextArrived <= Text(WholeBlocks(wArrived'))
        /\ TextArrived \in Nat /\ Text(WholeBlocks(wArrived')) \in Nat
    BY <1>1, StreamFacts, TextArrivedFacts, TextArrivedIs DEF IInv
  <2>2. taken + Len(data) \in Nat /\ taken + Len(data) <= TextArrived
    BY StreamFacts DEF IInv, Kept
  <2>3. taken + Len(data) <= Text(WholeBlocks(wArrived'))
    BY <2>1, <2>2
  <2> QED  BY <1>1, <1>2, <2>3, SameStream DEF IInv, Kept, recvVars, textVars
<1> QED  BY <1>3, <1>4, <1>5 DEF IInv

----------------------------------------------------------------------------
\* The handshake takes three bytes and leaves the text alone.
LEMMA VerifyTyped ==
  ASSUME IInv, Greet \/ AskPeer \/ PeerAnswers \/ PeerFails \/ SendKey
  PROVE  TypeOK' /\ UNCHANGED <<lens, wArrived, data, taken, want, broken>>
<1>1. UNCHANGED <<lens, wArrived>> /\ WireLength' = WireLength
  <2>1. UNCHANGED <<lens, wArrived>>
    BY DEF Greet, AskPeer, PeerAnswers, PeerFails, SendKey, wireVars, peerVars,
           Wire!Ask, Wire!Take, Wire!Fail
  <2> QED  BY <2>1, SameStream
<1>2. wTaken' \in 0 .. wArrived /\ wWant' \in 0 .. MAX /\ wBroken' \in BOOLEAN
      /\ wLast' \in Seq(1 .. WireLength)
  <2>1. CASE Greet \/ SendKey \/ AskPeer
    BY <2>1, StreamFacts DEF IInv, TypeOK, Greet, SendKey, AskPeer, wireVars, Wire!Ask
  <2>2. CASE PeerFails
    BY <2>2, StreamFacts DEF IInv, TypeOK, PeerFails, Wire!Fail
  <2>3. CASE PeerAnswers
    <3>1. /\ wTaken + wWant <= wArrived /\ wWant \in Nat /\ wTaken' = wTaken + wWant
          /\ wWant' = 0 /\ wBroken' = wBroken /\ wLast' = [j \in 1 .. wWant |-> wTaken + j]
      BY <2>3, StreamFacts DEF IInv, PeerAnswers, Wire!Take
    <3>2. \A j \in 1 .. wWant : wTaken + j \in 1 .. WireLength
      BY <3>1, StreamFacts DEF IInv
    <3>3. wLast' \in Seq(1 .. WireLength)
      BY <3>1, <3>2
    <3> QED  BY <3>1, <3>3, StreamFacts DEF IInv, TypeOK
  <2> QED  BY <2>1, <2>2, <2>3
<1>3. at' \in Places /\ oom' \in 0 .. OOM
  <2>1. oom' \in 0 .. OOM
    BY BoundAssumption DEF IInv, TypeOK, Greet, AskPeer, PeerAnswers, PeerFails, SendKey, NoMemory
  <2>2. at' \in Places
    BY DEF IInv, TypeOK, Places, Handshaking, AfterThis,
           Greet, AskPeer, PeerAnswers, PeerFails, SendKey
  <2> QED  BY <2>1, <2>2
<1>4. UNCHANGED <<peerVars, recvVars, sendVars>>
  BY DEF Greet, AskPeer, PeerAnswers, PeerFails, SendKey
<1> QED  BY <1>1, <1>2, <1>3, <1>4 DEF IInv, TypeOK, peerVars, recvVars, textVars, sendVars

LEMMA VerifyHolds ==
  ASSUME IInv, Greet \/ AskPeer \/ PeerAnswers \/ PeerFails \/ SendKey
  PROVE  IInv'
<1>1. TypeOK' /\ UNCHANGED <<lens, wArrived, data, taken, want, broken>>
  BY VerifyTyped
<1>2. Kept'
  BY <1>1, KeptStays DEF IInv
<1>3. at \in Verifying /\ data = <<>> /\ taken = 0 /\ wTaken = PlaceOf[at] /\ want = 0 /\ broken = FALSE
  BY DEF IInv, TypeOK, Aligned, Pending, Verifying, Handshaking, Receiving,
         Greet, AskPeer, PeerAnswers, PeerFails, SendKey
<1>4. Pending'
  BY <1>1, <1>3 DEF Greet, AskPeer, PeerAnswers, PeerFails, SendKey, Pending, Receiving,
                     Handshaking, Verifying, AfterThis
<1>5. Aligned'
  <2>1. CASE Greet
    BY <1>1, <1>3, <2>1
    DEF Greet, IInv, Aligned, Verifying, Handshaking, PlaceOf, wireVars
  <2>2. CASE AskPeer
    BY <1>1, <1>3, <2>2
    DEF AskPeer, IInv, Aligned, Verifying, Handshaking, PlaceOf, Wire!Ask
  <2>3. CASE PeerFails
    BY <2>3 DEF PeerFails, Aligned, Verifying, Handshaking
  <2>4. CASE SendKey
    <3>1. at = "sendkey" /\ at' \in {"idle", "failed"} /\ wTaken' = wTaken /\ wWant' = wWant /\ wWant = 0
      BY <2>4 DEF SendKey, wireVars, IInv, Aligned
    <3>2. 1 \in 1 .. BLOCKS + 1
      BY BoundAssumption
    <3>3. wTaken = Before[1] /\ Len(data) = 0 /\ Text(1 .. Before[1]) = 0
      BY <1>3, <3>1, StreamFacts, BeforeFacts, TextBefore DEF IInv, PlaceOf
    <3>4. BeforeBlock(1)'
      BY <1>1, <1>3, <3>1, <3>3, SameStream
    <3> QED  BY <3>1, <3>2, <3>4 DEF Aligned, Verifying, Handshaking
  <2>5. CASE PeerAnswers
    <3>1. /\ at' \in {"failed", AfterThis[at]} /\ wTaken' = wTaken + wWant /\ wWant' = 0 /\ wWant > 0
          /\ at \in Handshaking
      BY <2>5 DEF PeerAnswers, Wire!Take
    <3>2. wWant = 1
      BY <3>1, StreamFacts DEF IInv, Aligned
    <3>3. at' # "failed" => at' \in Verifying \ {"dial", "start"} /\ wTaken' = PlaceOf[at']
      BY <1>3, <3>1, <3>2 DEF Handshaking, Verifying, AfterThis, PlaceOf, HANDSHAKE
    <3> QED  BY <1>1, <1>3, <3>1, <3>3 DEF Aligned, Verifying, Handshaking
  <2> QED  BY <2>1, <2>2, <2>3, <2>4, <2>5
<1> QED  BY <1>1, <1>2, <1>4, <1>5 DEF IInv

LEMMA RecvHolds ==
  ASSUME IInv, Recv
  PROVE  IInv'
<1>1. UNCHANGED <<lens, wArrived, wTaken, wWant, data, taken, broken, recvlen>> /\ WireLength' = WireLength
      /\ at = "idle" /\ at' = "try" /\ want' \in CALLS
  <2>1. UNCHANGED <<lens, wArrived, wTaken, wWant, data, taken, broken, recvlen>>
    BY DEF Recv, wireVars, peerVars
  <2> QED  BY <2>1, SameStream DEF Recv
<1>2. TypeOK'
  <2>1. want' \in 0 .. MAXLEN /\ at' \in Places /\ recvdata' \in BOOLEAN /\ oom' \in 0 .. OOM
    <3>1. want' \in 0 .. MAXLEN /\ at' \in Places /\ recvdata' \in BOOLEAN
      <4>1. want' \in 0 .. MAXLEN
        BY <1>1, LengthAssumption
      <4>2. at' \in Places
        BY <1>1 DEF Places, Receiving
      <4> QED  BY <4>1, <4>2 DEF Recv
    <3>2. oom' \in 0 .. OOM
      BY BoundAssumption DEF Recv, IInv, TypeOK, NoMemory
    <3> QED  BY <3>1, <3>2
  <2> QED  BY <1>1, <2>1 DEF Recv, IInv, TypeOK, wireVars, peerVars, sendVars
<1>3. Kept'
  BY <1>1, KeptStays DEF IInv
<1>4. Pending'
  <2>1. want' > 0 /\ ~ broken
    BY <1>1, LengthAssumption DEF IInv, Pending
  <2> QED  BY <1>1, <2>1 DEF Pending, Verifying, Handshaking
<1>5. Aligned'
  <2>1. PICK k \in 1 .. BLOCKS + 1 : BeforeBlock(k)
    BY <1>1 DEF IInv, Aligned
  <2>2. BeforeBlock(k)'
    BY <1>1, <2>1, SameStream DEF BeforeBlock
  <2>3. wWant' = 0
    BY <1>1 DEF IInv, Aligned
  <2> QED  BY <1>1, <2>2, <2>3 DEF Aligned, Verifying, Handshaking
<1> QED  BY <1>2, <1>3, <1>4, <1>5 DEF IInv

\* What GetData hands over is the next text.
LEMMA HandedOver ==
  ASSUME IInv, GetData
  PROVE  /\ want \in 1 .. Len(data) /\ taken + want <= TextArrived
         /\ last' = [j \in 1 .. want |-> taken + j]
         /\ data' = [j \in 1 .. Len(data) - want |-> data[want + j]]
         /\ Len(data') = Len(data) - want /\ data' \in Seq(1 .. WireLength)
         /\ TextArrived \in Nat /\ TextArrived <= WireLength
<1>1. want \in 1 .. Len(data) /\ want \in Nat /\ Len(data) \in Nat
  BY StreamFacts DEF IInv, Pending, GetData, Enough, Receiving
<1>2. data \in Seq(1 .. WireLength) /\ taken \in Nat
  BY StreamFacts DEF IInv, TypeOK
<1>3. TextArrived \in Nat /\ TextArrived <= wArrived /\ TextArrived <= WireLength
  <2>1. TextArrived \in Nat /\ TextArrived <= wArrived
    BY StreamFacts, TextArrivedIs, TextArrivedFacts DEF IInv
  <2> QED  BY <2>1, StreamFacts DEF IInv
<1>4. taken + want <= TextArrived
  <2>1. taken + Len(data) <= TextArrived
    BY DEF IInv, Kept
  <2> QED  BY <1>1, <1>2, <1>3, <2>1
<1>5. last' = [j \in 1 .. want |-> taken + j]
  <2>1. \A j \in 1 .. want : TextNumber(data[j]) = taken + j
    BY <1>1, <1>2 DEF IInv, Kept
  <2> QED  BY <2>1 DEF GetData
<1>6. data' = [j \in 1 .. Len(data) - want |-> data[want + j]]
      /\ Len(data') = Len(data) - want
  <2>1. ASSUME NEW s \in Seq(1 .. WireLength), NEW n \in 1 .. Len(s)
        PROVE  /\ SubSeq(s, n + 1, Len(s)) = [j \in 1 .. Len(s) - n |-> s[n + j]]
               /\ Len(SubSeq(s, n + 1, Len(s))) = Len(s) - n
    BY <2>1
  <2> QED  BY <1>1, <1>2, <2>1 DEF GetData, Rest
<1>7. data' \in Seq(1 .. WireLength)
  <2>1. ASSUME NEW S, NEW s \in Seq(S), NEW n \in 1 .. Len(s)
        PROVE  [j \in 1 .. Len(s) - n |-> s[n + j]] \in Seq(S)
    <3>1. Len(s) - n \in Nat /\ \A j \in 1 .. Len(s) - n : n + j \in 1 .. Len(s)
      BY <2>1
    <3>2. \A j \in 1 .. Len(s) - n : s[n + j] \in S
      BY <3>1
    <3> QED  BY <3>1, <3>2
  <2> QED  BY <1>1, <1>2, <1>6, <2>1
<1> QED  BY <1>1, <1>3, <1>4, <1>5, <1>6, <1>7

LEMMA GetDataHolds ==
  ASSUME IInv, GetData
  PROVE  IInv'
<1>1. /\ UNCHANGED <<lens, wArrived, wTaken, wWant, broken, recvlen>> /\ WireLength' = WireLength
      /\ at = "try" /\ at' = "idle" /\ want' = 0 /\ taken' = taken + want
  <2>1. UNCHANGED <<lens, wArrived, wTaken, wWant, broken, recvlen>>
    BY DEF GetData, wireVars, peerVars
  <2> QED  BY <2>1, SameStream DEF GetData
<1>2. want \in 1 .. Len(data) /\ taken \in Nat /\ Len(data) \in Nat
  BY HandedOver, StreamFacts DEF IInv
<1>3. TypeOK'
  <2>1. taken' \in 0 .. WireLength
    BY <1>1, <1>2, HandedOver, StreamFacts DEF IInv
  <2>2. last' \in Seq(1 .. WireLength)
    <3>1. \A j \in 1 .. want : taken + j \in 1 .. WireLength
      BY <1>2, HandedOver, StreamFacts DEF IInv
    <3>2. want \in Nat
      BY <1>2
    <3>3. last' = [j \in 1 .. want |-> taken + j]
      BY HandedOver
    <3> QED  BY <3>1, <3>2, <3>3
  <2>3. at' \in Places /\ want' \in 0 .. MAXLEN
    BY <1>1, LengthAssumption DEF Places
  <2> QED  BY <1>1, <2>1, <2>2, <2>3, HandedOver
           DEF GetData, IInv, TypeOK, wireVars, peerVars, sendVars
<1>4. taken' + Len(data') = taken + Len(data)
  <2>1. Len(data') = Len(data) - want
    BY HandedOver
  <2> QED  BY <1>1, <1>2, <2>1
<1>5. Kept'
  <2>1. \A j \in 1 .. Len(data) - want : TextNumber(data[want + j]) = taken + (want + j)
    <3>1. \A j \in 1 .. Len(data) - want : want + j \in DOMAIN data
      BY <1>2, StreamFacts DEF IInv
    <3> QED  BY <3>1 DEF IInv, Kept
  <2>2. \A j \in DOMAIN data' : TextNumber(data'[j]) = taken' + j
    BY <1>1, <1>2, <2>1, HandedOver
  <2>3. taken' + Len(data') <= Text(WholeBlocks(wArrived'))
    BY <1>1, <1>4, TextArrivedIs DEF IInv, Kept
  <2> QED  BY <1>1, <2>2, <2>3, SameStream
<1>6. Pending'
  BY <1>1 DEF IInv, Pending, Receiving
<1>7. Aligned'
  <2>1. PICK k \in 1 .. BLOCKS + 1 : BeforeBlock(k)
    BY <1>1 DEF IInv, Aligned
  <2>2. BeforeBlock(k)'
    BY <1>1, <1>4, <2>1, SameStream DEF BeforeBlock
  <2>3. wWant' = 0
    BY <1>1 DEF IInv, Aligned
  <2> QED  BY <1>1, <2>2, <2>3 DEF Aligned, Verifying, Handshaking
<1> QED  BY <1>3, <1>5, <1>6, <1>7 DEF IInv

LEMMA AskedHolds ==
  ASSUME IInv, GetDataFails \/ AskHeader
  PROVE  IInv'
<1>1. /\ UNCHANGED <<lens, wArrived, wTaken, data, taken, want, broken, recvlen>>
      /\ WireLength' = WireLength /\ at' = "header" /\ at \in {"try", "header"}
      /\ wWant' \in {0, 1}
  <2>1. UNCHANGED <<lens, wArrived, wTaken, data, taken, want, broken, recvlen>>
    BY DEF GetDataFails, AskHeader, wireVars, peerVars, recvVars, textVars, Wire!Ask
  <2> QED  BY <2>1, SameStream DEF GetDataFails, AskHeader, wireVars, IInv, Aligned
<1>2. TypeOK'
  <2>1. wWant' \in 0 .. MAX /\ at' \in Places
    BY <1>1, UnitAssumption DEF Places, Receiving
  <2>2. wLast' = wLast /\ wBroken' = wBroken
    BY DEF GetDataFails, AskHeader, wireVars, Wire!Ask
  <2>3. oom' \in 0 .. OOM
    BY BoundAssumption DEF GetDataFails, AskHeader, IInv, TypeOK, NoMemory
  <2> QED  BY <1>1, <2>1, <2>2, <2>3
           DEF GetDataFails, AskHeader, IInv, TypeOK, peerVars, recvVars, textVars, sendVars
<1>3. Kept'
  BY <1>1, KeptStays DEF IInv
<1>4. Pending'
  BY <1>1 DEF IInv, Pending, Receiving, Verifying, Handshaking
<1>5. Aligned'
  <2>1. PICK k \in 1 .. BLOCKS + 1 : BeforeBlock(k)
    BY <1>1 DEF IInv, Aligned
  <2>2. BeforeBlock(k)'
    BY <1>1, <2>1, SameStream DEF BeforeBlock
  <2> QED  BY <1>1, <2>2 DEF Aligned, Verifying, Handshaking
<1> QED  BY <1>2, <1>3, <1>4, <1>5 DEF IInv

\* A call that fails keeps what it had and is the last.
LEMMA FailedHolds ==
  ASSUME IInv, RecvFails, lens' = lens, UNCHANGED <<wArrived, peer, sendVars>>,
         wTaken' \in 0 .. wArrived, wWant' \in 0 .. MAX, wBroken' \in BOOLEAN,
         wLast' \in Seq(1 .. WireLength), oom' \in 0 .. OOM
  PROVE  IInv'
<1>1. WireLength' = WireLength
  BY SameStream
<1>2. TypeOK'
  <2>1. \A S : <<>> \in Seq(S)
    OBVIOUS
  <2>2. at' \in Places /\ want' \in 0 .. MAXLEN
    BY LengthAssumption DEF RecvFails, Places
  <2> QED  BY <1>1, <2>1, <2>2 DEF IInv, TypeOK, RecvFails, sendVars
<1>3. Kept'
  BY KeptStays DEF IInv, RecvFails
<1>4. Aligned' /\ Pending'
  BY DEF RecvFails, Aligned, Pending, Verifying, Handshaking, Receiving
<1> QED  BY <1>2, <1>3, <1>4 DEF IInv

\* The block that a Take of the socket below returns.
LEMMA Took ==
  ASSUME IInv, Wire!Take
  PROVE  /\ wArrived' = wArrived /\ wBroken' = wBroken /\ wWant' = 0 /\ wWant > 0
         /\ wTaken' = wTaken + wWant /\ wTaken' \in 0 .. wArrived
         /\ wLast' = [j \in 1 .. wWant |-> wTaken + j]
         /\ wLast' \in Seq(1 .. WireLength)
         /\ wWant' \in 0 .. MAX /\ wBroken' \in BOOLEAN
<1>1. /\ wTaken + wWant <= wArrived /\ wWant > 0 /\ wWant \in Nat /\ wTaken' = wTaken + wWant
      /\ wArrived' = wArrived /\ wWant' = 0 /\ wBroken' = wBroken
      /\ wLast' = [j \in 1 .. wWant |-> wTaken + j]
  BY StreamFacts DEF IInv, Wire!Take
<1>2. \A j \in 1 .. wWant : wTaken + j \in 1 .. WireLength
  BY <1>1, StreamFacts DEF IInv
<1>3. wLast' \in Seq(1 .. WireLength)
  BY <1>1, <1>2
<1>4. wTaken' \in 0 .. wArrived /\ 0 \in 0 .. MAX
  BY <1>1, StreamFacts DEF IInv
<1> QED  BY <1>1, <1>3, <1>4 DEF IInv, TypeOK

LEMMA HeaderHolds ==
  ASSUME IInv, HeaderArrives
  PROVE  IInv'
<1> DEFINE n == Announced(wTaken + 1)
<1>1. /\ at = "header" /\ Wire!Take /\ lens' = lens
      /\ UNCHANGED <<peer, sendVars, oom>> /\ WireLength' = WireLength
  BY SameStream DEF HeaderArrives, peerVars
<1>2. CASE RecvFails
  BY <1>1, <1>2, Took, FailedHolds DEF IInv, TypeOK
<1>3. CASE ~ RecvFails
  <2>1. /\ n # 0 /\ ~ (Padded(n) > MAX) /\ recvlen' = n /\ at' = "body"
        /\ UNCHANGED <<recvdata, textVars>>
    BY <1>3 DEF HeaderArrives
  <2>2. PICK k \in 1 .. BLOCKS + 1 : BeforeBlock(k)
    BY <1>1 DEF IInv, Aligned
  <2>3. wWant = 1
    BY <1>1, Took, StreamFacts DEF IInv, Aligned
  <2>4. k \in 1 .. BLOCKS
    <3>1. k # BLOCKS + 1
      <4>1. wTaken < WireLength
        BY <1>1, <2>3, Took, StreamFacts DEF IInv
      <4> QED  BY <2>2, <4>1, StreamFacts DEF BeforeBlock, WireLength, IInv
    <3> QED  BY <3>1, BoundAssumption
  <2>5. n = lens[k] /\ n \in Nat /\ n > 0 /\ Padded(n) <= MAX
    <3>1. Announced(Before[k] + 1) = lens[k] /\ lens[k] \in Nat
      BY <2>4, HeaderWhere, StreamFacts DEF IInv
    <3>2. n = lens[k]
      BY <2>2, <3>1 DEF BeforeBlock
    <3> HIDE DEF n
    <3>3. n \in Nat /\ Padded(n) \in Nat /\ MAX \in Nat
      BY <3>1, <3>2, PaddedIs, UnitAssumption
    <3> QED  BY <2>1, <3>2, <3>3
  <2> HIDE DEF n
  <2>6. /\ wTaken' = Before[k] + 1 /\ wWant' = 0
        /\ taken' + Len(data') = Text(1 .. Before[k])
    BY <1>1, <2>1, <2>2, <2>3, Took DEF BeforeBlock, textVars
  <2>7. InBlock(k)'
    BY <1>1, <2>1, <2>5, <2>6, SameStream
  <2>8. TypeOK'
    <3>1. at' \in Places /\ recvlen' \in Nat
      BY <2>1, <2>5 DEF Places, Receiving
    <3> QED  BY <1>1, <2>1, <3>1, Took DEF IInv, TypeOK, textVars, sendVars
  <2>9. Kept'
    BY <1>1, <2>1, Took, KeptStays DEF IInv, textVars
  <2>10. Aligned'
    BY <2>1, <2>4, <2>7 DEF Aligned, Verifying, Handshaking
  <2>11. Pending'
    BY <1>1, <2>1 DEF IInv, Pending, Receiving, Verifying, Handshaking, textVars
  <2> QED  BY <2>8, <2>9, <2>10, <2>11 DEF IInv
<1> QED  BY <1>2, <1>3

LEMMA AskBodyHolds ==
  ASSUME IInv, AskBody
  PROVE  IInv'
<1>1. /\ UNCHANGED <<lens, wArrived, wTaken, data, taken, want, broken, recvlen>>
      /\ WireLength' = WireLength /\ at' = at /\ at = "body"
      /\ wWant' = Padded(recvlen) /\ wLast' = wLast /\ wBroken' = wBroken
  <2>1. UNCHANGED <<lens, wArrived, wTaken, data, taken, want, broken, recvlen>>
    BY DEF AskBody, peerVars, recvVars, textVars, Wire!Ask
  <2> QED  BY <2>1, SameStream DEF AskBody, BodyLength, Wire!Ask
<1>2. PICK k \in 1 .. BLOCKS : InBlock(k)
  BY <1>1 DEF IInv, Aligned
<1>3. InBlock(k)'
  BY <1>1, <1>2, SameStream DEF InBlock
<1>4. TypeOK'
  <2>1. wWant' \in 0 .. MAX
    BY <1>1, <1>2, PaddedIs, StreamFacts DEF IInv, TypeOK, InBlock
  <2> QED  BY <1>1, <2>1 DEF AskBody, IInv, TypeOK, peerVars, recvVars, textVars, sendVars
<1>5. Kept'
  BY <1>1, KeptStays DEF IInv
<1>6. Aligned' /\ Pending'
  BY <1>1, <1>2, <1>3 DEF IInv, Aligned, Pending, Verifying, Handshaking, Receiving
<1> QED  BY <1>4, <1>5, <1>6 DEF IInv

\* A block's text joins what is kept.
LEMMA DecipheredText ==
  ASSUME IInv, at = "body", Wire!Take, NEW k \in 1 .. BLOCKS, InBlock(k)
  PROVE  /\ Len(Deciphered) = Len(data) + lens[k] /\ lens[k] \in Nat
         /\ Deciphered \in Seq(1 .. WireLength)
         /\ \A j \in 1 .. Len(Deciphered) : TextNumber(Deciphered[j]) = taken + j
         /\ wTaken' = Before[k + 1]
<1> DEFINE b == Before[k]
           n == lens[k]
           d == Len(data)
           W == 1 .. WireLength
           tail == SubSeq(wLast', 1, n)
<1>1. /\ b \in Nat /\ n \in Nat /\ Padded(n) \in Nat /\ n <= Padded(n) /\ n > 0
      /\ Before[k + 1] = b + 1 + Padded(n) /\ wTaken = b + 1 /\ recvlen = n
      /\ wWant = Padded(n) /\ taken + d = Text(1 .. b)
  <2>1. /\ b \in Nat /\ n \in Nat /\ Padded(n) \in Nat /\ n <= Padded(n)
        /\ Before[k + 1] = b + 1 + Padded(n)
    BY StreamFacts, BlockPlaces DEF IInv
  <2>2. wWant # 0
    BY Took, StreamFacts DEF IInv
  <2> QED  BY <2>1, <2>2 DEF InBlock
<1>2. d \in Nat /\ data \in Seq(W) /\ DOMAIN data = 1 .. d /\ taken \in Nat
  BY StreamFacts DEF IInv, TypeOK
<1>3. wLast' \in Seq(W) /\ wLast' = [j \in 1 .. Padded(n) |-> b + 1 + j] /\ wTaken' = Before[k + 1]
  BY <1>1, Took
<1>4. tail \in Seq(W) /\ Len(tail) = n /\ \A j \in 1 .. n : tail[j] = b + 1 + j
  <2> HIDE DEF b, n, W
  <2>1. Len(wLast') = Padded(n)
    BY <1>1, <1>3
  <2>2. tail \in Seq(W) /\ Len(tail) = n /\ \A j \in 1 .. n : tail[j] = wLast'[j]
    BY <1>1, <1>3, <2>1
  <2>3. \A j \in 1 .. n : wLast'[j] = b + 1 + j
    BY <1>1, <1>3
  <2> QED  BY <2>2, <2>3
<1>5. Deciphered = data \o tail
  BY <1>1 DEF Deciphered
<1>6. \A j \in 1 .. n : TextNumber(b + 1 + j) = taken + (d + j)
  <2>1. \A j \in 1 .. n : TextNumber(b + 1 + j) = Text(1 .. b) + j
    BY StreamFacts, TextNumbers DEF IInv
  <2>2. \A j \in 1 .. n : taken + d + j = taken + (d + j)
    <3> HIDE DEF n, d
    <3> QED  BY <1>1, <1>2
  <2> QED  BY <1>1, <2>1, <2>2
<1>7. \A j \in 1 .. d : TextNumber(data[j]) = taken + j
  BY <1>2 DEF IInv, Kept
<1> HIDE DEF b, n, d, W, tail
<1>8. Deciphered \in Seq(W) /\ Len(Deciphered) = d + n
  <2>1. ASSUME NEW S, NEW s \in Seq(S), NEW t \in Seq(S)
        PROVE  s \o t \in Seq(S) /\ Len(s \o t) = Len(s) + Len(t)
    BY <2>1
  <2> QED  BY <1>2, <1>4, <1>5, <2>1 DEF d
<1>9. ASSUME NEW j \in 1 .. d + n
      PROVE  TextNumber(Deciphered[j]) = taken + j
  <2>1. CASE j \in 1 .. d
    <3>1. Deciphered[j] = data[j]
      BY <1>2, <1>4, <1>5, <2>1 DEF d
    <3> QED  BY <3>1, <2>1, <1>7
  <2>2. CASE j \notin 1 .. d
    <3>1. j - d \in 1 .. n /\ d + (j - d) = j
      BY <1>1, <1>2, <1>9, <2>2
    <3>2. Deciphered[j] = tail[j - d]
      BY <1>2, <1>4, <1>5, <2>2, <1>9, <1>1 DEF d
    <3> QED  BY <3>1, <3>2, <1>4, <1>6
  <2> QED  BY <2>1, <2>2
<1> QED  BY <1>1, <1>3, <1>8, <1>9 DEF d, n, W

LEMMA BodyHolds ==
  ASSUME IInv, BodyArrives
  PROVE  IInv'
<1>1. /\ at = "body" /\ Wire!Take /\ lens' = lens
      /\ UNCHANGED <<peer, sendVars>> /\ WireLength' = WireLength
  BY SameStream DEF BodyArrives, peerVars
<1>2. CASE RecvFails
  <2>1. oom' \in 0 .. OOM
    BY BoundAssumption DEF BodyArrives, NoMemory, IInv, TypeOK
  <2> QED  BY <1>1, <1>2, <2>1, Took, FailedHolds DEF IInv, TypeOK
<1>3. CASE ~ RecvFails
  <2>1. data' = Deciphered /\ at' = "try"
        /\ UNCHANGED <<recvlen, recvdata, taken, want, last, broken, oom>>
    BY <1>3 DEF BodyArrives
  <2>2. PICK k \in 1 .. BLOCKS : InBlock(k)
    BY <1>1 DEF IInv, Aligned
  <2>3. /\ Len(Deciphered) = Len(data) + lens[k] /\ lens[k] \in Nat
        /\ Deciphered \in Seq(1 .. WireLength)
        /\ \A j \in 1 .. Len(Deciphered) : TextNumber(Deciphered[j]) = taken + j
        /\ wTaken' = Before[k + 1]
    BY <1>1, <2>2, DecipheredText
  <2>4. TypeOK'
    <3>1. at' \in Places
      BY <2>1 DEF Places, Receiving
    <3> QED  BY <1>1, <2>1, <2>3, <3>1, Took DEF IInv, TypeOK, sendVars
  <2>5. k + 1 \in 1 .. BLOCKS + 1 /\ k \in 1 .. BLOCKS + 1
    BY BoundAssumption
  <2>6. taken' + Len(data') = Text(1 .. Before[k + 1])
    <3>1. taken + Len(data) = Text(1 .. Before[k]) /\ Text(1 .. Before[k]) \in Nat
          /\ Text(1 .. Before[k + 1]) = Text(1 .. Before[k]) + lens[k]
      BY <2>2, <2>5, StreamFacts, TextBefore DEF InBlock, IInv
    <3>2. taken \in Nat /\ Len(data) \in Nat
      BY StreamFacts DEF IInv
    <3> QED  BY <2>1, <2>3, <3>1, <3>2
  <2>7. BeforeBlock(k + 1)'
    BY <1>1, <2>3, <2>6, SameStream
  <2>8. Aligned'
    BY <1>1, <2>1, <2>5, <2>7, Took DEF Aligned, Verifying, Handshaking
  <2>9. Pending'
    BY <1>1, <2>1 DEF IInv, Pending, Receiving, Verifying, Handshaking
  <2>10. Kept'
    <3>1. DOMAIN Deciphered = 1 .. Len(Deciphered)
      BY <2>3
    <3>2. \A j \in DOMAIN data' : TextNumber(data'[j]) = taken' + j
      BY <2>1, <2>3, <3>1
    <3>3. Before[k + 1] <= wArrived /\ wArrived \in Nat
      BY <1>1, <2>3, Took, StreamFacts DEF IInv
    <3>4. Text(1 .. Before[k + 1]) <= Text(WholeBlocks(wArrived))
      BY <2>5, <3>3, StreamFacts, ReadIsWhole DEF IInv
    <3>5. wArrived' = wArrived
      BY <1>1, Took
    <3> QED  BY <1>1, <2>6, <3>2, <3>4, <3>5, SameStream
  <2> QED  BY <2>4, <2>8, <2>9, <2>10 DEF IInv
<1> QED  BY <1>2, <1>3

LEMMA WireFailsHolds ==
  ASSUME IInv, WireFails
  PROVE  IInv'
<1>1. /\ RecvFails /\ lens' = lens /\ UNCHANGED <<wArrived, peer, sendVars, oom>>
      /\ wTaken' = wTaken /\ wWant' = 0 /\ wBroken' = TRUE /\ wLast' = <<>>
  BY DEF WireFails, Wire!Fail, peerVars
<1>2. wTaken' \in 0 .. wArrived /\ wWant' \in 0 .. MAX /\ wBroken' \in BOOLEAN
      /\ oom' \in 0 .. OOM
  BY <1>1, StreamFacts DEF IInv, TypeOK
<1>3. wLast' \in Seq(1 .. WireLength)
  <2>1. \A S : <<>> \in Seq(S)
    OBVIOUS
  <2> QED  BY <1>1, <2>1
<1> QED  BY <1>1, <1>2, <1>3, FailedHolds

\* What is written for n bytes of text.
LEMMA EncryptedFacts ==
  ASSUME handed \in Nat, NEW n \in Nat
  PROVE  /\ Encrypted(n) \in Seq(Nat) /\ Len(Encrypted(n)) = 1 + Padded(n)
         /\ Encrypted(n)[1] = n /\ Padded(n) \in Nat /\ n <= Padded(n)
         /\ \A j \in 1 .. n : Encrypted(n)[1 + j] = handed + j
<1> DEFINE t == [k \in 1 .. Padded(n) |-> IF k <= n THEN handed + k ELSE 0]
<1>1. Padded(n) \in Nat /\ n <= Padded(n)
  BY PaddedIs
<1>2. t \in Seq(Nat) /\ Len(t) = Padded(n)
  <2>1. \A k \in 1 .. Padded(n) : (IF k <= n THEN handed + k ELSE 0) \in Nat
    BY <1>1
  <2> QED  BY <1>1, <2>1
<1>3. \A j \in 1 .. n : t[j] = handed + j
  BY <1>1
<1>4. Encrypted(n) = <<n>> \o t
  BY DEF Encrypted
<1> HIDE DEF t
<1>5. ASSUME NEW s \in Seq(Nat)
      PROVE  /\ <<n>> \o s \in Seq(Nat) /\ Len(<<n>> \o s) = 1 + Len(s) /\ (<<n>> \o s)[1] = n
             /\ \A j \in 1 .. Len(s) : (<<n>> \o s)[1 + j] = s[j]
  BY <1>5
<1>6. \A j \in 1 .. n : j \in 1 .. Len(t)
  BY <1>1, <1>2
<1> QED  BY <1>1, <1>2, <1>3, <1>4, <1>5, <1>6

LEMMA SendFacts ==
  ASSUME TypeOK, NEW n \in CALLS
  PROVE  /\ n \in Nat /\ MAX \in Nat /\ (IF n > MAX THEN MAX ELSE n) \in Nat /\ handed \in Nat
BY LengthAssumption, UnitAssumption DEF TypeOK

Sending(c) == Send(c) \/ SendMore(c) \/ SendFails(c)

LEMMA Joined ==
  ASSUME NEW s \in Seq(Nat), NEW t \in Seq(Nat), NEW u \in Seq(Nat)
  PROVE  (s \o t) \o u = s \o (t \o u)
OBVIOUS

\* A block is written chunk by chunk.
LEMMA ChunkFacts ==
  ASSUME TypeOK, NEW c \in Senders, NEW s \in Seq(Nat), Chunk(c, s)
  PROVE  /\ out' \in Seq(Nat) /\ rest' \in [Senders -> Seq(Nat)]
         /\ \A d \in Senders \ {c} : rest'[d] = rest[d]
         /\ out' \o rest'[c] = out \o s
         /\ Len(out) < Len(out')
         /\ \E u \in Seq(Nat) : out' = out \o u
<1>1. PICK k \in 1 .. Len(s) :
        /\ out' = out \o SubSeq(s, 1, k)
        /\ rest' = [rest EXCEPT ![c] = SubSeq(s, k + 1, Len(s))]
  BY DEF Chunk
<1> DEFINE u == SubSeq(s, 1, k)
           v == SubSeq(s, k + 1, Len(s))
<1>2. u \in Seq(Nat) /\ v \in Seq(Nat) /\ Len(u) = k /\ k \in Nat /\ 0 < k
  OBVIOUS
<1>3. u \o v = s
  <2>1. SubSeq(s, 1, Len(s)) = s
    BY SubSeqFull
  <2>2. u \o v = SubSeq(s, 1, Len(s))
    BY ConcatAdjacentSubSeq
  <2> QED  BY <2>1, <2>2
<1>a. out \in Seq(Nat) /\ rest \in [Senders -> Seq(Nat)]
  BY DEF TypeOK
<1>5. out' = out \o u /\ rest' = [rest EXCEPT ![c] = v]
  BY <1>1
<1> HIDE DEF u, v
<1>4. out \in Seq(Nat) /\ u \in Seq(Nat) /\ v \in Seq(Nat)
  BY <1>2, <1>a
<1>6. out \o u \in Seq(Nat) /\ Len(out \o u) = Len(out) + k /\ Len(out) \in Nat
  <2>1. out \o u \in Seq(Nat) /\ Len(out \o u) = Len(out) + Len(u)
    BY <1>4, Concatenated
  <2>2. Len(out) \in Nat
    BY <1>4
  <2> QED  BY <1>2, <2>1, <2>2
<1>7. (out \o u) \o v = out \o s
  <2>2. (out \o u) \o v = out \o (u \o v)
    BY <1>4, Joined
  <2> QED  BY <1>3, <2>2
<1>8. rest'[c] = v /\ rest' \in [Senders -> Seq(Nat)] /\ \A d \in Senders \ {c} : rest'[d] = rest[d]
  BY <1>4, <1>a, <1>5
<1>9. Len(out) < Len(out')
  BY <1>2, <1>5, <1>6
<1> QED  BY <1>4, <1>5, <1>6, <1>7, <1>8, <1>9

LEMMA CountedTyped ==
  ASSUME NEW c \in Senders, Counted(c), whole \in Nat, lost' \in Nat, handed' \in Nat
  PROVE  whole' \in Nat
<1>1. CASE lost' = 0
  BY <1>1 DEF Counted
<1>2. CASE lost' # 0
  <2>1. ASSUME NEW x \in Nat, x # 0
        PROVE  x - 1 \in Nat
    BY <2>1
  <2>2. lost' - 1 \in Nat
    BY <1>2, <2>1
  <2> QED  BY <2>2, <1>2 DEF Counted
<1> QED  BY <1>1, <1>2

\* What a step of a sender is: the socket has gone, a chunk is refused, the
\* first chunk of a block is written or a later one.
SenderGives(c) ==
  \/ rest' = rest
  \/ rest[c] # <<>> /\ rest' = [rest EXCEPT ![c] = <<>>]
SocketGone(c) == gone' = TRUE /\ UNCHANGED <<out, handed, whole, lost>> /\ SenderGives(c)
Refused(c) ==
  /\ ~Dead /\ UNCHANGED <<out, gone, whole>> /\ lost' = whole + 1 /\ SenderGives(c)
  /\ handed' \in Nat
Starts(c, n) ==
  /\ ~Dead /\ gone' = gone /\ rest[c] = <<>> /\ handed' = handed + n
  /\ Chunk(c, Encrypted(IF n > MAX THEN MAX ELSE n))
  /\ lost' = (IF Behind(c) THEN whole + 1
              ELSE IF n > MAX /\ lost = 0 THEN handed + MAX + 1 ELSE lost)
  /\ Counted(c)
GoesOn(c) ==
  /\ ~Dead /\ UNCHANGED <<gone, handed, lost>> /\ rest[c] # <<>>
  /\ Chunk(c, rest[c]) /\ Counted(c)

LEMMA SendingIs ==
  ASSUME TypeOK, NEW c \in Senders, Sending(c)
  PROVE  SocketGone(c) \/ Refused(c) \/ (\E n \in CALLS : Starts(c, n)) \/ GoesOn(c)
<1>1. handed \in Nat /\ CALLS \subseteq Nat
  BY LengthAssumption DEF TypeOK
<1>2. CASE Send(c)
  <2>1. CASE gone' = TRUE /\ UNCHANGED <<out, rest, handed, whole, lost>>
    <3>1. rest' = rest /\ SenderGives(c)
      BY <2>1 DEF SenderGives
    <3>2. gone' = TRUE /\ UNCHANGED <<out, handed, whole, lost>>
      BY <2>1
    <3> QED  BY <3>1, <3>2 DEF SocketGone
  <2>2. CASE ~Dead /\ gone' = gone /\
             \E n \in CALLS :
               /\ handed' = handed + n
               /\ \/ lost' = whole + 1 /\ UNCHANGED <<out, rest, whole>>
                  \/ /\ Chunk(c, Encrypted(IF n > MAX THEN MAX ELSE n))
                     /\ lost' = (IF Behind(c) THEN whole + 1
                                 ELSE IF n > MAX /\ lost = 0 THEN handed + MAX + 1 ELSE lost)
                     /\ Counted(c)
    <3>1. PICK n \in CALLS :
               /\ handed' = handed + n
               /\ \/ lost' = whole + 1 /\ UNCHANGED <<out, rest, whole>>
                  \/ /\ Chunk(c, Encrypted(IF n > MAX THEN MAX ELSE n))
                     /\ lost' = (IF Behind(c) THEN whole + 1
                                 ELSE IF n > MAX /\ lost = 0 THEN handed + MAX + 1 ELSE lost)
                     /\ Counted(c)
      BY <2>2
    <3>2. handed' \in Nat
      BY <1>1, <3>1
    <3>3. CASE lost' = whole + 1 /\ UNCHANGED <<out, rest, whole>>
      <4>1. SenderGives(c)
        BY <3>3 DEF SenderGives
      <4>2. UNCHANGED <<out, gone, whole>> /\ lost' = whole + 1
        BY <2>2, <3>3
      <4> QED  BY <2>2, <3>2, <4>1, <4>2 DEF Refused
    <3>4. CASE /\ Chunk(c, Encrypted(IF n > MAX THEN MAX ELSE n))
               /\ lost' = (IF Behind(c) THEN whole + 1
                           ELSE IF n > MAX /\ lost = 0 THEN handed + MAX + 1 ELSE lost)
               /\ Counted(c)
      <4>1. rest[c] = <<>>
        BY <1>2 DEF Send
      <4>2. Starts(c, n)
        BY <2>2, <3>1, <3>4, <4>1 DEF Starts
      <4> QED  BY <4>2
    <3> QED  BY <3>1, <3>3, <3>4
  <2> QED  BY <1>2, <2>1, <2>2 DEF Send
<1>3. CASE SendMore(c)
  BY <1>3 DEF SendMore, GoesOn
<1>4. CASE SendFails(c)
  BY <1>1, <1>4 DEF SendFails, SocketGone, Refused, SenderGives
<1> QED  BY <1>2, <1>3, <1>4 DEF Sending

LEMMA SenderGivesTyped ==
  ASSUME TypeOK, NEW c \in Senders, SenderGives(c)
  PROVE  rest' \in [Senders -> Seq(Nat)]
<1>1. rest \in [Senders -> Seq(Nat)]
  BY DEF TypeOK
<1>2. <<>> \in Seq(Nat)
  OBVIOUS
<1>3. [rest EXCEPT ![c] = <<>>] \in [Senders -> Seq(Nat)]
  BY <1>1, <1>2
<1> QED  BY <1>1, <1>3 DEF SenderGives

LEMMA SendTyped ==
  ASSUME TypeOK, NEW c \in Senders, Sending(c)
  PROVE  /\ out' \in Seq(Nat) /\ rest' \in [Senders -> Seq(Nat)] /\ gone' \in BOOLEAN
         /\ {handed', whole', lost'} \subseteq Nat /\ sends' \in 0 .. SENDS
<1>1. /\ out \in Seq(Nat) /\ gone \in BOOLEAN
      /\ handed \in Nat /\ whole \in Nat /\ lost \in Nat /\ whole + 1 \in Nat
  BY DEF TypeOK
<1>2. sends' \in 0 .. SENDS
  <2>1. sends \in 0 .. SENDS /\ SENDS \in Nat
    BY BoundAssumption DEF TypeOK
  <2>2. sends' = sends \/ (sends < SENDS /\ sends' = sends + 1)
    <3>1. CASE Send(c)
      BY <3>1 DEF Send
    <3>2. CASE SendMore(c) \/ SendFails(c)
      BY <3>2 DEF SendMore, SendFails
    <3> QED  BY <3>1, <3>2 DEF Sending
  <2> QED  BY <2>1, <2>2
<1>3. CASE SocketGone(c)
  BY <1>1, <1>2, <1>3, SenderGivesTyped DEF SocketGone
<1>4. CASE Refused(c)
  BY <1>1, <1>2, <1>4, SenderGivesTyped DEF Refused
<1>5. ASSUME NEW n \in CALLS, Starts(c, n)
      PROVE  /\ out' \in Seq(Nat) /\ rest' \in [Senders -> Seq(Nat)] /\ gone' \in BOOLEAN
             /\ {handed', whole', lost'} \subseteq Nat /\ sends' \in 0 .. SENDS
  <2> DEFINE m == IF n > MAX THEN MAX ELSE n
  <2>1. n \in Nat /\ MAX \in Nat /\ m \in Nat
    BY SendFacts
  <2> HIDE DEF m
  <2>2. Encrypted(m) \in Seq(Nat)
    BY <1>1, <2>1, EncryptedFacts
  <2>3. out' \in Seq(Nat) /\ rest' \in [Senders -> Seq(Nat)]
    BY <1>5, <2>2, ChunkFacts DEF Starts, m
  <2>4. handed' \in Nat /\ lost' \in Nat /\ gone' \in BOOLEAN
    <3>1. handed + n \in Nat /\ handed + MAX + 1 \in Nat
      BY <1>1, <2>1
    <3> QED  BY <1>1, <1>5, <3>1 DEF Starts
  <2>5. whole' \in Nat
    BY <1>1, <1>5, <2>4, CountedTyped DEF Starts
  <2> QED  BY <1>2, <2>3, <2>4, <2>5
<1>6. CASE GoesOn(c)
  <2>1. rest[c] \in Seq(Nat)
    BY DEF TypeOK
  <2>2. out' \in Seq(Nat) /\ rest' \in [Senders -> Seq(Nat)]
    BY <1>6, <2>1, ChunkFacts DEF GoesOn
  <2>3. handed' \in Nat /\ lost' \in Nat /\ gone' \in BOOLEAN
    BY <1>1, <1>6 DEF GoesOn
  <2>4. whole' \in Nat
    BY <1>1, <1>6, <2>3, CountedTyped DEF GoesOn
  <2> QED  BY <1>2, <2>2, <2>3, <2>4
<1> QED  BY <1>3, <1>4, <1>5, <1>6, SendingIs

\* Sending does not touch what is received.
LEMMA SendHolds ==
  ASSUME IInv, (\E c \in Senders : Sending(c)) \/ SendFaults
  PROVE  IInv'
<1>1. UNCHANGED <<wireVars, peerVars, recvVars>> /\ lens' = lens /\ WireLength' = WireLength
      /\ at' \in {at, "reset"} /\ oom' \in 0 .. OOM
  <2>1. UNCHANGED <<wireVars, peerVars, recvVars>> /\ lens' = lens
    BY DEF Sending, Send, SendMore, SendFails, SendFaults, peerVars
  <2>2. oom' \in 0 .. OOM
    BY BoundAssumption DEF Sending, Send, SendMore, SendFails, SendFaults, NoMemory, IInv, TypeOK
  <2> QED  BY <2>1, <2>2, SameStream DEF Sending, Send, SendMore, SendFails, SendFaults
<1>2. /\ out' \in Seq(Nat) /\ rest' \in [Senders -> Seq(Nat)] /\ gone' \in BOOLEAN
      /\ {handed', whole', lost'} \subseteq Nat /\ sends' \in 0 .. SENDS
  <2>1. CASE \E c \in Senders : Sending(c)
    BY <2>1, SendTyped DEF IInv
  <2>2. CASE SendFaults
    <3>1. sends' \in 0 .. SENDS
      BY <2>2, BoundAssumption DEF SendFaults, IInv, TypeOK
    <3> QED  BY <2>2, <3>1 DEF SendFaults, IInv, TypeOK
  <2> QED  BY <2>1, <2>2
<1>3. TypeOK'
  <2>1. at' \in Places
    BY <1>1 DEF IInv, TypeOK, Places
  <2> QED  BY <1>1, <1>2, <2>1 DEF IInv, TypeOK, wireVars, peerVars, recvVars, textVars
<1>4. Kept'
  BY <1>1, KeptStays DEF IInv, wireVars, recvVars, textVars
<1>5. Pending'
  BY <1>1 DEF IInv, Pending, recvVars, textVars, Receiving, Verifying, Handshaking
<1>6. Aligned'
  <2>1. \A k : BeforeBlock(k) => BeforeBlock(k)'
    BY <1>1, SameStream DEF BeforeBlock, wireVars, recvVars, textVars
  <2>2. \A k : InBlock(k) => InBlock(k)'
    BY <1>1, SameStream DEF InBlock, wireVars, recvVars, textVars
  <2> QED  BY <1>1, <2>1, <2>2 DEF IInv, Aligned, wireVars, recvVars, textVars, Verifying, Handshaking
<1> QED  BY <1>3, <1>4, <1>5, <1>6 DEF IInv

LEMMA StutterHolds ==
  ASSUME IInv, UNCHANGED vars
  PROVE  IInv'
<1>1. UNCHANGED <<wireVars, peerVars, at, recvVars, sendVars, oom>> /\ lens' = lens
      /\ WireLength' = WireLength
  <2>1. UNCHANGED <<wireVars, peerVars, at, recvVars, sendVars, oom>> /\ lens' = lens
    BY DEF vars, peerVars
  <2> QED  BY <2>1, SameStream
<1>2. TypeOK'
  BY <1>1 DEF IInv, TypeOK, wireVars, peerVars, recvVars, textVars, sendVars
<1>3. Kept'
  BY <1>1, KeptStays DEF IInv, wireVars, recvVars, textVars
<1>4. Pending'
  BY <1>1 DEF IInv, Pending, recvVars, textVars
<1>5. Aligned'
  <2>1. \A k : BeforeBlock(k) => BeforeBlock(k)'
    BY <1>1, SameStream DEF BeforeBlock, wireVars, recvVars, textVars
  <2>2. \A k : InBlock(k) => InBlock(k)'
    BY <1>1, SameStream DEF InBlock, wireVars, recvVars, textVars
  <2> QED  BY <1>1, <2>1, <2>2 DEF IInv, Aligned, wireVars, recvVars, textVars
<1> QED  BY <1>2, <1>3, <1>4, <1>5 DEF IInv

LEMMA NextHolds == IInv /\ [Next]_vars => IInv'
<1> SUFFICES ASSUME IInv, [Next]_vars
             PROVE  IInv'
  OBVIOUS
<1>1. CASE Arrive
  BY <1>1, ArriveHolds
<1>2. CASE Greet \/ AskPeer \/ PeerAnswers \/ PeerFails \/ SendKey
  BY <1>2, VerifyHolds
<1>3. CASE Recv
  BY <1>3, RecvHolds
<1>4. CASE RecvStep
  BY <1>4, GetDataHolds, AskedHolds, HeaderHolds, AskBodyHolds, BodyHolds DEF RecvStep
<1>5. CASE WireFails
  BY <1>5, WireFailsHolds
<1>6. CASE (\E c \in Senders : Sending(c)) \/ SendFaults
  BY <1>6, SendHolds
<1>7. CASE UNCHANGED vars
  BY <1>7, StutterHolds
<1> QED  BY <1>1, <1>2, <1>3, <1>4, <1>5, <1>6, <1>7 DEF Next, Sending

\* Wherever the handshake or a Recv stands (PerformSslVerify, Recv), it stands at
\* its place in the peer's stream, and what it has kept is the text that comes next.
THEOREM SocketInvariant == Spec => []IInv
BY InitHolds, NextHolds, PTL DEF Spec

\* A length is read only where the peer has written one.
THEOREM LengthsInStep == Spec => []InStep
<1>1. IInv => InStep
  <2> SUFFICES ASSUME IInv, at = "header", wWant = 0
               PROVE  wTaken = WireLength \/ IsHeader(wTaken + 1)
    BY DEF IInv, InStep
  <2>1. PICK k \in 1 .. BLOCKS + 1 : BeforeBlock(k)
    BY DEF IInv, Aligned
  <2>2. CASE k = BLOCKS + 1
    BY <2>1, <2>2 DEF BeforeBlock, WireLength
  <2>3. CASE k \in 1 .. BLOCKS
    BY <2>1, <2>3, StreamFacts, HeaderWhere DEF BeforeBlock, IInv
  <2> QED  BY <2>2, <2>3, BoundAssumption
<1> QED  BY <1>1, SocketInvariant, PTL

----------------------------------------------------------------------------
LEMMA StreamStarts == Init => Stream!StreamInit
<1> SUFFICES ASSUME Init
             PROVE  Stream!StreamInit
  OBVIOUS
<1>1. IInv /\ wArrived = 0
  BY InitHolds DEF Init, Wire!StreamInit
<1>2. TextArrived = 0
  BY <1>1, StreamFacts, TextArrivedIs, TextArrivedFacts DEF IInv
<1> QED  BY <1>2 DEF Init, Stream!StreamInit

\* Bytes that arrive complete blocks, or do not.
LEMMA ArriveMaps ==
  ASSUME IInv, Arrive
  PROVE  [Stream!StreamNext]_Stream!streamVars
<1>1. /\ wArrived \in Nat /\ wArrived' \in Nat /\ wArrived < wArrived' /\ wArrived' <= BYTES
      /\ lens' = lens /\ UNCHANGED textVars /\ lens \in [1 .. BLOCKS -> Nat]
  BY StreamFacts, BoundAssumption DEF IInv, Arrive, Wire!Arrive, peerVars, recvVars
<1>2. /\ TextArrived \in Nat /\ TextArrived' \in Nat
      /\ TextArrived <= TextArrived' /\ TextArrived' <= wArrived'
  BY <1>1, TextArrivedIs, TextArrivedNext, TextArrivedFacts
<1>3. CASE TextArrived' = TextArrived
  BY <1>1, <1>3 DEF Stream!streamVars, textVars
<1>4. CASE TextArrived' # TextArrived
  <2>1. TextArrived' \in (TextArrived + 1) .. BYTES
    BY <1>1, <1>2, <1>4, BoundAssumption
  <2>2. Stream!Arrive
    BY <1>1, <2>1 DEF Stream!Arrive, textVars
  <2> QED  BY <2>2 DEF Stream!StreamNext
<1> QED  BY <1>3, <1>4

LEMMA RecvMaps ==
  ASSUME IInv, Recv
  PROVE  Stream!Ask
<1>1. TextArrived' = TextArrived
  BY TextArrivedIs, TextArrivedNext DEF Recv, wireVars, peerVars
<1>2. want = 0 /\ want' \in 1 .. MAXLEN
  BY LengthAssumption DEF IInv, Pending, Recv
<1> QED  BY <1>1, <1>2 DEF Recv, Stream!Ask

LEMMA GetDataMaps ==
  ASSUME IInv, GetData
  PROVE  Stream!Take
<1>1. TextArrived' = TextArrived
  BY TextArrivedIs, TextArrivedNext DEF GetData, wireVars, peerVars
<1>2. want > 0 /\ ~ broken
  BY DEF IInv, TypeOK, Pending, GetData, Receiving
<1> QED  BY <1>1, <1>2, HandedOver DEF GetData, Stream!Take

LEMMA FailMaps ==
  ASSUME IInv, RecvFails, at \in Receiving, lens' = lens, wArrived' = wArrived
  PROVE  Stream!Fail
<1>1. TextArrived' = TextArrived
  BY TextArrivedIs, TextArrivedNext
<1>2. want > 0
  BY DEF IInv, Pending
<1>3. taken' \in taken .. TextArrived
  <2>1. taken + Len(data) <= TextArrived /\ taken \in Nat /\ Len(data) \in Nat /\ taken' = taken
    BY StreamFacts DEF IInv, Kept, RecvFails
  <2>2. TextArrived \in Nat
    BY StreamFacts, TextArrivedIs, TextArrivedFacts DEF IInv
  <2> QED  BY <2>1, <2>2
<1> QED  BY <1>1, <1>2, <1>3 DEF RecvFails, Stream!Fail

LEMMA QuietMaps ==
  ASSUME lens' = lens, wArrived' = wArrived, UNCHANGED <<taken, want, last, broken>>
  PROVE  UNCHANGED Stream!streamVars
BY TextArrivedIs, TextArrivedNext DEF Stream!streamVars

LEMMA StepMaps == IInv /\ [Next]_vars => [Stream!StreamNext]_Stream!streamVars
<1> SUFFICES ASSUME IInv, [Next]_vars
             PROVE  [Stream!StreamNext]_Stream!streamVars
  OBVIOUS
<1>1. CASE Arrive
  BY <1>1, ArriveMaps
<1>2. CASE Greet \/ AskPeer \/ PeerAnswers \/ PeerFails \/ SendKey
  <2>1. lens' = lens /\ wArrived' = wArrived /\ UNCHANGED recvVars
    BY <1>2, VerifyTyped DEF Greet, AskPeer, PeerAnswers, PeerFails, SendKey
  <2> QED  BY <2>1, QuietMaps DEF recvVars, textVars
<1>3. CASE Recv
  BY <1>3, RecvMaps DEF Stream!StreamNext
<1>4. CASE GetData
  BY <1>4, GetDataMaps DEF Stream!StreamNext
<1>5. CASE GetDataFails \/ AskHeader \/ AskBody
  BY <1>5, QuietMaps
  DEF GetDataFails, AskHeader, AskBody, wireVars, peerVars, recvVars, textVars, Wire!Ask
<1>6. CASE HeaderArrives \/ BodyArrives \/ WireFails
  <2>1. /\ lens' = lens /\ wArrived' = wArrived /\ at \in Receiving
        /\ RecvFails \/ UNCHANGED <<taken, want, last, broken>>
    BY <1>6 DEF HeaderArrives, BodyArrives, WireFails, peerVars, textVars, Wire!Take, Wire!Fail, Receiving
  <2> QED  BY <2>1, FailMaps, QuietMaps DEF Stream!StreamNext
<1>7. CASE (\E c \in Senders : Sending(c)) \/ SendFaults
  BY <1>7, QuietMaps
  DEF Sending, Send, SendMore, SendFails, SendFaults, wireVars, peerVars, recvVars, textVars
<1>8. CASE UNCHANGED vars
  BY <1>8, QuietMaps DEF vars, wireVars, peerVars, recvVars, textVars
<1> QED  BY <1>1, <1>2, <1>3, <1>4, <1>5, <1>6, <1>7, <1>8 DEF Next, RecvStep, Sending

\* Recv hands the peer's text over in order, exactly as many bytes as were asked
\* for, and fails for good: it implements what AnySocket promises, over a socket
\* that does (ByteStream below and above).
THEOREM SecureStream == Spec => RecvIsStream
BY SocketInvariant, StreamStarts, StepMaps, PTL DEF Spec, RecvIsStream, Stream!StreamSpec
----------------------------------------------------------------------------
(***************************************************************************)
(* What is written to the peer.                                            *)
(***************************************************************************)
\* The first m blocks of w: block i begins at b[i] and holds the text that
\* follows the first d[i] bytes.
Sent(w, m, b, d) ==
  /\ b[0] = 1 /\ d[0] = 0
  /\ \A i \in 0 .. m - 1 :
       /\ b[i] \in 1 .. Len(w)
       /\ b[i + 1] = b[i] + 1 + Padded(w[b[i]])
       /\ d[i + 1] = d[i] + w[b[i]]
       /\ \A j \in 1 .. w[b[i]] : w[b[i] + j] = d[i] + j
  /\ \A i \in 0 .. m : b[i] \in 1 .. Len(w) + 1 /\ d[i] \in Nat

\* No whole block begins at p.
Ended(p) == p > Len(out) \/ p + Padded(out[p]) > Len(out)

\* The whole blocks hold the first bytes of the text.  Behind them something is
\* out of its place, or the socket is gone, or there is nothing, or c is writing
\* the next block.
Torn(m, b, d) == Sent(out, m, b, d) /\ d[m] = whole /\ lost = whole + 1
Stuck(m, b, d) == Sent(out, m, b, d) /\ d[m] = whole /\ Dead /\ Ended(b[m])
Between(m, b, d) ==
  /\ Sent(out, m, b, d) /\ d[m] = whole /\ b[m] = Len(out) + 1
  /\ lost = 0 /\ handed = whole
  /\ \A c \in Senders : rest[c] = <<>>
Within(c, m, b, d) ==
  /\ Sent(out, m, b, d) /\ d[m] = whole /\ b[m] <= Len(out)
  /\ Sent(out \o rest[c], m + 1, b, d) /\ b[m + 1] = Len(out \o rest[c]) + 1
  /\ IF lost = 0 THEN handed = d[m + 1] ELSE lost = d[m + 1] + 1
  /\ rest[c] # <<>> /\ \A e \in Senders \ {c} : rest[e] = <<>>

Written ==
  \E m \in Nat : \E b, d :
    \/ Torn(m, b, d)
    \/ Stuck(m, b, d)
    \/ Between(m, b, d)
    \/ \E c \in Senders : Within(c, m, b, d)

\* Decoded's function exists.
LEMMA DecodedDefined ==
  ASSUME out \in Seq(Nat)
  PROVE  \E from :
           /\ Decoded = from[1]
           /\ from = [p \in 1 .. Len(out) + 1 |->
                        IF p > Len(out) \/ p + Padded(out[p]) > Len(out)
                        THEN <<>>
                        ELSE SubSeq(out, p + 1, p + out[p]) \o from[p + 1 + Padded(out[p])]]
<1> DEFINE L == Len(out)
           Ends(p) == p > L \/ p + Padded(out[p]) > L
           Step(p, s) == SubSeq(out, p + 1, p + out[p]) \o s
           Next1(p) == p + 1 + Padded(out[p])
           Is(f, a) == f = [p \in a .. L + 1 |->
                              IF Ends(p) THEN <<>> ELSE Step(p, f[Next1(p)])]
           T == {n \in Nat : n <= L /\ ~ \E f : Is(f, L + 1 - n)}
<1>1. L \in Nat
  OBVIOUS
<1>2. Decoded = (CHOOSE f : Is(f, 1))[1]
  BY DEF Decoded
<1>3. \A p \in 1 .. L + 1 : ~ Ends(p) => Next1(p) \in p + 1 .. L + 1
  <2> TAKE p \in 1 .. L + 1
  <2> SUFFICES ASSUME ~ Ends(p)
               PROVE  Next1(p) \in p + 1 .. L + 1
    OBVIOUS
  <2>1. ~ (p > L) /\ ~ (p + Padded(out[p]) > L)
    OBVIOUS
  <2>2. p \in 1 .. L
    <3> HIDE DEF L
    <3> QED  BY <1>1, <2>1
  <2>3. out[p] \in Nat
    BY <2>2
  <2>4. Padded(out[p]) \in Nat
    BY <2>3, PaddedIs
  <2> HIDE DEF L
  <2> QED  BY <1>1, <2>1, <2>2, <2>4
<1>4. Ends(L + 1)
  <2> HIDE DEF L
  <2> QED  BY <1>1
<1> HIDE DEF L, Ends, Step, Next1
<1>5. ASSUME T # {}
      PROVE  FALSE
  <2>1. PICK n \in T : \A i \in T : n <= i
    <3> HIDE DEF T
    <3>1. T \in SUBSET Nat
      BY DEF T
    <3> QED  BY <1>5, <3>1, LeastNat
  <2>2. n # 0
    <3> DEFINE e == [p \in L + 1 .. L + 1 |-> <<>>]
    <3>1. \A p \in L + 1 .. L + 1 : p = L + 1
      BY <1>1
    <3>2. Is(e, L + 1)
      BY <3>1, <1>4
    <3>3. L + 1 - 0 = L + 1
      BY <1>1
    <3> QED  BY <2>1, <3>2, <3>3
  <2>3. n \in Nat /\ n - 1 \in Nat /\ n <= L /\ ~ (n <= n - 1) /\ n - 1 <= L
    <3>1. n \in Nat /\ n <= L
      BY <2>1
    <3> QED  BY <3>1, <2>2, <1>1
  <2>4. n - 1 \notin T
    <3> HIDE DEF T
    <3> QED  BY <2>1, <2>3
  <2> DEFINE a == L + 1 - n
  <2>5. PICK f : Is(f, a + 1)
    <3>1. \E f : Is(f, L + 1 - (n - 1))
      BY <2>3, <2>4
    <3>2. L + 1 - (n - 1) = a + 1
      BY <2>3, <1>1
    <3> HIDE DEF Is, a
    <3> QED  BY <3>1, <3>2
  <2>6. a \in 1 .. L + 1 /\ a + 1 \in 1 .. L + 1
    BY <2>2, <2>3, <1>1
  <2> DEFINE g == [p \in a .. L + 1 |-> IF Ends(p) THEN <<>> ELSE Step(p, f[Next1(p)])]
  <2>7. \A p \in a + 1 .. L + 1 : p \in a .. L + 1 /\ g[p] = f[p]
    <3>1. \A p \in a + 1 .. L + 1 : p \in a .. L + 1
      <4> HIDE DEF a
      <4> QED  BY <2>6, <1>1
    <3> HIDE DEF a
    <3> QED  BY <3>1, <2>5
  <2>8. ASSUME NEW p \in a .. L + 1, ~ Ends(p)
        PROVE  g[Next1(p)] = f[Next1(p)]
    <3>1. p \in 1 .. L + 1
      <4> HIDE DEF a
      <4> QED  BY <2>6, <1>1
    <3>2. Next1(p) \in p + 1 .. L + 1
      BY <3>1, <1>3, <2>8
    <3>3. Next1(p) \in a + 1 .. L + 1
      <4> HIDE DEF a
      <4> QED  BY <3>1, <3>2, <2>6, <1>1
    <3> HIDE DEF g, a
    <3> QED  BY <3>3, <2>7
  <2>9. Is(g, a)
    <3> HIDE DEF a
    <3> QED  BY <2>8
  <2> HIDE DEF Is
  <2> QED  BY <2>9, <2>1
<1>6. \E f : Is(f, 1)
  <2>1. L \notin T /\ L + 1 - L = 1 /\ L <= L
    <3> HIDE DEF T
    <3> QED  BY <1>5, <1>1
  <2> HIDE DEF Is
  <2> QED  BY <2>1, <1>1
<1>7. Is(CHOOSE f : Is(f, 1), 1)
  <2> HIDE DEF Is
  <2> QED  BY <1>6
<1> QED  BY <1>2, <1>7 DEF Is, L, Ends, Step, Next1

\* What is read from any place on is a sequence.
LEMMA ReadIsSeq ==
  ASSUME out \in Seq(Nat), NEW from,
         from = [p \in 1 .. Len(out) + 1 |->
                   IF p > Len(out) \/ p + Padded(out[p]) > Len(out)
                   THEN <<>>
                   ELSE SubSeq(out, p + 1, p + out[p]) \o from[p + 1 + Padded(out[p])]]
  PROVE  \A p \in 1 .. Len(out) + 1 : from[p] \in Seq(Nat)
<1>a. PICK L \in Nat : L = Len(out)
  OBVIOUS
<1> DEFINE T == {n \in Nat : n <= L /\ from[L + 1 - n] \notin Seq(Nat)}
<1>1. ASSUME NEW p \in 1 .. L + 1, \A q \in p + 1 .. L + 1 : from[q] \in Seq(Nat)
      PROVE  from[p] \in Seq(Nat)
  <2>1. CASE Ended(p)
    <3>1. from[p] = <<>>
      BY <1>a, <2>1 DEF Ended
    <3>2. <<>> \in Seq(Nat)
      OBVIOUS
    <3> QED  BY <3>1, <3>2
  <2>2. CASE ~ Ended(p)
    <3> DEFINE n == out[p]
               x == Padded(n)
    <3>1. ~ (p > L) /\ ~ (p + x > L)
      BY <1>a, <2>2 DEF Ended
    <3>2. p \in 1 .. L
      <4> HIDE DEF x
      <4> QED  BY <3>1
    <3>3. n \in Nat
      BY <1>a, <3>2
    <3>4. x \in Nat /\ n <= x
      <4> HIDE DEF n
      <4> QED  BY <3>3, PaddedIs
    <3>5. from[p] = SubSeq(out, p + 1, p + n) \o from[p + 1 + x]
      BY <1>a, <2>2 DEF Ended
    <3> HIDE DEF n, x
    <3>6. p + 1 + x \in p + 1 .. L + 1 /\ p + n <= L /\ p \in Nat
      BY <3>1, <3>2, <3>3, <3>4
    <3>7. SubSeq(out, p + 1, p + n) \in Seq(Nat)
      <4>1. \A k \in p + 1 .. p + n : k \in 1 .. L
        BY <3>2, <3>3, <3>6
      <4>2. \A k \in p + 1 .. p + n : out[k] \in Nat
        BY <1>a, <4>1
      <4>3. p + 1 \in Int /\ p + n \in Int
        BY <3>3, <3>6
      <4> QED  BY <4>2, <4>3, SubSeqProperties
    <3>8. from[p + 1 + x] \in Seq(Nat)
      BY <1>1, <3>6
    <3> QED  BY <3>5, <3>7, <3>8, Concatenated
  <2> QED  BY <2>1, <2>2
<1>2. ASSUME T # {}
      PROVE  FALSE
  <2>1. PICK n \in T : \A i \in T : n <= i
    <3> HIDE DEF T
    <3>1. T \in SUBSET Nat
      BY DEF T
    <3> QED  BY <1>2, <3>1, LeastNat
  <2> DEFINE a == L + 1 - n
  <2>2. n \in Nat /\ n <= L /\ from[a] \notin Seq(Nat)
    BY <2>1
  <2>3. a \in 1 .. L + 1
    BY <2>2
  <2>4. ASSUME NEW q \in a + 1 .. L + 1
        PROVE  from[q] \in Seq(Nat)
    <3> DEFINE k == L + 1 - q
    <3>1. k \in Nat /\ k <= L /\ ~ (n <= k) /\ L + 1 - k = q
      BY <2>2
    <3>2. k \notin T
      <4> HIDE DEF T, k
      <4> QED  BY <2>1, <3>1
    <3> HIDE DEF k
    <3> QED  BY <3>1, <3>2
  <2> HIDE DEF a
  <2> QED  BY <1>1, <2>2, <2>3, <2>4
<1>3. ASSUME NEW p \in 1 .. L + 1
      PROVE  from[p] \in Seq(Nat)
  <2> DEFINE k == L + 1 - p
  <2>1. k \in Nat /\ k <= L /\ L + 1 - k = p
    OBVIOUS
  <2>2. k \notin T
    <3> HIDE DEF T, k
    <3> QED  BY <1>2
  <2> HIDE DEF k
  <2> QED  BY <2>1, <2>2
<1> QED  BY <1>a, <1>3

\* Reading from the beginning of block i gives at least the text behind its first
\* d[i] bytes, and nothing else if no whole block follows the last.
LEMMA WrittenIsDecoded ==
  ASSUME out \in Seq(Nat), NEW m \in Nat, NEW b, NEW d,
         Sent(out, m, b, d)
  PROVE  /\ Decoded \in Seq(Nat) /\ Len(Decoded) >= d[m]
         /\ \A k \in 1 .. d[m] : Decoded[k] = k
         /\ Ended(b[m]) => Len(Decoded) = d[m]
<1>1. PICK from :
        /\ Decoded = from[1]
        /\ from = [p \in 1 .. Len(out) + 1 |->
                     IF p > Len(out) \/ p + Padded(out[p]) > Len(out)
                     THEN <<>>
                     ELSE SubSeq(out, p + 1, p + out[p]) \o from[p + 1 + Padded(out[p])]]
  BY DecodedDefined
<1> DEFINE D == d[m]
           E == Ended(b[m])
           Reads(i) == /\ from[b[i]] \in Seq(Nat)
                       /\ d[i] + Len(from[b[i]]) >= D
                       /\ \A k \in Nat \ {0} : d[i] + k <= D => from[b[i]][k] = d[i] + k
                       /\ E => d[i] + Len(from[b[i]]) = D
           T == {n \in Nat : n <= m /\ ~ Reads(m - n)}
<1>2. /\ \A i \in 0 .. m : b[i] \in 1 .. Len(out) + 1 /\ d[i] \in Nat
      /\ D \in Nat
  BY DEF Sent
<1>3. Reads(m)
  <2>1. m \in 0 .. m /\ b[m] \in 1 .. Len(out) + 1
    BY <1>2
  <2>2. from[b[m]] \in Seq(Nat)
    BY <1>1, <2>1, ReadIsSeq
  <2>3. Len(from[b[m]]) \in Nat
    BY <2>2
  <2>4. ASSUME E
        PROVE  Len(from[b[m]]) = 0
    <3>1. from[b[m]] = <<>>
      BY <1>1, <2>1, <2>4 DEF Ended
    <3> QED  BY <3>1
  <2> HIDE DEF E
  <2>5. \A k \in Nat \ {0} : ~ (D + k <= D)
    BY <1>2
  <2>6. D + Len(from[b[m]]) >= D
    BY <1>2, <2>3
  <2>7. E => D + Len(from[b[m]]) = D
    BY <1>2, <2>4
  <2> QED  BY <2>2, <2>5, <2>6, <2>7
<1>4. ASSUME NEW i \in 0 .. m - 1, Reads(i + 1)
      PROVE  Reads(i)
  <2> DEFINE p == b[i]
             n == out[p]
             q == b[i + 1]
             s == SubSeq(out, p + 1, p + n)
             t == from[q]
             f == d[i]
  <2>1. i \in 0 .. m /\ i + 1 \in 0 .. m
    OBVIOUS
  <2>2. /\ p \in 1 .. Len(out) + 1 /\ q = p + 1 + Padded(n) /\ q <= Len(out) + 1 /\ q \in Nat
        /\ d[i + 1] = f + n /\ \A j \in 1 .. n : out[p + j] = f + j
    <3>1. p \in 1 .. Len(out) + 1 /\ q \in 1 .. Len(out) + 1
      BY <1>2, <2>1
    <3>2. \A x \in 1 .. Len(out) + 1 : x <= Len(out) + 1 /\ x \in Nat
      OBVIOUS
    <3>3. /\ q = p + 1 + Padded(n)
          /\ d[i + 1] = f + n /\ \A j \in 1 .. n : out[p + j] = f + j
      BY DEF Sent
    <3> HIDE DEF p, q, n, f
    <3> QED  BY <3>1, <3>2, <3>3
  <2>3. p \in 1 .. Len(out) /\ n \in Nat /\ Padded(n) \in Nat /\ n <= Padded(n)
        /\ p + Padded(n) <= Len(out)
    <3>2. p \in 1 .. Len(out)
      BY DEF Sent
    <3>3. n \in Nat
      <4> HIDE DEF p
      <4> QED  BY <3>2
    <3>4. Padded(n) \in Nat /\ n <= Padded(n)
      <4> HIDE DEF n
      <4> QED  BY <3>3, PaddedIs
    <3> HIDE DEF p, n, q
    <3> QED  BY <2>2, <3>2, <3>3, <3>4
  <2>4. from[p] = s \o t
    <3>1. ~ (p > Len(out)) /\ ~ (p + Padded(n) > Len(out))
      <4> HIDE DEF p, n
      <4> QED  BY <2>3
    <3>2. from[p] = SubSeq(out, p + 1, p + out[p]) \o from[p + 1 + Padded(out[p])]
      <4>1. p \in 1 .. Len(out) + 1
        BY <2>2
      <4> HIDE DEF p
      <4> QED  BY <1>1, <3>1, <4>1 DEF n
    <3> QED  BY <2>2, <3>2
  <2>5. s \in Seq(Nat) /\ Len(s) = n /\ \A j \in 1 .. n : s[j] = f + j
    <3>1. ASSUME NEW w \in Seq(Nat), NEW a \in 1 .. Len(w), NEW c \in Nat, a + c <= Len(w)
          PROVE  /\ SubSeq(w, a + 1, a + c) \in Seq(Nat) /\ Len(SubSeq(w, a + 1, a + c)) = c
                 /\ \A j \in 1 .. c : SubSeq(w, a + 1, a + c)[j] = w[a + j]
      BY <3>1
    <3>2. p + n <= Len(out)
      <4> HIDE DEF p, n
      <4> QED  BY <2>3
    <3> HIDE DEF p, n, f
    <3> QED  BY <2>2, <2>3, <3>1, <3>2
  <2>6. /\ t \in Seq(Nat) /\ f + n + Len(t) >= D
        /\ \A k \in Nat \ {0} : f + n + k <= D => t[k] = f + n + k
        /\ E => f + n + Len(t) = D
    BY <1>4, <2>2
  <2>a. f \in Nat /\ n \in Nat /\ D \in Nat
    BY <1>2, <2>1, <2>3
  <2> HIDE DEF p, n, q, s, t, D, E, f
  <2>7. s \o t \in Seq(Nat) /\ Len(s \o t) = n + Len(t)
    BY <2>5, <2>6, Concatenated
  <2>b. PICK l \in Nat : l = Len(t)
    BY <2>6
  <2>8. f + Len(s \o t) >= D /\ (E => f + Len(s \o t) = D)
    <3>1. f + (n + l) = f + n + l
      BY <2>a
    <3> QED  BY <2>6, <2>7, <2>b, <3>1
  <2>9. ASSUME NEW k \in Nat \ {0}, f + k <= D
        PROVE  (s \o t)[k] = f + k
    <3>0. k <= n + l /\ k >= 1
      BY <2>6, <2>9, <2>a, <2>b
    <3>1. CASE k <= n
      <4>1. k \in 1 .. n
        BY <2>a, <3>0, <3>1
      <4> QED  BY <2>5, <2>6, <4>1, Concatenated
    <3>2. CASE ~ (k <= n)
      <4>1. /\ k - n \in Nat \ {0} /\ f + n + (k - n) = f + k
            /\ k \in n + 1 .. n + l
        BY <2>a, <3>0, <3>2
      <4>2. (s \o t)[k] = t[k - n]
        BY <2>5, <2>6, <2>b, <4>1, Concatenated
      <4>3. t[k - n] = f + n + (k - n)
        BY <2>6, <2>9, <4>1
      <4> QED  BY <4>1, <4>2, <4>3
    <3> QED  BY <3>1, <3>2
  <2> QED  BY <2>4, <2>7, <2>8, <2>9 DEF p, f
<1> HIDE DEF Reads
<1>5. ASSUME T # {}
      PROVE  FALSE
  <2>1. PICK n \in T : \A i \in T : n <= i
    <3> HIDE DEF T
    <3>1. T \in SUBSET Nat
      BY DEF T
    <3> QED  BY <1>5, <3>1, LeastNat
  <2>2. n # 0
    <3>1. m - 0 = m
      OBVIOUS
    <3> QED  BY <2>1, <3>1, <1>3
  <2>3. n \in Nat /\ n <= m /\ n - 1 \in Nat /\ n - 1 <= m /\ ~ (n <= n - 1)
    <3>1. n \in Nat /\ n <= m
      BY <2>1
    <3> QED  BY <3>1, <2>2
  <2>4. n - 1 \notin T
    <3> HIDE DEF T
    <3> QED  BY <2>1, <2>3
  <2>5. Reads(m - (n - 1))
    BY <2>3, <2>4
  <2>6. m - (n - 1) = (m - n) + 1 /\ m - n \in 0 .. m - 1
    BY <2>2, <2>3
  <2>7. Reads(m - n)
    BY <2>5, <2>6, <1>4
  <2> QED  BY <2>1, <2>7
<1>6. Reads(0)
  <2>1. m \notin T
    <3> HIDE DEF T
    <3> QED  BY <1>5
  <2>2. m <= m /\ m - m = 0
    OBVIOUS
  <2> QED  BY <2>1, <2>2
<1> HIDE DEF T
<1>7. /\ Decoded \in Seq(Nat) /\ 0 + Len(Decoded) >= D
      /\ \A k \in Nat \ {0} : 0 + k <= D => Decoded[k] = 0 + k
      /\ E => 0 + Len(Decoded) = D
  <2>1. Decoded = from[b[0]] /\ d[0] = 0
    BY <1>1 DEF Sent
  <2> QED  BY <1>6, <2>1 DEF Reads
<1>8. Len(Decoded) \in Nat
  BY <1>7
<1> DEFINE l == Len(Decoded)
           g == Decoded
<1> HIDE DEF l, g, D, E
<1>9. /\ g \in Seq(Nat) /\ l >= D /\ (E => l = D)
      /\ \A k \in 1 .. D : g[k] = k
  <2>1. /\ 0 + l >= D
        /\ \A k \in Nat \ {0} : 0 + k <= D => g[k] = 0 + k
        /\ E => 0 + l = D
    BY <1>7 DEF l, g
  <2>2. l \in Nat /\ D \in Nat
    BY <1>2, <1>8 DEF l
  <2>3. \A k \in 1 .. D : k \in Nat \ {0} /\ 0 + k <= D /\ 0 + k = k
    BY <2>2
  <2>4. 0 + l = l
    BY <2>2
  <2> QED  BY <1>7, <2>1, <2>3, <2>4 DEF g
<1> QED  BY <1>9 DEF l, g, D, E

LEMMA WrittenBlocks ==
  ASSUME NEW w \in Seq(Nat), NEW m \in Nat, NEW b, NEW d,
         Sent(w, m, b, d), NEW i \in 0 .. m - 1
  PROVE  /\ b[i] \in 1 .. Len(w) /\ w[b[i]] \in Nat
         /\ \A j \in 1 .. w[b[i]] : b[i] + j \in 1 .. Len(w)
<1>1. b[i] \in 1 .. Len(w) /\ w[b[i]] \in Nat
  <2>1. b[i] \in 1 .. Len(w)
    BY DEF Sent
  <2>2. \A p \in 1 .. Len(w) : w[p] \in Nat
    OBVIOUS
  <2> QED  BY <2>1, <2>2
<1>2. b[i + 1] = b[i] + 1 + Padded(w[b[i]]) /\ b[i + 1] <= Len(w) + 1
      /\ Padded(w[b[i]]) \in Nat /\ w[b[i]] <= Padded(w[b[i]])
  <2>1. i + 1 \in 0 .. m
    OBVIOUS
  <2>2. b[i + 1] = b[i] + 1 + Padded(w[b[i]]) /\ b[i + 1] \in 1 .. Len(w) + 1
    BY <2>1 DEF Sent
  <2>3. Padded(w[b[i]]) \in Nat /\ w[b[i]] <= Padded(w[b[i]])
    BY <1>1, PaddedIs
  <2> QED  BY <2>2, <2>3
<1>3. ASSUME NEW p \in Nat, NEW n \in Nat, NEW x \in Nat, NEW l \in Nat, NEW j \in 1 .. n,
             p + 1 + x <= l + 1, n <= x
      PROVE  p + j \in 1 .. l
  BY <1>3
<1>4. Len(w) \in Nat /\ b[i] \in Nat
  BY <1>1
<1> QED  BY <1>1, <1>2, <1>3, <1>4

\* Writing more behind them leaves the blocks what they are.
LEMMA MoreWritten ==
  ASSUME NEW w \in Seq(Nat), NEW m \in Nat, NEW b, NEW d,
         Sent(w, m, b, d), NEW s \in Seq(Nat)
  PROVE  Sent(w \o s, m, b, d)
<1> DEFINE x == w \o s
<1>1. /\ Len(x) = Len(w) + Len(s) /\ Len(w) \in Nat /\ Len(s) \in Nat
      /\ \A p \in 1 .. Len(w) : x[p] = w[p]
  BY Concatenated
<1> HIDE DEF x
<1>2. \A i \in 0 .. m : b[i] \in 1 .. Len(x) + 1 /\ d[i] \in Nat
  <2>1. \A p \in 1 .. Len(w) + 1 : p \in 1 .. Len(x) + 1
    BY <1>1
  <2> QED  BY <2>1 DEF Sent
<1>3. ASSUME NEW i \in 0 .. m - 1
      PROVE  /\ b[i] \in 1 .. Len(x) /\ x[b[i]] = w[b[i]]
             /\ \A j \in 1 .. x[b[i]] : x[b[i] + j] = w[b[i] + j]
  <2>1. b[i] \in 1 .. Len(w) /\ \A j \in 1 .. w[b[i]] : b[i] + j \in 1 .. Len(w)
    BY WrittenBlocks
  <2>2. \A p \in 1 .. Len(w) : p \in 1 .. Len(x) /\ x[p] = w[p]
    BY <1>1
  <2> QED  BY <2>1, <2>2
<1>4. ASSUME NEW i \in 0 .. m - 1
      PROVE  /\ b[i + 1] = b[i] + 1 + Padded(x[b[i]])
             /\ d[i + 1] = d[i] + x[b[i]]
             /\ \A j \in 1 .. x[b[i]] : x[b[i] + j] = d[i] + j
  BY <1>3 DEF Sent
<1>5. Sent(x, m, b, d)
  BY <1>2, <1>3, <1>4 DEF Sent
<1> QED  BY <1>5 DEF x

\* A block written whole is one more.
LEMMA OneMoreWritten ==
  ASSUME NEW w \in Seq(Nat), NEW m \in Nat, NEW b, NEW d,
         Sent(w, m, b, d), b[m] = Len(w) + 1,
         NEW n \in Nat, NEW s \in Seq(Nat), Len(s) = 1 + Padded(n), s[1] = n,
         \A j \in 1 .. n : s[1 + j] = d[m] + j
  PROVE  \E c, e : /\ Sent(w, m, c, e) /\ c[m] = b[m] /\ e[m] = d[m]
                   /\ Sent(w \o s, m + 1, c, e)
                   /\ c[m + 1] = Len(w \o s) + 1 /\ e[m + 1] = d[m] + n
<1> DEFINE x == w \o s
           L == Len(w)
           h == d[m]
           p == Padded(n)
           c == [i \in 0 .. m + 1 |-> IF i = m + 1 THEN L + 2 + p ELSE b[i]]
           e == [i \in 0 .. m + 1 |-> IF i = m + 1 THEN h + n ELSE d[i]]
<1>1. L \in Nat /\ h \in Nat /\ p \in Nat /\ n <= p
  <2>1. m \in 0 .. m
    OBVIOUS
  <2>2. h \in Nat
    BY <2>1 DEF Sent
  <2> QED  BY <2>2, PaddedIs
<1>2. /\ Len(x) = L + Len(s) /\ x \in Seq(Nat)
      /\ \A k \in L + 1 .. L + Len(s) : x[k] = s[k - L]
  BY Concatenated
<1>3. Sent(x, m, b, d)
  BY MoreWritten
<1>4. /\ c[m + 1] = L + 2 + p /\ e[m + 1] = h + n
      /\ \A i \in 0 .. m : c[i] = b[i] /\ e[i] = d[i]
  <2>1. m + 1 \in 0 .. m + 1 /\ \A i \in 0 .. m : i \in 0 .. m + 1 /\ i # m + 1
    OBVIOUS
  <2> HIDE DEF L, h, p
  <2> QED  BY <2>1
<1>a. Len(s) = 1 + p /\ s[1] = n /\ b[m] = L + 1 /\ \A j \in 1 .. n : s[1 + j] = h + j
  OBVIOUS
<1> HIDE DEF x, L, h, p, c, e
<1>5. /\ Len(x) = L + 1 + p /\ x[L + 1] = n
      /\ \A j \in 1 .. n : x[L + 1 + j] = h + j
  <2>1. Len(x) = L + 1 + p
    <3>1. L + (1 + p) = L + 1 + p
      BY <1>1
    <3> QED  BY <1>2, <1>a, <3>1
  <2>2. \A k \in 1 .. Len(s) : x[L + k] = s[k]
    <3>1. \A k \in 1 .. 1 + p : L + k \in L + 1 .. L + (1 + p) /\ (L + k) - L = k
      BY <1>1
    <3> QED  BY <1>2, <1>a, <3>1
  <2>3. 1 \in 1 .. Len(s) /\ \A j \in 1 .. n : 1 + j \in 1 .. Len(s) /\ L + (1 + j) = L + 1 + j
    BY <1>1, <1>a
  <2> QED  BY <1>1, <1>a, <2>1, <2>2, <2>3
<1>6. \A i \in 0 .. m : c[i] \in 1 .. L + 1 /\ c[i] \in 1 .. Len(x) + 1 /\ e[i] \in Nat
  <2>1. \A i \in 0 .. m : b[i] \in 1 .. L + 1 /\ d[i] \in Nat
    BY DEF Sent, L
  <2>2. \A k \in 1 .. L + 1 : k \in 1 .. Len(x) + 1
    BY <1>1, <1>5
  <2> QED  BY <1>4, <2>1, <2>2
<1>7. c[0] = 1 /\ e[0] = 0
  <2>1. 0 \in 0 .. m
    OBVIOUS
  <2> QED  BY <1>4, <2>1 DEF Sent
<1>b. \A i \in 0 .. m - 1 : i \in 0 .. m /\ i + 1 \in 0 .. m
  OBVIOUS
<1>8. Sent(w, m, c, e)
  <2>1. \A i \in 0 .. m - 1 :
          /\ c[i] \in 1 .. Len(w)
          /\ c[i + 1] = c[i] + 1 + Padded(w[c[i]])
          /\ e[i + 1] = e[i] + w[c[i]]
          /\ \A j \in 1 .. w[c[i]] : w[c[i] + j] = e[i] + j
    BY <1>b, <1>4 DEF Sent
  <2> QED  BY <1>6, <1>7, <2>1 DEF Sent, L
<1>9. Sent(x, m + 1, c, e)
  <2>1. ASSUME NEW i \in 0 .. m
        PROVE  /\ c[i] \in 1 .. Len(x)
               /\ c[i + 1] = c[i] + 1 + Padded(x[c[i]])
               /\ e[i + 1] = e[i] + x[c[i]]
               /\ \A j \in 1 .. x[c[i]] : x[c[i] + j] = e[i] + j
    <3>1. CASE i = m
      <4>1. c[i] = L + 1 /\ e[i] = h /\ x[c[i]] = n
        BY <1>4, <1>5, <1>a, <3>1 DEF h
      <4>2. Padded(n) = p
        BY DEF p
      <4>3. L + 1 \in 1 .. Len(x) /\ L + 2 + p = (L + 1) + 1 + p
        BY <1>1, <1>5
      <4> QED  BY <1>4, <1>5, <3>1, <4>1, <4>2, <4>3
    <3>2. CASE i \in 0 .. m - 1
      <4>1. c[i] = b[i] /\ c[i + 1] = b[i + 1] /\ e[i] = d[i] /\ e[i + 1] = d[i + 1]
        BY <1>4, <1>b, <3>2
      <4>2. /\ b[i] \in 1 .. Len(x)
            /\ b[i + 1] = b[i] + 1 + Padded(x[b[i]])
            /\ d[i + 1] = d[i] + x[b[i]]
            /\ \A j \in 1 .. x[b[i]] : x[b[i] + j] = d[i] + j
        BY <1>3, <3>2 DEF Sent
      <4> QED  BY <4>1, <4>2
    <3>3. i = m \/ i \in 0 .. m - 1
      OBVIOUS
    <3> QED  BY <3>1, <3>2, <3>3
  <2>2. \A i \in 0 .. (m + 1) - 1 : i \in 0 .. m
    OBVIOUS
  <2>3. c[m + 1] \in 1 .. Len(x) + 1 /\ e[m + 1] \in Nat
    <3>1. L + 2 + p \in 1 .. Len(x) + 1 /\ h + n \in Nat
      BY <1>1, <1>5
    <3> QED  BY <1>4, <3>1
  <2>4. \A i \in 0 .. m + 1 : i \in 0 .. m \/ i = m + 1
    OBVIOUS
  <2>5. \A i \in 0 .. m + 1 : c[i] \in 1 .. Len(x) + 1 /\ e[i] \in Nat
    BY <1>6, <2>3, <2>4
  <2> QED  BY <1>7, <2>1, <2>2, <2>5 DEF Sent
<1>10. c[m + 1] = Len(x) + 1 /\ e[m + 1] = h + n /\ c[m] = b[m] /\ e[m] = h
  <2>1. m \in 0 .. m /\ L + 2 + p = Len(x) + 1
    BY <1>1, <1>5
  <2> QED  BY <1>4, <2>1 DEF h
<1> QED  BY <1>8, <1>9, <1>10 DEF x, h

\* A block that is being written is no whole one yet.
LEMMA WithinEnded ==
  ASSUME TypeOK, NEW m \in Nat, NEW b, NEW d, NEW c \in Senders, Within(c, m, b, d)
  PROVE  Ended(b[m])
<1> DEFINE w == out \o rest[c]
           L == Len(out)
           l == Len(rest[c])
<1>1. out \in Seq(Nat) /\ rest[c] \in Seq(Nat) /\ rest[c] # <<>>
  BY DEF TypeOK, Within
<1>2. L \in Nat /\ l \in Nat /\ l > 0 /\ Len(w) = L + l /\ \A k \in 1 .. L : w[k] = out[k]
  <2>1. Len(w) = L + l /\ \A k \in 1 .. L : w[k] = out[k]
    BY <1>1, Concatenated
  <2>2. l \in Nat /\ l > 0 /\ L \in Nat
    BY <1>1
  <2> QED  BY <2>1, <2>2
<1>3. /\ Sent(w, m + 1, b, d) /\ b[m + 1] = Len(w) + 1 /\ b[m] <= L
  BY DEF Within
<1> HIDE DEF w, L, l
<1>4. b[m] \in 1 .. L
  <2>1. m \in 0 .. m /\ \A k \in 1 .. L + 1 : k <= L => k \in 1 .. L
    BY <1>2
  <2>2. b[m] \in 1 .. L + 1
    BY <2>1 DEF Within, Sent, L
  <2> QED  BY <1>3, <2>1, <2>2
<1>5. b[m + 1] = b[m] + 1 + Padded(w[b[m]])
  <2>1. m \in 0 .. (m + 1) - 1
    OBVIOUS
  <2> QED  BY <1>3, <2>1 DEF Sent
<1>6. w[b[m]] = out[b[m]] /\ out[b[m]] \in Nat
  BY <1>1, <1>2, <1>4 DEF L
<1>7. Padded(out[b[m]]) \in Nat
  BY <1>6, PaddedIs
<1>8. b[m] + Padded(out[b[m]]) > L
  BY <1>2, <1>3, <1>4, <1>5, <1>6, <1>7
<1> QED  BY <1>8 DEF Ended, L

LEMMA InitWritten == Init => Written
<1> SUFFICES ASSUME Init
             PROVE  \E b, d : Between(0, b, d)
  BY DEF Written
<1>1. Len(out) = 0 /\ handed = 0 /\ whole = 0 /\ lost = 0 /\ \A c \in Senders : rest[c] = <<>>
  BY DEF Init
<1> DEFINE b == [i \in 0 .. 0 |-> 1]
           d == [i \in 0 .. 0 |-> 0]
<1>2. b[0] = 1 /\ d[0] = 0
  OBVIOUS
<1> HIDE DEF b, d
<1>3. Sent(out, 0, b, d)
  <2>1. \A i \in 0 .. 0 - 1 : FALSE
    OBVIOUS
  <2>2. \A i \in 0 .. 0 : b[i] \in 1 .. Len(out) + 1 /\ d[i] \in Nat
    BY <1>1, <1>2
  <2> QED  BY <1>2, <2>1, <2>2 DEF Sent
<1>4. Between(0, b, d)
  BY <1>1, <1>2, <1>3 DEF Between
<1> QED  BY <1>4

LEMMA CountedTorn ==
  ASSUME NEW c \in Senders, Counted(c), whole \in Nat, lost' = whole + 1
  PROVE  whole' = whole
<1>1. lost' # 0 /\ lost' - 1 = whole
  <2>1. \A x \in Nat : x + 1 # 0 /\ (x + 1) - 1 = x
    OBVIOUS
  <2> QED  BY <2>1
<1> QED  BY <1>1 DEF Counted

LEMMA OutGrows ==
  ASSUME TypeOK, NEW m \in Nat, NEW b, NEW d, Sent(out, m, b, d),
         NEW c \in Senders, NEW s \in Seq(Nat), Chunk(c, s)
  PROVE  Sent(out', m, b, d)
<1>1. PICK u \in Seq(Nat) : out' = out \o u
  BY ChunkFacts
<1>2. out \in Seq(Nat)
  BY DEF TypeOK
<1> QED  BY <1>1, <1>2, MoreWritten

LEMMA StartFacts ==
  ASSUME TypeOK, NEW c \in Senders, NEW n \in CALLS, Starts(c, n)
  PROVE  \E k \in Nat, s \in Seq(Nat) :
           /\ k = (IF n > MAX THEN MAX ELSE n) /\ s = Encrypted(k)
           /\ Chunk(c, s) /\ Len(s) = 1 + Padded(k) /\ s[1] = k
           /\ \A j \in 1 .. k : s[1 + j] = handed + j
<1> DEFINE k == IF n > MAX THEN MAX ELSE n
           s == Encrypted(k)
<1>1. k \in Nat /\ handed \in Nat
  BY SendFacts
<1>2. Chunk(c, s)
  BY DEF Starts
<1> HIDE DEF k
<1>3. /\ s \in Seq(Nat) /\ Len(s) = 1 + Padded(k) /\ s[1] = k
      /\ \A j \in 1 .. k : s[1 + j] = handed + j
  BY <1>1, EncryptedFacts
<1> QED  BY <1>1, <1>2, <1>3 DEF k

LEMMA TornStays ==
  ASSUME TypeOK, NEW c \in Senders, Sending(c), NEW m \in Nat, NEW b, NEW d, Torn(m, b, d)
  PROVE  Torn(m, b, d)'
<1>1. whole \in Nat /\ lost = whole + 1 /\ Sent(out, m, b, d) /\ d[m] = whole /\ lost # 0
  <2>1. \A x \in Nat : x + 1 # 0
    OBVIOUS
  <2> QED  BY <2>1 DEF TypeOK, Torn
<1>2. CASE SocketGone(c) \/ Refused(c)
  <2>1. out' = out /\ whole' = whole /\ lost' = whole + 1
    BY <1>1, <1>2 DEF SocketGone, Refused
  <2> QED  BY <1>1, <2>1 DEF Torn
<1>3. ASSUME NEW n \in CALLS, Starts(c, n)
      PROVE  Torn(m, b, d)'
  <2>1. lost' = whole + 1
    BY <1>1, <1>3 DEF Starts
  <2>2. whole' = whole
    BY <1>1, <1>3, <2>1, CountedTorn DEF Starts
  <2>3. Sent(out', m, b, d)
    BY <1>1, <1>3, StartFacts, OutGrows
  <2> QED  BY <1>1, <2>1, <2>2, <2>3 DEF Torn
<1>4. CASE GoesOn(c)
  <2>1. lost' = whole + 1 /\ rest[c] \in Seq(Nat)
    BY <1>1, <1>4 DEF GoesOn, TypeOK
  <2>2. whole' = whole
    BY <1>1, <1>4, <2>1, CountedTorn DEF GoesOn
  <2>3. Sent(out', m, b, d)
    BY <1>1, <1>4, <2>1, OutGrows DEF GoesOn
  <2> QED  BY <1>1, <2>1, <2>2, <2>3 DEF Torn
<1> QED  BY <1>2, <1>3, <1>4, SendingIs

LEMMA StuckStays ==
  ASSUME TypeOK, NEW c \in Senders, Sending(c), NEW m \in Nat, NEW b, NEW d, Stuck(m, b, d)
  PROVE  Stuck(m, b, d)'
<1>1. SocketGone(c)
  BY SendingIs DEF Stuck, Refused, Starts, GoesOn
<1>2. out' = out /\ whole' = whole /\ gone'
  BY <1>1 DEF SocketGone
<1>3. Sent(out', m, b, d) /\ d[m] = whole'
  BY <1>2 DEF Stuck
<1>4. Dead'
  BY <1>2 DEF Dead
<1>5. Ended(b[m])'
  BY <1>2 DEF Stuck, Ended, Padded
<1> QED  BY <1>3, <1>4, <1>5 DEF Stuck

\* The next block is begun, perhaps finished.
LEMMA BetweenGoesOn ==
  ASSUME TypeOK, NEW c \in Senders, Sending(c), NEW m \in Nat, NEW b, NEW d, Between(m, b, d)
  PROVE  Written'
<1>1. /\ Sent(out, m, b, d) /\ d[m] = whole /\ b[m] = Len(out) + 1 /\ lost = 0
      /\ handed = whole /\ \A e \in Senders : rest[e] = <<>>
  BY DEF Between
<1>2. /\ out \in Seq(Nat) /\ rest \in [Senders -> Seq(Nat)] /\ whole \in Nat
      /\ Len(out) \in Nat
  <2>1. out \in Seq(Nat) /\ rest \in [Senders -> Seq(Nat)] /\ whole \in Nat
    BY DEF TypeOK
  <2> QED  BY <2>1
<1>3. CASE SocketGone(c)
  <2>1. out' = out /\ whole' = whole /\ gone'
    BY <1>3 DEF SocketGone
  <2>2. Dead' /\ Sent(out', m, b, d) /\ d[m] = whole'
    BY <1>1, <2>1 DEF Dead
  <2>3. Ended(b[m])'
    <3>1. b[m] > Len(out')
      BY <1>1, <1>2, <2>1
    <3> QED  BY <3>1 DEF Ended
  <2>4. Stuck(m, b, d)'
    BY <2>2, <2>3 DEF Stuck
  <2> QED  BY <2>4 DEF Written
<1>4. CASE Refused(c)
  <2>1. out' = out /\ whole' = whole /\ lost' = whole + 1
    BY <1>4 DEF Refused
  <2>2. Torn(m, b, d)'
    BY <1>1, <2>1 DEF Torn
  <2> QED  BY <2>2 DEF Written
<1>5. ASSUME NEW n \in CALLS, Starts(c, n)
      PROVE  Written'
  <2>1. PICK k \in Nat, s \in Seq(Nat) :
           /\ k = (IF n > MAX THEN MAX ELSE n) /\ s = Encrypted(k)
           /\ Chunk(c, s) /\ Len(s) = 1 + Padded(k) /\ s[1] = k
           /\ \A j \in 1 .. k : s[1 + j] = handed + j
    BY <1>5, StartFacts
  <2>2. PICK f, e :
          /\ Sent(out, m, f, e) /\ f[m] = b[m] /\ e[m] = d[m]
          /\ Sent(out \o s, m + 1, f, e)
          /\ f[m + 1] = Len(out \o s) + 1 /\ e[m + 1] = d[m] + k
    <3>1. \A j \in 1 .. k : s[1 + j] = d[m] + j
      BY <1>1, <2>1
    <3>2. /\ Sent(out, m, b, d) /\ b[m] = Len(out) + 1 /\ out \in Seq(Nat)
          /\ Len(s) = 1 + Padded(k) /\ s[1] = k
      BY <1>1, <1>2, <2>1
    <3> QED  BY <3>1, <3>2, OneMoreWritten
  <2>3. /\ out' \in Seq(Nat) /\ rest' \in [Senders -> Seq(Nat)] /\ out' \o rest'[c] = out \o s
        /\ Len(out) < Len(out') /\ \A a \in Senders \ {c} : rest'[a] = rest[a]
    BY <2>1, ChunkFacts
  <2>4. IF lost' = 0 THEN handed' = e[m + 1] ELSE lost' = e[m + 1] + 1
    <3>1. n \in Nat /\ MAX \in Nat
      BY SendFacts
    <3>2. ~ Behind(c)
      BY <1>1 DEF Behind
    <3>3. lost' = (IF n > MAX THEN whole + MAX + 1 ELSE 0) /\ handed' = whole + n
      BY <1>1, <1>5, <3>2 DEF Starts
    <3>4. CASE n > MAX
      <4>1. k = MAX /\ whole + MAX + 1 # 0
        BY <1>2, <2>1, <3>1, <3>4
      <4> QED  BY <1>1, <2>2, <3>3, <3>4, <4>1
    <3>5. CASE ~ (n > MAX)
      BY <1>1, <2>1, <2>2, <3>3, <3>5
    <3> QED  BY <3>4, <3>5
  <2>5. m + 1 \in Nat /\ e[m + 1] \in Nat
    <3>1. m + 1 \in 0 .. m + 1 /\ m + 1 \in Nat
      OBVIOUS
    <3> QED  BY <2>2, <3>1 DEF Sent
  <2>6. CASE rest'[c] = <<>>
    <3>1. out' = out \o s
      <4>1. out' \o <<>> = out'
        BY <2>3
      <4> QED  BY <2>3, <2>6, <4>1
    <3>2. whole' = e[m + 1]
      <4>1. whole' = (IF lost' = 0 THEN handed' ELSE lost' - 1)
        BY <1>5, <2>6 DEF Starts, Counted
      <4>2. \A x \in Nat : (x + 1) - 1 = x
        OBVIOUS
      <4> QED  BY <2>4, <2>5, <4>1, <4>2
    <3>3. CASE lost' = 0
      <4>1. \A a \in Senders : rest'[a] = <<>>
        BY <1>1, <2>3, <2>6
      <4>2. Between(m + 1, f, e)'
        BY <2>2, <2>4, <3>1, <3>2, <3>3, <4>1 DEF Between
      <4> QED  BY <2>5, <4>2 DEF Written
    <3>4. CASE lost' # 0
      <4>1. Torn(m + 1, f, e)'
        BY <2>2, <2>4, <3>1, <3>2, <3>4 DEF Torn
      <4> QED  BY <2>5, <4>1 DEF Written
    <3> QED  BY <3>3, <3>4
  <2>7. CASE rest'[c] # <<>>
    <3>1. whole' = whole
      BY <1>5, <2>7 DEF Starts, Counted
    <3>2. Sent(out', m, f, e)
      BY <2>1, <2>2, OutGrows
    <3>3. f[m] <= Len(out')
      <4>1. \A x, y \in Nat : x < y => x + 1 <= y
        OBVIOUS
      <4>2. Len(out') \in Nat
        BY <2>3
      <4> QED  BY <1>1, <1>2, <2>2, <2>3, <4>1, <4>2
    <3>4. \A a \in Senders \ {c} : rest'[a] = <<>>
      BY <1>1, <2>3
    <3>5. Within(c, m, f, e)'
      BY <1>1, <2>2, <2>3, <2>4, <2>7, <3>1, <3>2, <3>3, <3>4 DEF Within
    <3> QED  BY <3>5 DEF Written
  <2> QED  BY <2>6, <2>7
<1>6. ~ GoesOn(c)
  BY <1>1 DEF GoesOn
<1> QED  BY <1>3, <1>4, <1>5, <1>6, SendingIs

\* The block of a is continued, perhaps finished, or given up; or another sender
\* writes into it.
LEMMA WithinGoesOn ==
  ASSUME TypeOK, NEW c \in Senders, Sending(c), NEW m \in Nat, NEW b, NEW d,
         NEW a \in Senders, Within(a, m, b, d)
  PROVE  Written'
<1>1. /\ Sent(out, m, b, d) /\ d[m] = whole /\ b[m] <= Len(out)
      /\ Sent(out \o rest[a], m + 1, b, d) /\ b[m + 1] = Len(out \o rest[a]) + 1
      /\ IF lost = 0 THEN handed = d[m + 1] ELSE lost = d[m + 1] + 1
      /\ rest[a] # <<>> /\ \A e \in Senders \ {a} : rest[e] = <<>>
  BY DEF Within
<1>2. /\ out \in Seq(Nat) /\ rest[a] \in Seq(Nat) /\ rest[c] \in Seq(Nat) /\ whole \in Nat
  BY DEF TypeOK
<1>3. CASE SocketGone(c)
  <2>1. out' = out /\ whole' = whole /\ gone'
    BY <1>3 DEF SocketGone
  <2>2. Dead' /\ Sent(out', m, b, d) /\ d[m] = whole'
    BY <1>1, <2>1 DEF Dead
  <2>3. Ended(b[m])'
    BY <2>1, WithinEnded DEF Ended, Padded
  <2>4. Stuck(m, b, d)'
    BY <2>2, <2>3 DEF Stuck
  <2> QED  BY <2>4 DEF Written
<1>4. CASE Refused(c)
  <2>1. out' = out /\ whole' = whole /\ lost' = whole + 1
    BY <1>4 DEF Refused
  <2>2. Torn(m, b, d)'
    BY <1>1, <2>1 DEF Torn
  <2> QED  BY <2>2 DEF Written
<1>5. ASSUME NEW n \in CALLS, Starts(c, n)
      PROVE  Written'
  <2>1. Behind(c)
    <3>1. a # c
      BY <1>1, <1>5 DEF Starts
    <3> QED  BY <1>1, <3>1 DEF Behind
  <2>2. lost' = whole + 1
    BY <1>5, <2>1 DEF Starts
  <2>3. whole' = whole
    BY <1>2, <1>5, <2>2, CountedTorn DEF Starts
  <2>4. Sent(out', m, b, d)
    BY <1>1, <1>5, StartFacts, OutGrows
  <2>5. Torn(m, b, d)'
    BY <1>1, <2>2, <2>3, <2>4 DEF Torn
  <2> QED  BY <2>5 DEF Written
<1>6. CASE GoesOn(c)
  <2>1. c = a
    BY <1>1, <1>6 DEF GoesOn
  <2>2. /\ out' \in Seq(Nat) /\ rest' \in [Senders -> Seq(Nat)] /\ out' \o rest'[a] = out \o rest[a]
        /\ Len(out) < Len(out') /\ \A e \in Senders \ {a} : rest'[e] = rest[e]
    BY <1>2, <1>6, <2>1, ChunkFacts DEF GoesOn
  <2>3. lost' = lost /\ handed' = handed
    BY <1>6 DEF GoesOn
  <2>4. m + 1 \in Nat /\ d[m + 1] \in Nat
    <3>1. m + 1 \in 0 .. m + 1 /\ m + 1 \in Nat
      OBVIOUS
    <3> QED  BY <1>1, <3>1 DEF Sent
  <2>5. CASE rest'[a] = <<>>
    <3>1. out' = out \o rest[a]
      <4>1. out' \o <<>> = out'
        BY <2>2
      <4> QED  BY <2>2, <2>5, <4>1
    <3>2. whole' = d[m + 1]
      <4>1. whole' = (IF lost' = 0 THEN handed' ELSE lost' - 1)
        BY <1>6, <2>1, <2>5 DEF GoesOn, Counted
      <4>2. \A x \in Nat : (x + 1) - 1 = x
        OBVIOUS
      <4> QED  BY <1>1, <2>3, <2>4, <4>1, <4>2
    <3>3. CASE lost = 0
      <4>1. \A e \in Senders : rest'[e] = <<>>
        BY <1>1, <2>2, <2>5
      <4>2. Between(m + 1, b, d)'
        BY <1>1, <2>3, <3>1, <3>2, <3>3, <4>1 DEF Between
      <4> QED  BY <2>4, <4>2 DEF Written
    <3>4. CASE lost # 0
      <4>1. Torn(m + 1, b, d)'
        BY <1>1, <2>3, <3>1, <3>2, <3>4 DEF Torn
      <4> QED  BY <2>4, <4>1 DEF Written
    <3> QED  BY <3>3, <3>4
  <2>6. CASE rest'[a] # <<>>
    <3>1. whole' = whole
      BY <1>6, <2>1, <2>6 DEF GoesOn, Counted
    <3>2. Sent(out', m, b, d)
      BY <1>1, <1>2, <1>6, OutGrows DEF GoesOn
    <3>3. b[m] <= Len(out')
      <4>1. m \in 0 .. m
        OBVIOUS
      <4>2. b[m] \in 1 .. Len(out) + 1
        BY <1>1, <4>1 DEF Sent
      <4>3. b[m] \in Nat /\ Len(out) \in Nat /\ Len(out') \in Nat
        BY <1>2, <2>2, <4>2
      <4>4. \A x, y, z \in Nat : x <= y /\ y < z => x <= z
        OBVIOUS
      <4> QED  BY <1>1, <2>2, <4>3, <4>4
    <3>4. \A e \in Senders \ {a} : rest'[e] = <<>>
      BY <1>1, <2>2
    <3>5. Within(a, m, b, d)'
      BY <1>1, <2>2, <2>3, <2>6, <3>1, <3>2, <3>3, <3>4 DEF Within
    <3> QED  BY <3>5 DEF Written
  <2> QED  BY <2>5, <2>6
<1> QED  BY <1>3, <1>4, <1>5, <1>6, SendingIs

\* A Recv of the socket below that has failed has failed for good.
LEMMA BrokenStays ==
  ASSUME [Next]_vars, wBroken
  PROVE  wBroken'
BY DEF Next, RecvStep, vars, wireVars, Arrive, Greet, AskPeer, PeerAnswers, PeerFails, SendKey,
       Recv, GetData, GetDataFails, AskHeader, HeaderArrives, AskBody, BodyArrives, WireFails,
       Send, SendMore, SendFails, SendFaults, Wire!Arrive, Wire!Ask, Wire!Take, Wire!Fail

LEMMA NextWritten == IInv /\ Written /\ [Next]_vars => Written'
<1> SUFFICES ASSUME IInv, Written, [Next]_vars
             PROVE  Written'
  OBVIOUS
<1>0. TypeOK
  BY DEF IInv
<1>1. PICK m \in Nat : \E b, d :
        \/ Torn(m, b, d)
        \/ Stuck(m, b, d)
        \/ Between(m, b, d)
        \/ \E c \in Senders : Within(c, m, b, d)
  BY DEF Written
<1>2. PICK b, d :
        \/ Torn(m, b, d)
        \/ Stuck(m, b, d)
        \/ Between(m, b, d)
        \/ \E c \in Senders : Within(c, m, b, d)
  BY <1>1
<1>3. ASSUME NEW c \in Senders, Sending(c)
      PROVE  Written'
  <2>1. CASE Torn(m, b, d)
    BY <1>0, <1>3, <2>1, TornStays DEF Written
  <2>2. CASE Stuck(m, b, d)
    BY <1>0, <1>3, <2>2, StuckStays DEF Written
  <2>3. CASE Between(m, b, d)
    BY <1>0, <1>3, <2>3, BetweenGoesOn
  <2>4. CASE \E a \in Senders : Within(a, m, b, d)
    BY <1>0, <1>3, <2>4, WithinGoesOn
  <2> QED  BY <1>2, <2>1, <2>2, <2>3, <2>4
<1>4. CASE UNCHANGED <<out, rest, gone, handed, whole, lost>>
  <2>1. Dead => Dead'
    BY <1>4, BrokenStays DEF Dead
  <2>2. CASE Torn(m, b, d)
    <3>1. Torn(m, b, d)'
      BY <1>4, <2>2 DEF Torn
    <3> QED  BY <3>1 DEF Written
  <2>3. CASE Stuck(m, b, d)
    <3>1. Ended(b[m])'
      BY <1>4, <2>3 DEF Stuck, Ended, Padded
    <3>2. Stuck(m, b, d)'
      BY <1>4, <2>1, <2>3, <3>1 DEF Stuck
    <3> QED  BY <3>2 DEF Written
  <2>4. CASE Between(m, b, d)
    <3>1. Between(m, b, d)'
      BY <1>4, <2>4 DEF Between
    <3> QED  BY <3>1 DEF Written
  <2>5. ASSUME NEW a \in Senders, Within(a, m, b, d)
        PROVE  Written'
    <3>1. Within(a, m, b, d)'
      BY <1>4, <2>5 DEF Within
    <3> QED  BY <3>1 DEF Written
  <2> QED  BY <1>2, <2>2, <2>3, <2>4, <2>5
<1>5. (\E c \in Senders : Sending(c)) \/ UNCHANGED <<out, rest, gone, handed, whole, lost>>
  BY DEF Next, RecvStep, vars, sendVars, Arrive, Greet, AskPeer, PeerAnswers, PeerFails, SendKey,
         Recv, GetData, GetDataFails, AskHeader, HeaderArrives, AskBody, BodyArrives, WireFails,
         SendFaults, Sending
<1> QED  BY <1>3, <1>4, <1>5

\* The peer, who reads a length and that much text out of whole cipher blocks,
\* reads all text that went out in whole blocks (SecureSocket::Send), in order and
\* without gaps up to the first byte that is out of its place: behind a call longer
\* than MAX_BUFFER_LEN, a chunk that lwIP refused with the socket open, or one that
\* another sender wrote in between.  A socket that fails harms nothing before it.
THEOREM PeerReadsWhatWasSent == Spec => []PeerInStep
<1>1. IInv /\ Written => PeerInStep
  <2> SUFFICES ASSUME IInv, Written
               PROVE  PeerInStep
    OBVIOUS
  <2>1. PICK m \in Nat : \E b, d :
          \/ Torn(m, b, d)
          \/ Stuck(m, b, d)
          \/ Between(m, b, d)
          \/ \E c \in Senders : Within(c, m, b, d)
    BY DEF Written
  <2>2. PICK b, d :
          \/ Torn(m, b, d)
          \/ Stuck(m, b, d)
          \/ Between(m, b, d)
          \/ \E c \in Senders : Within(c, m, b, d)
    BY <2>1
  <2>3. TypeOK /\ out \in Seq(Nat) /\ Len(out) \in Nat /\ whole \in Nat
    <3>1. TypeOK /\ out \in Seq(Nat) /\ whole \in Nat
      BY DEF IInv, TypeOK
    <3> QED  BY <3>1
  <2>4. Sent(out, m, b, d) /\ d[m] = whole
    BY <2>2 DEF Torn, Stuck, Between, Within
  <2>5. /\ Decoded \in Seq(Nat) /\ Len(Decoded) >= whole
        /\ \A k \in 1 .. whole : Decoded[k] = k
        /\ Ended(b[m]) => Len(Decoded) = whole
    BY <2>3, <2>4, WrittenIsDecoded
  <2>6. lost = whole + 1 \/ Ended(b[m])
    <3>1. CASE Between(m, b, d)
      <4>1. b[m] > Len(out)
        BY <2>3, <3>1 DEF Between
      <4> QED  BY <4>1 DEF Ended
    <3>2. CASE \E c \in Senders : Within(c, m, b, d)
      BY <2>3, <3>2, WithinEnded
    <3> QED  BY <2>2, <3>1, <3>2 DEF Torn, Stuck
  <2> DEFINE g == Decoded
  <2>a. /\ g \in Seq(Nat) /\ Len(g) >= whole
        /\ \A k \in 1 .. whole : g[k] = k
        /\ lost = whole + 1 \/ Len(g) = whole
    BY <2>5, <2>6
  <2> HIDE DEF g
  <2>7. ASSUME NEW k \in DOMAIN g, lost = 0 \/ k < lost
        PROVE  g[k] = k
    <3>1. k \in 1 .. Len(g) /\ Len(g) \in Nat /\ k \in Nat /\ k >= 1
      BY <2>a
    <3>2. k <= whole
      BY <2>3, <2>7, <2>a, <3>1
    <3>3. k \in 1 .. whole
      BY <2>3, <3>1, <3>2
    <3> QED  BY <2>a, <3>3
  <2> QED  BY <2>a, <2>7 DEF PeerInStep, g
<1> QED  BY <1>1, InitWritten, NextWritten, SocketInvariant, PTL DEF Spec
=============================================================================
