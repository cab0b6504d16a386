--------------------------- MODULE TwnListProofs ---------------------------
(***************************************************************************)
(* The list's links are its elements in their order, no walk reads or      *)
(* writes a node that is gone unless it goes on through what was erased,   *)
(* and a walk meets each element once, whatever others insert and erase.   *)
(***************************************************************************)
EXTENDS TwnList, SequenceLemmas

Typed ==
  /\ next \in [Places -> Pointers] /\ prev \in [Places -> Pointers]
  /\ order \in Seq(Nodes)

\* What an insertion or an erasure leaves alone of the above.
Kept == Typed /\ Chain /\ next[End] = Null

\* The walker's next node is there unless it was erased meanwhile.
Ahead == walk # "none" /\ it.object # End /\ ~gone => Live(it.next)

IInv == Running => Kept /\ Ahead

----------------------------------------------------------------------------
\* An element has one place in the list.
LEMMA IndexOf ==
  ASSUME Kept, NEW n \in ToSet(order)
  PROVE  Index(n) \in 1 .. Len(order) /\ order[Index(n)] = n
BY LenProperties DEF Kept, Typed, Index, ToSet

----------------------------------------------------------------------------
\* A sequence with the right links at each place is a Chain.
LEMMA ChainPrimed ==
  ASSUME NEW L \in Nat, order' \in Seq(Nodes), Len(order') = L,
         heap' = {order'[k] : k \in 1 .. L},
         \A j, k \in 1 .. L : order'[j] = order'[k] => j = k,
         begin' = IF L = 0 THEN End ELSE order'[1],
         prev'[End] = IF L = 0 THEN Null ELSE order'[L],
         \A k \in 1 .. L : next'[order'[k]] = IF k = L THEN End ELSE order'[k + 1],
         \A k \in 1 .. L : prev'[order'[k]] = IF k = 1 THEN Null ELSE order'[k - 1]
  PROVE  Chain'
<1>1. DOMAIN order' = 1 .. L /\ (order' = <<>> <=> L = 0)
  BY LenProperties, EmptySeq
<1> QED BY <1>1 DEF Chain, ToSet, IsInjective, Following, Preceding

\* What Kept says of the elements, by their numbers.
LEMMA ChainFacts ==
  ASSUME Kept
  PROVE  /\ Len(order) \in Nat
         /\ order = <<>> <=> Len(order) = 0
         /\ heap = {order[k] : k \in 1 .. Len(order)}
         /\ \A k \in 1 .. Len(order) : order[k] \in heap /\ order[k] \in Nodes
         /\ \A j, k \in 1 .. Len(order) : order[j] = order[k] => j = k
         /\ begin = IF Len(order) = 0 THEN End ELSE order[1]
         /\ prev[End] = IF Len(order) = 0 THEN Null ELSE order[Len(order)]
         /\ \A k \in 1 .. Len(order) :
              next[order[k]] = IF k = Len(order) THEN End ELSE order[k + 1]
         /\ \A k \in 1 .. Len(order) :
              prev[order[k]] = IF k = 1 THEN Null ELSE order[k - 1]
<1>1. DOMAIN order = 1 .. Len(order) /\ Len(order) \in Nat
  BY LenProperties DEF Kept, Typed
<1>2. order = <<>> <=> Len(order) = 0
  BY EmptySeq DEF Kept, Typed
<1>3. \A k \in 1 .. Len(order) : order[k] \in Nodes
  BY ElementOfSeq DEF Kept, Typed
<1> QED BY <1>1, <1>2, <1>3 DEF Kept, Chain, ToSet, IsInjective, Following, Preceding

----------------------------------------------------------------------------
(***************************************************************************)
(* The operations.                                                         *)
(***************************************************************************)

LEMMA EmptyInserted ==
  ASSUME Kept, Len(order) = 0, NEW n \in Nodes \ heap, heap' = heap \cup {n},
         InsertEmpty(n), order' \in Seq(Nodes), Len(order') = 1, order'[1] = n
  PROVE  Kept'
<1> USE NodeAssumption
<1>1. heap = {}
  BY ChainFacts
<1>2. next' \in [Places -> Pointers] /\ prev' \in [Places -> Pointers]
  BY DEF Kept, Typed, InsertEmpty, Places, Pointers
<1>3. /\ next'[n] = End /\ prev'[n] = Null /\ prev'[End] = n /\ begin' = n
      /\ next'[End] = Null
  BY DEF Kept, Typed, InsertEmpty, Places
<1>4. Chain'
  BY <1>1, <1>3, ChainPrimed, 1 \in Nat
<1> QED BY <1>2, <1>3, <1>4 DEF Kept, Typed

LEMMA FirstInserted ==
  ASSUME Kept, NEW n, Insert(Copy(begin), n), order' = <<n>> \o order
  PROVE  Kept'
<1> USE NodeAssumption
<1>1. n \in Nodes \ heap /\ heap' = heap \cup {n}
  BY DEF Insert
<1>2. /\ order' \in Seq(Nodes) /\ Len(order') = Len(order) + 1 /\ order'[1] = n
      /\ \A k \in 2 .. Len(order) + 1 : order'[k] = order[k - 1]
  BY <1>1, AddedFirst DEF Kept, Typed
<1> DEFINE L == Len(order)
<1>3. CASE L = 0
  <2>1. InsertEmpty(n)
    BY <1>3, ChainFacts DEF Insert, Copy
  <2> QED BY <1>1, <1>2, <1>3, <2>1, EmptyInserted
<1>4. CASE L # 0
  <2> DEFINE f == order[1]
  <2>1. L \in Nat /\ L >= 1 /\ f \in heap /\ f \in Nodes /\ begin = f /\ f # n
    BY <1>1, <1>4, ChainFacts
  <2>2. prev[f] = Null /\ prev[next[f]] = f
    BY <2>1, ChainFacts
  <2>3. InsertBefore(Copy(f), n)
    BY <2>1 DEF Insert, Copy
  <2>4. /\ next' = [p \in Places |-> IF p = n THEN f ELSE IF p = Null THEN n ELSE next[p]]
        /\ prev' = [prev EXCEPT ![n] = Null, ![f] = n]
        /\ begin' = n
    BY <2>1, <2>2, <2>3 DEF InsertBefore, Copy
  <2>5. next' \in [Places -> Pointers] /\ prev' \in [Places -> Pointers]
    BY <1>1, <2>1, <2>4 DEF Kept, Typed, Places, Pointers
  <2>6. /\ next'[n] = f /\ prev'[n] = Null /\ prev'[f] = n
        /\ \A p \in Places \ {n} : next'[p] = next[p]
        /\ \A p \in Places \ {n, f} : prev'[p] = prev[p]
    BY <1>1, <2>1, <2>4 DEF Kept, Typed, Places
  <2>7. \A k \in 1 .. L : order[k] \in Places \ {n} /\ (order[k] = f => k = 1)
    <3>1. 1 \in 1 .. L
      BY <2>1
    <3>2. \A k \in 1 .. L : order[k] \in heap /\ order[k] \in Nodes
      BY ChainFacts
    <3>3. \A k \in 1 .. L : order[k] = order[1] => k = 1
      BY <3>1, ChainFacts
    <3> QED BY <1>1, <3>2, <3>3 DEF Places
  <2>8. prev'[End] = order'[L + 1]
    BY <1>2, <2>1, <2>6, ChainFacts DEF Places
  <2>9. heap' = {order'[k] : k \in 1 .. L + 1}
    <3>1. \A k \in 1 .. L : k + 1 \in 2 .. L + 1 /\ order'[k + 1] = order[k]
      BY <1>2, <2>1
    <3>2. \A k \in 1 .. L + 1 : k = 1 \/ (k - 1 \in 1 .. L /\ order'[k] = order[k - 1])
      BY <1>2, <2>1
    <3>3. heap = {order[k] : k \in 1 .. L}
      BY ChainFacts
    <3>4. 1 \in 1 .. L + 1 /\ \A k \in 1 .. L : k + 1 \in 1 .. L + 1
      BY <2>1
    <3>5. heap' \subseteq {order'[k] : k \in 1 .. L + 1}
      BY <1>1, <1>2, <3>1, <3>3, <3>4
    <3>6. {order'[k] : k \in 1 .. L + 1} \subseteq heap'
      BY <1>1, <1>2, <3>2, <3>3
    <3> QED BY <3>5, <3>6
  <2>10. \A j, k \in 1 .. L + 1 : order'[j] = order'[k] => j = k
    <3>1. \A k \in 2 .. L + 1 : k - 1 \in 1 .. L /\ order'[k] = order[k - 1] /\ order'[k] # n
      BY <1>2, <2>1, <2>7
    <3>2. \A k \in 1 .. L + 1 : k = 1 \/ k \in 2 .. L + 1
      BY <2>1
    <3>3. \A j, k \in 2 .. L + 1 : order'[j] = order'[k] => j - 1 = k - 1
      BY <3>1, ChainFacts
    <3>4. \A j, k \in 2 .. L + 1 : order'[j] = order'[k] => j = k
      BY <3>3, <2>1
    <3> QED BY <1>2, <3>1, <3>2, <3>4
  <2>11. ASSUME NEW k \in 1 .. L + 1
         PROVE  /\ next'[order'[k]] = IF k = L + 1 THEN End ELSE order'[k + 1]
                /\ prev'[order'[k]] = IF k = 1 THEN Null ELSE order'[k - 1]
    <3>1. CASE k = 1
      <4>1. order'[2] = f
        BY <1>2, <2>1
      <4> QED BY <1>2, <2>1, <2>6, <3>1, <4>1
    <3>2. CASE k # 1
      <4>1. k - 1 \in 1 .. L /\ order'[k] = order[k - 1]
        BY <1>2, <2>1, <3>2
      <4>2. next'[order'[k]] = IF k - 1 = L THEN End ELSE order[k]
        <5>1. PICK i \in 1 .. L : i = k - 1 /\ i + 1 = k
          BY <2>1, <4>1
        <5>2. next[order[i]] = IF i = L THEN End ELSE order[i + 1]
          BY ChainFacts
        <5>3. next'[order[i]] = next[order[i]]
          BY <2>6, <2>7
        <5> QED BY <4>1, <5>1, <5>2, <5>3
      <4>3. k # L + 1 => order'[k + 1] = order[k]
        BY <1>2, <2>1, <3>2
      <4>4. CASE k = 2
        BY <1>2, <2>1, <2>6, <4>1, <4>2, <4>3, <4>4
      <4>5. CASE k # 2
        <5>1. order[k - 1] \in Places \ {n, f} /\ k - 1 # 1
          BY <2>7, <4>1, <4>5, <2>1
        <5>2. prev'[order'[k]] = order[k - 2]
          BY <2>6, <4>1, <5>1, ChainFacts
        <5>3. order'[k - 1] = order[k - 2]
          BY <1>2, <2>1, <3>2, <4>5
        <5> QED BY <3>2, <4>2, <4>3, <5>2, <5>3, <2>1
      <4> QED BY <4>4, <4>5
    <3> QED BY <3>1, <3>2
  <2>12. Chain'
    <3>1. L + 1 \in Nat /\ L + 1 # 0
      BY <2>1
    <3> QED BY <1>2, <2>4, <2>8, <2>9, <2>10, <2>11, <3>1, ChainPrimed
  <2>13. next'[End] = Null
    BY <1>1, <2>6 DEF Kept, Places
  <2> QED BY <1>2, <2>5, <2>12, <2>13 DEF Kept, Typed
<1> QED BY <1>3, <1>4

LEMMA LastInserted ==
  ASSUME Kept, NEW n, Insert(Copy(End), n), order' = Append(order, n)
  PROVE  Kept'
<1> USE NodeAssumption
<1>1. n \in Nodes \ heap /\ heap' = heap \cup {n}
  BY DEF Insert
<1>2. /\ order' \in Seq(Nodes) /\ Len(order') = Len(order) + 1
      /\ order'[Len(order) + 1] = n
      /\ \A k \in 1 .. Len(order) : order'[k] = order[k]
  BY <1>1, AppendProperties DEF Kept, Typed
<1> DEFINE L == Len(order)
<1>3. CASE L = 0
  <2>1. InsertEmpty(n)
    BY <1>3, ChainFacts DEF Insert, Copy
  <2>2. Len(order') = 1 /\ order'[1] = n
    BY <1>2, <1>3
  <2> QED BY <1>1, <1>2, <1>3, <2>1, <2>2, EmptyInserted
<1>4. CASE L # 0
  <2> DEFINE z == order[L]
  <2>1. /\ L \in Nat /\ L >= 1 /\ z \in heap /\ z \in Nodes /\ z # n
        /\ prev[End] = z /\ next[z] = End /\ begin # End /\ begin = order[1]
    <3>1. L \in Nat /\ L >= 1 /\ 1 \in 1 .. L /\ L \in 1 .. L
      BY <1>4, ChainFacts
    <3> QED BY <1>1, <3>1, ChainFacts
  <2>2. InsertBefore(Copy(End), n)
    BY <2>1 DEF Insert, Copy
  <2>3. /\ next' = [p \in Places |-> IF p = n THEN End ELSE IF p = z THEN n ELSE next[p]]
        /\ prev' = [prev EXCEPT ![n] = z, ![End] = n]
        /\ begin' = begin
    BY <2>1, <2>2 DEF InsertBefore, Copy
  <2>4. next' \in [Places -> Pointers] /\ prev' \in [Places -> Pointers]
    BY <1>1, <2>1, <2>3 DEF Kept, Typed, Places, Pointers
  <2>5. /\ next'[n] = End /\ next'[z] = n /\ prev'[n] = z /\ prev'[End] = n
        /\ \A p \in Places \ {n, z} : next'[p] = next[p]
        /\ \A p \in Places \ {n, End} : prev'[p] = prev[p]
    BY <1>1, <2>1, <2>3 DEF Kept, Typed, Places
  <2>6. \A k \in 1 .. L : order[k] \in Places \ {n, End} /\ (order[k] = z => k = L)
    <3>1. L \in 1 .. L
      BY <2>1
    <3>2. \A k \in 1 .. L : order[k] \in heap /\ order[k] \in Nodes
      BY ChainFacts
    <3>3. \A k \in 1 .. L : order[k] = order[L] => k = L
      BY <3>1, ChainFacts
    <3> QED BY <1>1, <3>2, <3>3 DEF Places
  <2>7. begin' = order'[1]
    <3>1. 1 \in 1 .. L
      BY <2>1
    <3> QED BY <1>2, <2>1, <2>3, <3>1
  <2>8. \A k \in 1 .. L + 1 : k = L + 1 \/ k \in 1 .. L
    BY <2>1
  <2>9. heap' = {order'[k] : k \in 1 .. L + 1}
    <3>1. heap = {order[k] : k \in 1 .. L}
      BY ChainFacts
    <3>2. L + 1 \in 1 .. L + 1 /\ \A k \in 1 .. L : k \in 1 .. L + 1
      BY <2>1
    <3>3. heap' \subseteq {order'[k] : k \in 1 .. L + 1}
      BY <1>1, <1>2, <3>1, <3>2
    <3>4. {order'[k] : k \in 1 .. L + 1} \subseteq heap'
      BY <1>1, <1>2, <2>8, <3>1
    <3> QED BY <3>3, <3>4
  <2>10. \A j, k \in 1 .. L + 1 : order'[j] = order'[k] => j = k
    <3>1. \A k \in 1 .. L : order'[k] = order[k] /\ order'[k] # n
      BY <1>2, <2>6
    <3>2. \A j, k \in 1 .. L : order'[j] = order'[k] => j = k
      BY <3>1, ChainFacts
    <3> QED BY <1>2, <2>8, <3>1, <3>2
  <2>11. ASSUME NEW k \in 1 .. L + 1
         PROVE  /\ next'[order'[k]] = IF k = L + 1 THEN End ELSE order'[k + 1]
                /\ prev'[order'[k]] = IF k = 1 THEN Null ELSE order'[k - 1]
    <3>1. CASE k = L + 1
      <4>1. k # 1 /\ L \in 1 .. L /\ k - 1 = L
        BY <2>1, <3>1
      <4> QED BY <1>2, <2>5, <3>1, <4>1
    <3>2. CASE k # L + 1
      <4>1. k \in 1 .. L /\ order'[k] = order[k]
        BY <1>2, <2>8, <3>2
      <4>2. prev'[order'[k]] = IF k = 1 THEN Null ELSE order[k - 1]
        BY <2>5, <2>6, <4>1, ChainFacts
      <4>3. k # 1 => order'[k - 1] = order[k - 1]
        BY <1>2, <2>1, <4>1
      <4>4. next'[order'[k]] = order'[k + 1]
        <5>1. CASE k = L
          BY <1>2, <2>5, <4>1, <5>1
        <5>2. CASE k # L
          <6>1. next'[order'[k]] = next[order[k]] /\ next[order[k]] = order[k + 1]
            BY <2>5, <2>6, <4>1, <5>2, ChainFacts DEF Places
          <6>2. order'[k + 1] = order[k + 1]
            BY <1>2, <2>1, <4>1, <5>2
          <6> QED BY <6>1, <6>2
        <5> QED BY <5>1, <5>2
      <4> QED BY <3>2, <4>2, <4>3, <4>4
    <3> QED BY <3>1, <3>2
  <2>12. Chain'
    <3>1. L + 1 \in Nat /\ L + 1 # 0
      BY <2>1
    <3> QED BY <1>2, <2>5, <2>7, <2>9, <2>10, <2>11, <3>1, ChainPrimed
  <2>13. next'[End] = Null
    BY <1>1, <2>1, <2>5 DEF Kept, Places
  <2> QED BY <1>2, <2>4, <2>12, <2>13 DEF Kept, Typed
<1> QED BY <1>3, <1>4

\* Erasing an element through a copy of it that is not old frees its node, and
\* no other is touched but its neighbours.
LEMMA ElementErased ==
  ASSUME Kept, NEW n \in ToSet(order), Erase(Copy(n)),
         order' = RemoveAt(order, Index(n))
  PROVE  Kept' /\ heap' = heap \ {n} /\ ~EraseFaults(Copy(n))
<1> USE NodeAssumption
<1> DEFINE L == Len(order)
           i == Index(n)
           after == next[n]
           before == prev[n]
<1>1. i \in 1 .. L /\ order[i] = n /\ L \in Nat /\ L >= 1
  BY IndexOf, ChainFacts
<1> HIDE DEF i
<1>2. /\ order' \in Seq(Nodes) /\ Len(order') = L - 1
      /\ \A j \in 1 .. L - 1 : order'[j] = IF j < i THEN order[j] ELSE order[j + 1]
  BY <1>1, Removed DEF Kept, Typed, i
<1>3. /\ after = (IF i = L THEN End ELSE order[i + 1])
      /\ before = (IF i = 1 THEN Null ELSE order[i - 1])
  BY <1>1, ChainFacts
<1>4. \A k \in 1 .. L : /\ order[k] \in heap /\ order[k] \in Nodes
                        /\ order[k] # End /\ order[k] # Null
  BY ChainFacts
<1>5. \A j, k \in 1 .. L : order[j] = order[k] => j = k
  BY ChainFacts
<1>6. /\ i # L => i + 1 \in 1 .. L /\ after = order[i + 1]
      /\ i # 1 => i - 1 \in 1 .. L /\ before = order[i - 1]
  BY <1>1, <1>3
<1>7. /\ prev[after] = n /\ after \in heap \cup {End} /\ n \in heap
      /\ before # Null => before \in heap
  <2>1. n \in heap
    BY <1>1, <1>4
  <2>2. before # Null => before \in heap
    BY <1>3, <1>4, <1>6
  <2>3. CASE i = L
    BY <1>1, <1>3, <2>1, <2>2, <2>3, ChainFacts
  <2>4. CASE i # L
    <3>1. i + 1 \in 1 .. L /\ i + 1 # 1 /\ (i + 1) - 1 = i
      BY <1>1, <2>4
    <3>2. prev[order[i + 1]] = order[i]
      BY <3>1, ChainFacts
    <3> QED BY <1>1, <1>4, <1>6, <2>1, <2>2, <2>4, <3>2
  <2> QED BY <2>3, <2>4
<1>8. /\ prev' = [prev EXCEPT ![after] = before]
      /\ next' = [p \in Places |-> IF p = before THEN after ELSE next[p]]
      /\ heap' = heap \ {n}
      /\ begin' = IF n = begin THEN after ELSE begin
  BY <1>7 DEF Erase, Copy
<1>9. ~EraseFaults(Copy(n))
  BY <1>7 DEF EraseFaults, Live, Copy
<1>10. heap \subseteq Nodes
  BY ChainFacts
<1>11. next' \in [Places -> Pointers] /\ prev' \in [Places -> Pointers]
  BY <1>7, <1>8, <1>10 DEF Kept, Typed, Places, Pointers
<1>12. /\ prev'[after] = before
       /\ before # Null => next'[before] = after
       /\ \A p \in Places \ {after} : prev'[p] = prev[p]
       /\ \A p \in Places \ {before} : next'[p] = next[p]
  BY <1>7, <1>8, <1>10 DEF Kept, Typed, Places
<1>13. ASSUME NEW k \in 1 .. L - 1
       PROVE  /\ next'[order'[k]] = IF k = L - 1 THEN End ELSE order'[k + 1]
              /\ prev'[order'[k]] = IF k = 1 THEN Null ELSE order'[k - 1]
  <2>1. CASE k < i
    <3>1. k \in 1 .. L /\ order'[k] = order[k]
      BY <1>1, <1>2, <2>1
    <3>2. prev'[order'[k]] = prev[order[k]]
      <4>1. order[k] # after
        <5>1. i # L => order[k] # order[i + 1]
          BY <1>1, <1>5, <1>6, <2>1, <3>1
        <5> QED BY <1>3, <1>4, <3>1, <5>1
      <4> QED BY <1>4, <1>12, <3>1, <4>1 DEF Places
    <3>3. prev'[order'[k]] = IF k = 1 THEN Null ELSE order'[k - 1]
      <4>1. k # 1 => order'[k - 1] = order[k - 1]
        BY <1>1, <1>2, <2>1
      <4> QED BY <3>1, <3>2, <4>1, ChainFacts
    <3>4. CASE k = i - 1
      <4>1. order[k] = before /\ before # Null
        BY <1>1, <1>4, <1>6, <2>1, <3>4
      <4>2. next'[order'[k]] = after
        BY <1>12, <3>1, <4>1
      <4>3. k # L - 1 => order'[k + 1] = order[i + 1] /\ i # L
        BY <1>1, <1>2, <3>4
      <4>4. k = L - 1 => i = L
        BY <1>1, <3>4
      <4> QED BY <1>3, <3>3, <4>2, <4>3, <4>4
    <3>5. CASE k # i - 1
      <4>1. order[k] # before
        <5>1. i # 1 => order[k] # order[i - 1]
          BY <1>1, <1>5, <1>6, <3>1, <3>5
        <5> QED BY <1>3, <1>4, <3>1, <5>1
      <4>2. next'[order'[k]] = next[order[k]]
        BY <1>4, <1>12, <3>1, <4>1 DEF Places
      <4>3. k # L /\ k # L - 1 /\ order'[k + 1] = order[k + 1]
        BY <1>1, <1>2, <2>1, <3>5
      <4> QED BY <3>1, <3>3, <4>2, <4>3, ChainFacts
    <3> QED BY <3>4, <3>5
  <2>2. CASE ~(k < i)
    <3>1. k + 1 \in 1 .. L /\ order'[k] = order[k + 1] /\ k + 1 # i
      BY <1>1, <1>2, <2>2
    <3>2. next'[order'[k]] = next[order[k + 1]]
      <4>1. i # 1 => order[k + 1] # order[i - 1]
        BY <1>1, <1>5, <1>6, <2>2, <3>1
      <4>2. order[k + 1] # before
        BY <1>3, <1>4, <3>1, <4>1
      <4> QED BY <1>4, <1>12, <3>1, <4>2 DEF Places
    <3>3. next'[order'[k]] = IF k = L - 1 THEN End ELSE order'[k + 1]
      <4>1. k # L - 1 => order'[k + 1] = order[(k + 1) + 1]
        BY <1>1, <1>2, <2>2
      <4>2. k + 1 = L <=> k = L - 1
        BY <1>1
      <4> QED BY <3>1, <3>2, <4>1, <4>2, ChainFacts
    <3>4. CASE k = i
      <4>1. order[k + 1] = after
        BY <1>1, <1>3, <3>1, <3>4
      <4>2. prev'[order'[k]] = before
        BY <1>12, <3>1, <4>1
      <4>3. k # 1 => order'[k - 1] = order[i - 1]
        BY <1>1, <1>2, <3>4
      <4> QED BY <1>3, <3>3, <3>4, <4>2, <4>3
    <3>5. CASE k # i
      <4>1. order[k + 1] # after
        <5>1. i # L => order[k + 1] # order[i + 1]
          BY <1>1, <1>5, <1>6, <3>1, <3>5
        <5> QED BY <1>3, <1>4, <3>1, <5>1
      <4>2. prev'[order'[k]] = prev[order[k + 1]]
        BY <1>4, <1>12, <3>1, <4>1 DEF Places
      <4>3. prev[order[k + 1]] = order[k]
        <5>1. k + 1 # 1 /\ (k + 1) - 1 = k
          BY <1>1
        <5> QED BY <3>1, <5>1, ChainFacts
      <4>4. k # 1 /\ order'[k - 1] = order[k]
        BY <1>1, <1>2, <2>2, <3>5
      <4> QED BY <3>3, <4>2, <4>3, <4>4
    <3> QED BY <3>4, <3>5
  <2> QED BY <2>1, <2>2
<1>14. Chain'
  <2>1. L - 1 \in Nat
    BY <1>1
  <2>2. heap' = {order'[k] : k \in 1 .. L - 1}
    <3>1. heap = {order[k] : k \in 1 .. L}
      BY ChainFacts
    <3>2. \A k \in 1 .. L - 1 :
            \/ k \in 1 .. L /\ k # i /\ order'[k] = order[k]
            \/ k + 1 \in 1 .. L /\ k + 1 # i /\ order'[k] = order[k + 1]
      BY <1>1, <1>2
    <3>3. \A k \in 1 .. L : k = i \/ (k \in 1 .. L - 1 /\ order'[k] = order[k])
                           \/ (k - 1 \in 1 .. L - 1 /\ order'[k - 1] = order[k])
      BY <1>1, <1>2
    <3>4. \A k \in 1 .. L : k # i => order[k] # n
      BY <1>1, <1>5
    <3>5. heap' \subseteq {order'[k] : k \in 1 .. L - 1}
      BY <1>1, <1>8, <3>1, <3>3
    <3>6. {order'[k] : k \in 1 .. L - 1} \subseteq heap'
      BY <1>8, <3>1, <3>2, <3>4
    <3> QED BY <3>5, <3>6
  <2>3. \A j, k \in 1 .. L - 1 : order'[j] = order'[k] => j = k
    <3> SUFFICES ASSUME NEW j \in 1 .. L - 1, NEW k \in 1 .. L - 1, order'[j] = order'[k]
                 PROVE  j = k
      OBVIOUS
    <3> DEFINE J == IF j < i THEN j ELSE j + 1
               K == IF k < i THEN k ELSE k + 1
    <3>1. J \in 1 .. L /\ K \in 1 .. L /\ order'[j] = order[J] /\ order'[k] = order[K]
      BY <1>1, <1>2
    <3>2. J = K
      BY <1>5, <3>1
    <3> QED BY <1>1, <3>2
  <2>4. begin' = IF L - 1 = 0 THEN End ELSE order'[1]
    <3>1. begin = order[1] /\ (n = begin <=> i = 1)
      BY <1>1, <1>5, ChainFacts
    <3>2. CASE i = 1
      <4>1. begin' = after
        BY <1>8, <3>1, <3>2
      <4>2. L # 1 => after = order[2] /\ order'[1] = order[2]
        BY <1>1, <1>2, <1>3, <3>2
      <4>3. L = 1 => after = End
        BY <1>3, <3>2
      <4> QED BY <1>1, <4>1, <4>2, <4>3
    <3>3. CASE i # 1
      <4>1. begin' = begin
        BY <1>8, <3>1, <3>3
      <4>2. L - 1 # 0 /\ order'[1] = order[1]
        BY <1>1, <1>2, <3>3
      <4> QED BY <3>1, <4>1, <4>2
    <3> QED BY <3>2, <3>3
  <2>5. prev'[End] = IF L - 1 = 0 THEN Null ELSE order'[L - 1]
    <3>1. CASE i = L
      <4>1. L # 1 => order'[L - 1] = order[L - 1]
        BY <1>1, <1>2, <3>1
      <4> QED BY <1>1, <1>3, <1>12, <3>1, <4>1
    <3>2. CASE i # L
      <4>1. after # End /\ L - 1 # 0
        BY <1>1, <1>4, <1>6, <3>2
      <4>2. order'[L - 1] = order[L]
        BY <1>1, <1>2, <3>2
      <4>3. prev'[End] = prev[End]
        BY <1>12, <4>1 DEF Places
      <4> QED BY <1>1, <4>1, <4>2, <4>3, ChainFacts
    <3> QED BY <3>1, <3>2
  <2> QED BY <1>2, <1>13, <2>1, <2>2, <2>3, <2>4, <2>5, ChainPrimed
<1>15. next'[End] = Null
  <2>1. before # End
    BY <1>7, <1>10
  <2> QED BY <1>12, <2>1 DEF Kept, Places
<1> QED BY <1>2, <1>8, <1>9, <1>11, <1>14, <1>15 DEF Kept, Typed

\* Behind an element there is another, or the end.
Onward == \A n \in heap : Live(next[n])

LEMMA NextIsLive == Kept => Onward
<1> SUFFICES ASSUME Kept, NEW n \in heap PROVE Live(next[n])
  BY DEF Onward
<1>1. PICK k \in 1 .. Len(order) : order[k] = n
  BY ChainFacts
<1>2. k # Len(order) => k + 1 \in 1 .. Len(order)
  BY ChainFacts
<1> QED BY <1>1, <1>2, ChainFacts DEF Live

LEMMA NextIsLivePrimed == Kept' => Onward'
BY NextIsLive, PTL

----------------------------------------------------------------------------
(***************************************************************************)
(* The steps.                                                              *)
(***************************************************************************)

LEMMA Start == Init => IInv
<1> SUFFICES ASSUME Init PROVE IInv
  OBVIOUS
<1> USE NodeAssumption
<1>1. Typed /\ next[End] = Null
  BY DEF Init, Typed, Places, Pointers
<1>2. Chain
  BY DEF Init, Chain, ToSet, IsInjective, Places
<1> QED BY <1>1, <1>2 DEF Init, IInv, Kept, Ahead

\* What the walker erases through a copy that is not old.
LEMMA WalkerErases ==
  ASSUME Kept, Erased, ~misused'
  PROVE  /\ Current /\ it.object \in heap
         /\ Kept' /\ heap' = heap \ {it.object} /\ ~fault'
<1>1. Current /\ it = Copy(it.object) /\ it.object \in ToSet(order)
  BY DEF Erased, Current
<1>2. Erase(Copy(it.object)) /\ order' = RemoveAt(order, Index(it.object))
      /\ fault' = EraseFaults(Copy(it.object))
  BY <1>1 DEF Erased
<1>3. it.object \in heap
  BY <1>1 DEF Kept, Chain
<1> QED BY <1>1, <1>2, <1>3, ElementErased

\* Erasing one element leaves its neighbour behind where it is.
LEMMA NextRemains ==
  ASSUME Kept, NEW n \in heap
  PROVE  next[n] # n
<1>1. PICK k \in 1 .. Len(order) : order[k] = n
  BY ChainFacts
<1>2. CASE k = Len(order)
  BY <1>1, <1>2, ChainFacts, NodeAssumption
<1>3. CASE k # Len(order)
  <2>1. k + 1 \in 1 .. Len(order) /\ k + 1 # k
    BY <1>3, ChainFacts
  <2> QED BY <1>1, <1>3, <2>1, ChainFacts
<1> QED BY <1>2, <1>3

LEMMA Inductive == IInv /\ [Next]_vars => IInv' /\ (NoStrayAccess => NoStrayAccess')
<1> SUFFICES ASSUME IInv, [Next]_vars
             PROVE  IInv' /\ (NoStrayAccess => NoStrayAccess')
  OBVIOUS
<1> USE NodeAssumption
<1>1. ASSUME NEW n \in Nodes, InsertFirst(n)
      PROVE  IInv' /\ (NoStrayAccess => NoStrayAccess')
  <2>1. Kept' /\ heap \subseteq heap'
    BY <1>1, FirstInserted DEF IInv, InsertFirst, Insert
  <2>2. Ahead'
    BY <1>1, <2>1 DEF IInv, InsertFirst, walkVars, Ahead, Live
  <2> QED BY <1>1, <2>1, <2>2 DEF IInv, InsertFirst, NoStrayAccess
<1>2. ASSUME NEW n \in Nodes, InsertLast(n)
      PROVE  IInv' /\ (NoStrayAccess => NoStrayAccess')
  <2>1. Kept' /\ heap \subseteq heap'
    BY <1>2, LastInserted DEF IInv, InsertLast, Insert
  <2>2. Ahead'
    BY <1>2, <2>1 DEF IInv, InsertLast, walkVars, Ahead, Live
  <2> QED BY <1>2, <2>1, <2>2 DEF IInv, InsertLast, NoStrayAccess
<1>3. ASSUME NEW n \in Nodes, EraseFound(n)
      PROVE  IInv' /\ (NoStrayAccess => NoStrayAccess')
  <2>1. Kept' /\ heap' = heap \ {n} /\ ~fault'
    BY <1>3, ElementErased DEF IInv, EraseFound
  <2>2. Ahead'
    BY <1>3, <2>1 DEF IInv, EraseFound, Ahead, Live
  <2> QED BY <2>1, <2>2 DEF IInv, NoStrayAccess
<1>4. ASSUME Begin
      PROVE  IInv' /\ (NoStrayAccess => NoStrayAccess')
  <2>1. Kept /\ Kept' /\ heap' = heap /\ next' = next
    BY <1>4 DEF IInv, Begin, links, Running, Kept, Typed, Chain, Following, Preceding
  <2>2. begin = End \/ begin \in heap
    <3>1. Len(order) # 0 => 1 \in 1 .. Len(order)
      BY <2>1, ChainFacts
    <3> QED BY <2>1, <3>1, ChainFacts
  <2>3. Ahead'
    BY <1>4, <2>1, <2>2, NextIsLive DEF Begin, Ahead, Copy, Live, Onward
  <2> QED BY <1>4, <2>1, <2>3 DEF IInv, Begin, NoStrayAccess
<1>5. ASSUME Advance
      PROVE  IInv' /\ (NoStrayAccess => NoStrayAccess')
  <2>1. Kept /\ Ahead /\ Kept' /\ heap' = heap /\ next' = next
    BY <1>5 DEF IInv, Advance, At, links, Kept, Typed, Chain, Following, Preceding
  <2>2. fault' => misused'
    BY <1>5, <2>1 DEF Advance, At, Ahead
  <2>3. ~misused' => Live(it.next)
    BY <1>5, <2>1 DEF Advance, At, Ahead
  <2>4. ~misused' => Ahead'
    BY <1>5, <2>1, <2>3, NextIsLive DEF Advance, Ahead, Step, Copy, Live, Onward
  <2> QED BY <2>1, <2>2, <2>4 DEF IInv, Running, NoStrayAccess
<1>6. ASSUME SweepErases
      PROVE  IInv' /\ (NoStrayAccess => NoStrayAccess')
  <2> SUFFICES ASSUME ~misused'
               PROVE  IInv' /\ ~fault'
    BY DEF IInv, Running, NoStrayAccess
  <2>1. /\ Kept /\ Current /\ it.object \in heap
        /\ Kept' /\ heap' = heap \ {it.object} /\ ~fault'
    BY <1>6, WalkerErases DEF IInv, SweepErases, At
  <2>2. it.next = next[it.object]
    BY <2>1 DEF Current, Copy
  <2>3. it.next \in heap' \cup {End}
    BY <2>1, <2>2, NextIsLive, NextRemains DEF Onward, Live
  <2>4. \A n \in heap' : next'[n] \in heap' \cup {End}
    BY <2>1, NextIsLivePrimed DEF Onward, Live
  <2>5. next'[End] = Null
    BY <2>1 DEF Kept
  <2>6. \/ it' = After(it.next)
        \/ it' = After(next'[it.next]) /\ next'[it.next] # Null
    BY <1>6 DEF SweepErases, After
  <2>7. it'.object # End => it'.object \in heap' /\ it'.next = next'[it'.object]
    BY <2>3, <2>4, <2>5, <2>6 DEF After
  <2>8. Ahead'
    BY <2>4, <2>7 DEF Ahead, Live
  <2> QED BY <2>1, <2>8 DEF IInv
<1>7. ASSUME FindErases
      PROVE  IInv' /\ (NoStrayAccess => NoStrayAccess')
  <2> SUFFICES ASSUME ~misused'
               PROVE  IInv' /\ ~fault'
    BY DEF IInv, Running, NoStrayAccess
  <2>1. Kept' /\ ~fault'
    BY <1>7, WalkerErases DEF IInv, FindErases, At
  <2>2. Ahead'
    BY <1>7 DEF FindErases, Ahead
  <2> QED BY <2>1, <2>2 DEF IInv
<1>8. ASSUME Done
      PROVE  IInv' /\ (NoStrayAccess => NoStrayAccess')
  <2>1. Kept'
    BY <1>8 DEF IInv, Done, links, Kept, Typed, Chain, Following, Preceding
  <2>2. Ahead'
    BY <1>8 DEF Done, Ahead
  <2> QED BY <1>8, <2>1, <2>2 DEF IInv, Done, NoStrayAccess
<1>9. ASSUME UNCHANGED vars
      PROVE  IInv' /\ (NoStrayAccess => NoStrayAccess')
  <2>1. Kept <=> Kept'
    BY <1>9 DEF vars, links, Kept, Typed, Chain, Following, Preceding
  <2>2. Ahead <=> Ahead'
    BY <1>9 DEF vars, links, walkVars, Ahead, Live
  <2> QED BY <1>9, <2>1, <2>2 DEF vars, IInv, Running, NoStrayAccess
<1> QED BY <1>1, <1>2, <1>3, <1>4, <1>5, <1>6, <1>7, <1>8, <1>9 DEF Next

\* Forwards and backwards the links are the elements in their order, whatever is
\* inserted, erased and walked, as long as nobody erases through an old copy
\* (list::insert, list::erase).
THEOREM ListIsLinked == Spec => []Linked
<1>1. IInv => Linked
  BY DEF IInv, Linked, Kept
<1> QED BY <1>1, Start, Inductive, PTL DEF Spec

\* Copied iterators follow no freed node's links in a walk that waits, unless the
\* walk goes on through an element erased meanwhile (list::iterator::operator ++).
THEOREM WalksStayInside == Spec => []NoStrayAccess
<1>1. Init => NoStrayAccess
  BY DEF Init, NoStrayAccess
<1> QED BY <1>1, Start, Inductive, PTL DEF Spec

----------------------------------------------------------------------------
(***************************************************************************)
(* What a walk meets.                                                      *)
(***************************************************************************)
\* The elements from x on.
Later(s, x) == {s[k] : k \in {i \in DOMAIN s : \E j \in DOMAIN s : j <= i /\ s[j] = x}}

\* The walker has met those of the stayed that are before where it goes next, once,
\* and none of the others.
Halfway ==
  /\ \A n \in Later(order, it.next) : visits[n] = 0
  /\ walk # "skip" => \A n \in stayed \ Later(order, it.next) : visits[n] = 1

Counted ==
  /\ \A n \in Nodes : visits[n] <= 1
  /\ \A n \in Nodes \ ToSet(order) : visits[n] = 0
  /\ stayed \subseteq ToSet(order)

Met ==
  /\ Counted
  /\ walk # "none" /\ it.object # End => it.next # Null
  /\ walk # "none" /\ it.object = End => ~gone /\ it.next = Null
  /\ walk # "none" /\ it.object # End /\ ~gone => Halfway
  /\ walk \in Walks \ {"skip"} /\ it.object = End => \A n \in stayed : visits[n] = 1

LEMMA LaterIs ==
  ASSUME NEW s \in Seq(Nodes), NEW x, NEW n
  PROVE  n \in Later(s, x) <=> \E j, k \in 1 .. Len(s) : j <= k /\ s[j] = x /\ s[k] = n
<1>1. DOMAIN s = 1 .. Len(s)
  BY LenProperties
<1> QED BY <1>1 DEF Later

\* An element in front does not come later, one behind may, one that is removed
\* does no more.
LEMMA LaterFirst ==
  ASSUME NEW s \in Seq(Nodes), NEW n \in Nodes, NEW x, x # n
  PROVE  Later(<<n>> \o s, x) = Later(s, x)
<1> DEFINE t == <<n>> \o s
<1>1. /\ t \in Seq(Nodes) /\ Len(t) = Len(s) + 1 /\ t[1] = n /\ Len(s) \in Nat
      /\ \A k \in 2 .. Len(s) + 1 : t[k] = s[k - 1]
  BY AddedFirst, LenProperties
<1> HIDE DEF t
<1>2. ASSUME NEW m, m \in Later(t, x) PROVE m \in Later(s, x)
  <2>1. PICK j, k \in 1 .. Len(t) : j <= k /\ t[j] = x /\ t[k] = m
    BY <1>1, <1>2, LaterIs
  <2>2. j \in 2 .. Len(s) + 1 /\ k \in 2 .. Len(s) + 1
    BY <1>1, <2>1
  <2>3. j - 1 \in 1 .. Len(s) /\ k - 1 \in 1 .. Len(s) /\ j - 1 <= k - 1
    BY <1>1, <2>1, <2>2
  <2>4. s[j - 1] = x /\ s[k - 1] = m
    BY <1>1, <2>1, <2>2
  <2> QED BY <2>3, <2>4, LaterIs
<1>3. ASSUME NEW m, m \in Later(s, x) PROVE m \in Later(t, x)
  <2>1. PICK j, k \in 1 .. Len(s) : j <= k /\ s[j] = x /\ s[k] = m
    BY <1>3, LaterIs
  <2>2. /\ j + 1 \in 2 .. Len(s) + 1 /\ k + 1 \in 2 .. Len(s) + 1 /\ j + 1 <= k + 1
        /\ j + 1 \in 1 .. Len(t) /\ k + 1 \in 1 .. Len(t)
        /\ (j + 1) - 1 = j /\ (k + 1) - 1 = k
    BY <1>1, <2>1
  <2>3. t[j + 1] = x /\ t[k + 1] = m
    BY <1>1, <2>1, <2>2
  <2> QED BY <1>1, <2>2, <2>3, LaterIs
<1>4. Later(t, x) = Later(s, x)
  BY <1>2, <1>3
<1> QED BY <1>4 DEF t

LEMMA LaterLast ==
  ASSUME NEW s \in Seq(Nodes), NEW n \in Nodes, NEW x
  PROVE  /\ Later(s, x) \subseteq Later(Append(s, n), x)
         /\ Later(Append(s, n), x) \subseteq Later(s, x) \cup {n}
<1> DEFINE t == Append(s, n)
<1>1. /\ t \in Seq(Nodes) /\ Len(t) = Len(s) + 1 /\ t[Len(s) + 1] = n /\ Len(s) \in Nat
      /\ \A k \in 1 .. Len(s) : t[k] = s[k]
  BY LenProperties, AppendProperties
<1> HIDE DEF t
<1>2. ASSUME NEW m, m \in Later(t, x), m # n PROVE m \in Later(s, x)
  <2>1. PICK j, k \in 1 .. Len(t) : j <= k /\ t[j] = x /\ t[k] = m
    BY <1>1, <1>2, LaterIs
  <2>2. j \in 1 .. Len(s) /\ k \in 1 .. Len(s)
    BY <1>1, <1>2, <2>1
  <2> QED BY <1>1, <2>1, <2>2, LaterIs
<1>3. ASSUME NEW m, m \in Later(s, x) PROVE m \in Later(t, x)
  <2>1. PICK j, k \in 1 .. Len(s) : j <= k /\ s[j] = x /\ s[k] = m
    BY <1>3, LaterIs
  <2>2. j \in 1 .. Len(t) /\ k \in 1 .. Len(t)
    BY <1>1
  <2> QED BY <1>1, <2>1, <2>2, LaterIs
<1> QED BY <1>2, <1>3 DEF t

LEMMA LaterRemoved ==
  ASSUME NEW s \in Seq(Nodes), NEW i \in 1 .. Len(s), NEW x, x # s[i],
         \A j, k \in 1 .. Len(s) : s[j] = s[k] => j = k
  PROVE  Later(RemoveAt(s, i), x) = Later(s, x) \ {s[i]}
<1> DEFINE t == RemoveAt(s, i)
<1>1. /\ t \in Seq(Nodes) /\ Len(t) = Len(s) - 1 /\ Len(s) \in Nat
      /\ \A j \in 1 .. Len(s) - 1 : t[j] = IF j < i THEN s[j] ELSE s[j + 1]
  BY Removed, LenProperties
<1> HIDE DEF t
<1>2. ASSUME NEW m, m \in Later(t, x) PROVE m \in Later(s, x) \ {s[i]}
  <2>1. PICK j, k \in 1 .. Len(t) : j <= k /\ t[j] = x /\ t[k] = m
    BY <1>1, <1>2, LaterIs
  <2> DEFINE J == IF j < i THEN j ELSE j + 1
             K == IF k < i THEN k ELSE k + 1
  <2>2. J \in 1 .. Len(s) /\ K \in 1 .. Len(s) /\ J <= K /\ K # i
    BY <1>1, <2>1
  <2>3. s[J] = x /\ s[K] = m
    BY <1>1, <2>1
  <2> HIDE DEF J, K
  <2> QED BY <2>2, <2>3, LaterIs
<1>3. ASSUME NEW m, m \in Later(s, x), m # s[i] PROVE m \in Later(t, x)
  <2>1. PICK j, k \in 1 .. Len(s) : j <= k /\ s[j] = x /\ s[k] = m
    BY <1>3, LaterIs
  <2>2. j # i /\ k # i
    BY <1>3, <2>1
  <2> DEFINE J == IF j < i THEN j ELSE j - 1
             K == IF k < i THEN k ELSE k - 1
  <2>3. /\ J \in 1 .. Len(s) - 1 /\ K \in 1 .. Len(s) - 1 /\ J <= K
        /\ J < i => J = j
        /\ ~(J < i) => J + 1 = j
        /\ K < i => K = k
        /\ ~(K < i) => K + 1 = k
    BY <1>1, <2>1, <2>2
  <2> HIDE DEF J, K
  <2>4. t[J] = x /\ t[K] = m
    BY <1>1, <2>1, <2>3
  <2> QED BY <1>1, <2>3, <2>4, LaterIs
<1>4. Later(t, x) = Later(s, x) \ {s[i]}
  BY <1>2, <1>3
<1> QED BY <1>4 DEF t

\* From the element that follows n on come those that come from n on, without n.
Steps ==
  /\ \A n \in heap : /\ n \in Later(order, n)
                     /\ Later(order, next[n]) = Later(order, n) \ {n}
  /\ Later(order, End) = {}
  /\ heap = ToSet(order) /\ heap \subseteq Nodes

LEMMA KeptSteps == Kept => Steps
<1> SUFFICES ASSUME Kept PROVE Steps
  OBVIOUS
<1> USE NodeAssumption
<1>0. order \in Seq(Nodes) /\ heap = ToSet(order)
  BY DEF Kept, Typed, Chain
<1>1. \A x : x \notin Nodes => Later(order, x) = {}
  BY <1>0, LaterIs, ChainFacts
<1>2. ASSUME NEW n \in heap
      PROVE  /\ n \in Later(order, n)
             /\ Later(order, next[n]) = Later(order, n) \ {n}
  <2>1. PICK i \in 1 .. Len(order) : order[i] = n
    BY ChainFacts
  <2>2. n \in Later(order, n)
    BY <1>0, <2>1, LaterIs
  <2>3. CASE i = Len(order)
    <3>1. next[n] = End
      BY <2>1, <2>3, ChainFacts
    <3>2. ASSUME NEW m \in Later(order, n) PROVE m = n
      <4>1. PICK j, k \in 1 .. Len(order) : j <= k /\ order[j] = n /\ order[k] = m
        BY <1>0, LaterIs
      <4>2. j = i
        BY <2>1, <4>1, ChainFacts
      <4> QED BY <2>1, <2>3, <4>1, <4>2
    <3> QED BY <1>1, <2>2, <3>1, <3>2
  <2>4. CASE i # Len(order)
    <3>1. Len(order) \in Nat /\ i + 1 \in 1 .. Len(order) /\ next[n] = order[i + 1]
      BY <2>1, <2>4, ChainFacts
    <3>2. ASSUME NEW m, m \in Later(order, n), m # n PROVE m \in Later(order, next[n])
      <4>1. PICK j, k \in 1 .. Len(order) : j <= k /\ order[j] = n /\ order[k] = m
        BY <1>0, <3>2, LaterIs
      <4>2. j = i /\ k # i
        BY <2>1, <3>2, <4>1, ChainFacts
      <4>3. i + 1 <= k
        BY <4>1, <4>2
      <4> QED BY <1>0, <3>1, <4>1, <4>3, LaterIs
    <3>3. ASSUME NEW m, m \in Later(order, next[n]) PROVE m \in Later(order, n) /\ m # n
      <4>1. PICK j, k \in 1 .. Len(order) : j <= k /\ order[j] = next[n] /\ order[k] = m
        BY <1>0, <3>3, LaterIs
      <4>2. j = i + 1
        BY <3>1, <4>1, ChainFacts
      <4>3. i <= k /\ i # k
        BY <4>1, <4>2
      <4>4. m # n
        BY <2>1, <4>1, <4>3, ChainFacts
      <4> QED BY <1>0, <2>1, <4>1, <4>3, <4>4, LaterIs
    <3> QED BY <2>2, <3>2, <3>3
  <2> QED BY <2>2, <2>3, <2>4
<1>3. heap \subseteq Nodes
  BY ChainFacts
<1> QED BY <1>0, <1>1, <1>2, <1>3 DEF Steps

LEMMA KeptStepsPrimed == Kept' => Steps'
BY KeptSteps, PTL

LEMMA KeptTyped ==
  ASSUME Kept
  PROVE  /\ next \in [Places -> Pointers] /\ prev \in [Places -> Pointers]
         /\ begin \in Places /\ heap \subseteq Nodes /\ order \in Seq(Nodes)
<1>1. Len(order) # 0 => 1 \in 1 .. Len(order)
  BY ChainFacts
<1> QED BY <1>1, ChainFacts DEF Kept, Typed, Places

LEMMA KeptTypedPrimed ==
  Kept' => (/\ next \in [Places -> Pointers] /\ prev \in [Places -> Pointers]
            /\ begin \in Places /\ heap \subseteq Nodes /\ order \in Seq(Nodes))'
BY KeptTyped, PTL

LEMMA CopyTyped ==
  ASSUME next \in [Places -> Pointers], prev \in [Places -> Pointers], NEW n \in Places
  PROVE  Copy(n) \in Iterators
BY DEF Copy, Iterators

LEMMA MeetsTyped ==
  ASSUME NEW v \in [Nodes -> Nat], NEW n \in Nodes
  PROVE  /\ Meets(n, v) \in [Nodes -> Nat]
         /\ Meets(n, v)[n] = v[n] + 1
         /\ \A m \in Nodes \ {n} : Meets(n, v)[m] = v[m]
BY DEF Meets

\* The walker's erasing keeps the links typed even through an old copy.
LEMMA ErasedTyped ==
  ASSUME TypeOK, IInv, Running, Erased, it.next \in Places
  PROVE  /\ next' \in [Places -> Pointers] /\ prev' \in [Places -> Pointers]
         /\ begin' \in Places /\ heap' \subseteq Nodes /\ order' \in Seq(Nodes)
         /\ fault' \in BOOLEAN /\ misused' \in BOOLEAN /\ gone' \in BOOLEAN
<1>1. it.prev \in Pointers /\ it.next \in Pointers
  BY DEF TypeOK, Iterators
<1>2. /\ prev' = [prev EXCEPT ![it.next] = it.prev]
      /\ next' = [p \in Places |-> IF p = it.prev THEN it.next ELSE next[p]]
      /\ heap' \subseteq heap
      /\ begin' = IF it.object = begin THEN it.next ELSE begin
  BY DEF Erased, Erase
<1>3. order' \in Seq(Nodes)
  <2>1. CASE Current
    <3>1. Index(it.object) \in 1 .. Len(order) /\ order' = RemoveAt(order, Index(it.object))
      BY <2>1, IndexOf DEF Erased, Current, IInv
    <3> QED BY <3>1, Removed DEF TypeOK
  <2>2. CASE ~Current
    BY <2>2 DEF Erased, TypeOK
  <2> QED BY <2>1, <2>2
<1>4. fault' \in BOOLEAN /\ misused' \in BOOLEAN /\ gone' \in BOOLEAN
  BY DEF Erased, EraseFaults
<1> QED BY <1>1, <1>2, <1>3, <1>4 DEF TypeOK

LEMMA AfterTyped ==
  ASSUME next' \in [Places -> Pointers], prev' \in [Places -> Pointers], NEW n \in Places
  PROVE  /\ After(n) \in Iterators /\ After(n).object = n
         /\ After(n).next = next'[n]
         /\ After(n).next \in Pointers
BY DEF After, Iterators

LEMMA TypesKept ==
  ASSUME TypeOK, IInv, Running => Met, Next
  PROVE  TypeOK'
<1> USE NodeAssumption
<1>0. IInv'
  BY Inductive
<1>1. ASSUME NEW n \in Nodes, InsertFirst(n) \/ InsertLast(n) PROVE TypeOK'
  <2>1. Kept' /\ UNCHANGED <<walkVars, fault, misused>>
    BY <1>0, <1>1 DEF InsertFirst, InsertLast, IInv, Running
  <2> QED BY <2>1, KeptTypedPrimed DEF walkVars, TypeOK
<1>2. ASSUME NEW n \in Nodes, EraseFound(n) PROVE TypeOK'
  <2>1. Kept' /\ fault' = FALSE
    BY <1>2, ElementErased DEF EraseFound, IInv
  <2>2. stayed' \subseteq Nodes /\ visits' \in [Nodes -> Nat]
    BY <1>2 DEF EraseFound, Forget, TypeOK
  <2>3. gone' \in BOOLEAN /\ UNCHANGED <<walk, it, misused>>
    BY <1>2 DEF EraseFound, TypeOK
  <2> QED BY <2>1, <2>2, <2>3, KeptTypedPrimed DEF TypeOK
<1>3. CASE Begin
  <2>1. begin \in Places /\ UNCHANGED <<next, prev, begin, heap, order, fault, misused>>
    BY <1>3 DEF Begin, links, TypeOK
  <2>2. it' \in Iterators /\ walk' \in Walks /\ gone' = FALSE
    BY <1>3, <2>1, CopyTyped DEF Begin, TypeOK
  <2>3. stayed' \subseteq Nodes
    <3>1. heap = ToSet(order) /\ heap \subseteq Nodes
      BY <1>3, KeptTyped DEF Begin, IInv, Kept, Chain
    <3> QED BY <1>3, <3>1 DEF Begin
  <2>4. visits' \in [Nodes -> Nat]
    <3>1. [n \in Nodes |-> 0] \in [Nodes -> Nat]
      OBVIOUS
    <3>2. begin = End \/ begin \in Nodes
      BY <2>1 DEF Places
    <3>3. begin \in Nodes => Meets(begin, [n \in Nodes |-> 0]) \in [Nodes -> Nat]
      BY <3>1, MeetsTyped
    <3> QED BY <1>3, <3>1, <3>2, <3>3 DEF Begin
  <2> QED BY <2>1, <2>2, <2>3, <2>4 DEF TypeOK
<1>4. CASE Advance
  <2>1. it.next \in Places
    BY <1>4 DEF Advance, At, Met, TypeOK, Iterators, Pointers
  <2>2. it' \in Iterators
    BY <1>4, <2>1, CopyTyped DEF Advance, Step, TypeOK
  <2>3. fault' \in BOOLEAN /\ misused' \in BOOLEAN /\ gone' = FALSE
    BY <1>4 DEF Advance, TypeOK
  <2>4. visits' \in [Nodes -> Nat]
    BY <1>4, MeetsTyped DEF Advance, TypeOK
  <2> QED BY <1>4, <2>2, <2>3, <2>4 DEF Advance, links, TypeOK
<1>5. CASE SweepErases
  <2>1. it.next \in Places /\ Erased /\ Running
    BY <1>5 DEF SweepErases, At, Met, TypeOK, Iterators, Pointers
  <2>2. /\ next' \in [Places -> Pointers] /\ prev' \in [Places -> Pointers]
        /\ begin' \in Places /\ heap' \subseteq Nodes /\ order' \in Seq(Nodes)
        /\ fault' \in BOOLEAN /\ misused' \in BOOLEAN /\ gone' \in BOOLEAN
    BY <2>1, ErasedTyped
  <2>3. it' \in Iterators
    <3> DEFINE s == After(it.next)
    <3>1. s \in Iterators /\ s.next \in Pointers
      BY <2>1, <2>2, AfterTyped
    <3>2. s.next # Null => After(s.next) \in Iterators
      BY <2>2, <3>1, AfterTyped DEF Pointers
    <3> HIDE DEF s
    <3>3. it' = s \/ (s.next # Null /\ it' = After(s.next))
      BY <1>5 DEF SweepErases, s
    <3> QED BY <3>1, <3>2, <3>3
  <2>4. visits' \in [Nodes -> Nat]
    <3> DEFINE erased == [visits EXCEPT ![it.object] = 0]
    <3>1. erased \in [Nodes -> Nat]
      BY DEF TypeOK
    <3>2. visits' = IF it'.object \in Nodes THEN Meets(it'.object, erased) ELSE erased
      BY <1>5 DEF SweepErases
    <3> HIDE DEF erased
    <3> QED BY <3>1, <3>2, MeetsTyped
  <2>5. stayed' \subseteq Nodes /\ walk' = walk
    BY <1>5 DEF SweepErases, TypeOK
  <2> QED BY <2>2, <2>3, <2>4, <2>5 DEF TypeOK
<1>6. CASE FindErases
  <2>1. it.next \in Places /\ Erased /\ Running
    BY <1>6 DEF FindErases, At, Met, TypeOK, Iterators, Pointers
  <2>2. /\ next' \in [Places -> Pointers] /\ prev' \in [Places -> Pointers]
        /\ begin' \in Places /\ heap' \subseteq Nodes /\ order' \in Seq(Nodes)
        /\ fault' \in BOOLEAN /\ misused' \in BOOLEAN /\ gone' \in BOOLEAN
    BY <2>1, ErasedTyped
  <2>3. /\ stayed' \subseteq Nodes /\ visits' \in [Nodes -> Nat]
        /\ walk' = "none" /\ it' = it
    BY <1>6 DEF FindErases, Forget, TypeOK
  <2> QED BY <2>2, <2>3 DEF TypeOK
<1>7. CASE Done
  BY <1>7 DEF Done, links, TypeOK
<1> QED BY <1>1, <1>2, <1>3, <1>4, <1>5, <1>6, <1>7 DEF Next

\* What others insert or erase leaves what the walker has met.
LEMMA InsertedMet ==
  ASSUME TypeOK, Kept, Ahead, Met, Kept', NEW n \in Nodes \ heap, UNCHANGED walkVars,
         order' = <<n>> \o order \/ order' = Append(order, n)
  PROVE  Met'
<1> USE NodeAssumption
<1>1. Steps /\ Steps' /\ order \in Seq(Nodes)
  BY KeptSteps, KeptStepsPrimed DEF TypeOK
<1>2. visits[n] = 0 /\ n \notin stayed /\ visits' = visits /\ stayed' = stayed
      /\ UNCHANGED <<walk, it, gone>>
  BY <1>1 DEF Met, Counted, Steps, walkVars
<1>3. ToSet(order') = ToSet(order) \cup {n}
  <2>1. CASE order' = <<n>> \o order
    <3>1. IsInjective(order) /\ n \notin ToSet(order)
      BY <1>1 DEF Kept, Chain
    <3> QED BY <1>1, <2>1, <3>1, SetAddedFirst
  <2>2. CASE order' = Append(order, n)
    <3>1. /\ DOMAIN order = 1 .. Len(order) /\ Len(order) \in Nat
          /\ DOMAIN order' = 1 .. Len(order) + 1
          /\ order'[Len(order) + 1] = n
          /\ \A k \in 1 .. Len(order) : order'[k] = order[k]
      BY <1>1, <2>2, LenProperties, AppendProperties
    <3> QED BY <3>1 DEF ToSet
  <2> QED BY <2>1, <2>2
<1>4. Counted'
  BY <1>2, <1>3 DEF Met, Counted
<1>5. ASSUME walk # "none", it.object # End, ~gone, Halfway PROVE Halfway'
  <2>1. ASSUME NEW x, x # n
        PROVE  /\ Later(order, x) \subseteq Later(order', x)
               /\ Later(order', x) \subseteq Later(order, x) \cup {n}
    <3>1. CASE order' = <<n>> \o order
      <4>1. Later(<<n>> \o order, x) = Later(order, x)
        BY <1>1, <2>1, LaterFirst
      <4> QED BY <3>1, <4>1
    <3>2. CASE order' = Append(order, n)
      BY <1>1, <3>2, LaterLast
    <3> QED BY <3>1, <3>2
  <2>2. it.next # n
    BY <1>5 DEF Ahead, Live
  <2> QED BY <1>2, <1>5, <2>1, <2>2 DEF Halfway
<1> QED BY <1>2, <1>4, <1>5 DEF Met

LEMMA ErasedMet ==
  ASSUME TypeOK, Kept, Met, NEW n \in ToSet(order), Erase(Copy(n)),
         order' = RemoveAt(order, Index(n)),
         gone' = (gone \/ (walk # "none" /\ n = it.next)), Forget(n), UNCHANGED <<walk, it>>
  PROVE  Met'
<1> USE NodeAssumption
<1>1. /\ Kept' /\ heap' = heap \ {n} /\ order \in Seq(Nodes) /\ n \in Nodes
      /\ heap = ToSet(order) /\ heap' = ToSet(order')
  BY ElementErased, KeptSteps, KeptStepsPrimed DEF Steps, TypeOK
<1>2. /\ stayed' = stayed \ {n} /\ visits' = [visits EXCEPT ![n] = 0]
      /\ visits \in [Nodes -> Nat] /\ stayed \subseteq Nodes
  BY DEF Forget, TypeOK
<1>3. Counted'
  BY <1>1, <1>2 DEF Met, Counted
<1>4. ASSUME Halfway, it.next # n PROVE Halfway'
  <2>1. Later(order', it.next) = Later(order, it.next) \ {n}
    <3>1. Index(n) \in 1 .. Len(order) /\ order[Index(n)] = n
      BY IndexOf
    <3> QED BY <1>1, <1>4, <3>1, LaterRemoved, ChainFacts
  <2>2. Later(order, it.next) \subseteq Nodes
    BY <1>1 DEF Later, ToSet
  <2> QED BY <1>2, <1>4, <2>1, <2>2 DEF Halfway
<1>5. walk # "none" /\ it.object = End => ~gone' /\ it.next = Null
  BY <1>1 DEF Met
<1>6. walk \in Walks \ {"skip"} /\ it.object = End => \A m \in stayed' : visits'[m] = 1
  BY <1>2 DEF Met
<1>7. walk # "none" /\ it.object # End /\ ~gone' => Halfway'
  BY <1>4 DEF Met
<1> QED BY <1>3, <1>5, <1>6, <1>7 DEF Met

\* Going on to x, which is where the walk goes next or behind that, meets x only.
LEMMA WalkedOn ==
  ASSUME NEW x \in Places, Kept', Running',
         it'.object = x, it'.next = next'[x], gone' = FALSE, walk' # "none",
         NEW v \in [Nodes -> Nat],
         visits' = IF x \in Nodes THEN Meets(x, v) ELSE v,
         x = End \/ x \in heap',
         \A n \in Nodes : v[n] <= 1,
         \A n \in Nodes \ ToSet(order') : v[n] = 0,
         stayed' \subseteq ToSet(order'),
         \A n \in Later(order', x) : v[n] = 0,
         walk' # "skip" => \A n \in stayed' \ Later(order', x) : v[n] = 1
  PROVE  Met'
<1> USE NodeAssumption
<1>1. Steps' /\ next'[End] = Null
  BY KeptStepsPrimed DEF Kept
<1>2. CASE x = End
  <2>1. visits' = v /\ Later(order', x) = {}
    BY <1>1, <1>2 DEF Steps
  <2> QED BY <1>1, <1>2, <2>1 DEF Met, Counted
<1>3. CASE x \in heap'
  <2>1. /\ x \in Later(order', x) /\ Later(order', next'[x]) = Later(order', x) \ {x}
        /\ heap' = ToSet(order') /\ heap' \subseteq Nodes
    BY <1>1, <1>3 DEF Steps
  <2>2. /\ visits'[x] = 1
        /\ \A n \in Nodes \ {x} : visits'[n] = v[n]
    <3>1. x \in Nodes /\ v[x] = 0
      BY <1>3, <2>1
    <3> QED BY <3>1, MeetsTyped
  <2>3. Counted'
    BY <1>3, <2>1, <2>2 DEF Counted
  <2>4. Halfway'
    <3>1. Later(order', next'[x]) \subseteq Nodes
      BY <2>1 DEF Later, ToSet
    <3> QED BY <2>1, <2>2, <3>1 DEF Halfway
  <2>5. x # End /\ next'[x] # Null
    <3>1. Onward'
      BY NextIsLivePrimed
    <3>2. next'[x] \in heap' \cup {End}
      BY <1>3, <3>1 DEF Onward, Live
    <3> QED BY <1>3, <2>1, <3>2
  <2> QED BY <2>3, <2>4, <2>5 DEF Met
<1> QED BY <1>2, <1>3

\* A walk begins at the first element, before which there is none.
LEMMA BegunMet ==
  ASSUME TypeOK, IInv, Begin, Running', Kept'
  PROVE  Met'
<1> USE NodeAssumption
<1> DEFINE v == [n \in Nodes |-> 0]
<1>1. /\ UNCHANGED <<next, begin, order, heap>> /\ gone' = FALSE /\ stayed' = ToSet(order)
      /\ walk' # "none" /\ it' = Copy(begin)
      /\ visits' = IF begin = End THEN v ELSE Meets(begin, v)
  BY DEF Begin, links, Walks
<1>2. /\ v \in [Nodes -> Nat] /\ \A n \in Nodes : v[n] = 0
      /\ \A n \in Nodes : v[n] <= 1
  OBVIOUS
<1> HIDE DEF v
<1>3. Kept /\ begin \in Places /\ heap = ToSet(order) /\ heap \subseteq Nodes
  BY KeptSteps DEF Begin, IInv, Steps, TypeOK
<1>4. begin = End \/ begin \in heap
  <2>1. Len(order) # 0 => 1 \in 1 .. Len(order)
    BY <1>3, ChainFacts
  <2> QED BY <1>3, <2>1, ChainFacts
<1>5. ToSet(order) \subseteq Later(order, begin) /\ Later(order, begin) \subseteq Nodes
  <2>1. ASSUME NEW n \in ToSet(order) PROVE n \in Later(order, begin)
    <3>1. PICK k \in 1 .. Len(order) : order[k] = n
      BY <1>3, ChainFacts
    <3>2. 1 \in 1 .. Len(order) /\ 1 <= k /\ order[1] = begin
      BY <1>3, ChainFacts
    <3> QED BY <3>1, <3>2, LaterIs DEF TypeOK
  <2> QED BY <1>3, <2>1 DEF Later, ToSet
<1>6. begin \in Nodes <=> begin # End
  BY <1>3, <1>4
<1>7. it'.object = begin /\ it'.next = next'[begin]
  BY <1>1 DEF Copy
<1>8. visits' = IF begin \in Nodes THEN Meets(begin, v) ELSE v
  BY <1>1, <1>6
<1> QED BY <1>1, <1>2, <1>3, <1>4, <1>5, <1>7, <1>8, WalkedOn

LEMMA AdvancedMet ==
  ASSUME TypeOK, IInv, Met, Advance, Running', Kept'
  PROVE  Met'
<1> USE NodeAssumption
<1>1. /\ ~gone /\ walk # "none" /\ it.object # End
      /\ UNCHANGED <<next, order, heap, walk, stayed>> /\ gone' = FALSE
      /\ it' = Copy(it.next)
  BY DEF Advance, At, Step, links, Running
<1>2. /\ it'.object = it.next /\ it'.next = next'[it.next]
      /\ visits' = IF it.next \in Nodes THEN Meets(it.next, visits) ELSE visits
  BY <1>1 DEF Advance, Copy
<1>3. it.next = End \/ it.next \in heap'
  BY <1>1 DEF IInv, Ahead, Live, Advance, At
<1>4. it.next \in Places
  BY <1>1, <1>3 DEF TypeOK, Places
<1> QED BY <1>1, <1>2, <1>3, <1>4, WalkedOn DEF Met, Counted, Halfway, TypeOK

\* An element erased in its own walk is forgotten, and the walk goes on behind it.
LEMMA SweptMet ==
  ASSUME TypeOK, IInv, Met, SweepErases, Running'
  PROVE  Met'
<1> USE NodeAssumption
<1> DEFINE n == it.object
           x == it.next
           v == [visits EXCEPT ![it.object] = 0]
           s == After(it.next)
<1>1. /\ Kept /\ Erased /\ ~misused' /\ walk' = walk /\ walk # "none" /\ n # End
      /\ walk \in {"sweep", "skip"} /\ stayed' = stayed \ {n}
  BY DEF SweepErases, At, Running, IInv
<1>2. /\ Current /\ n \in heap /\ Kept' /\ heap' = heap \ {n} /\ gone' = FALSE
  BY <1>1, WalkerErases DEF Erased
<1>3. Steps /\ Steps' /\ n \in Nodes /\ x = next[n] /\ ~gone /\ x # n
  <2>1. Steps /\ Steps'
    BY <1>1, <1>2, KeptSteps, KeptStepsPrimed
  <2>2. x = next[n] /\ ~gone
    BY <1>2 DEF Current, Copy
  <2> QED BY <1>1, <1>2, <2>1, <2>2, NextRemains DEF Steps
<1>4. x = End \/ x \in heap'
  BY <1>1, <1>2, <1>3, NextIsLive DEF Onward, Live
<1>5. Later(order', x) = Later(order, x) /\ n \notin Later(order, x)
  <2>1. /\ Index(n) \in 1 .. Len(order) /\ order[Index(n)] = n
        /\ order' = RemoveAt(order, Index(n)) /\ order \in Seq(Nodes)
    BY <1>1, <1>2, IndexOf DEF Erased, Current, TypeOK
  <2>2. Later(order', x) = Later(order, x) \ {n}
    BY <1>1, <1>3, <2>1, LaterRemoved, ChainFacts
  <2>3. n \notin Later(order, x)
    BY <1>2, <1>3 DEF Steps
  <2> QED BY <2>2, <2>3
<1>6. /\ v \in [Nodes -> Nat] /\ v[n] = 0
      /\ \A m \in Nodes \ {n} : v[m] = visits[m]
  BY <1>3 DEF TypeOK
<1>7. /\ \A m \in Nodes : v[m] <= 1
      /\ \A m \in Nodes \ ToSet(order') : v[m] = 0
      /\ stayed' \subseteq ToSet(order')
  <2>1. ToSet(order') = ToSet(order) \ {n}
    BY <1>2, <1>3 DEF Steps
  <2> QED BY <1>1, <1>6, <2>1 DEF Met, Counted
<1>8. Halfway
  BY <1>1, <1>3 DEF Met
<1>9. /\ \A m \in Later(order', x) : v[m] = 0
      /\ walk' # "skip" => \A m \in stayed' \ Later(order', x) : v[m] = 1
  <2>1. Later(order', x) \subseteq Nodes
    BY <1>2, KeptTypedPrimed, LaterIs, ElementOfSeq
  <2>2. stayed \subseteq Nodes
    BY DEF TypeOK
  <2> QED BY <1>1, <1>5, <1>6, <1>8, <2>1, <2>2 DEF Halfway
<1>10. /\ s.object = x /\ s.next = next'[x] /\ x \in Places
       /\ \A y \in Places : After(y).object = y /\ After(y).next = next'[y]
  BY <1>3, <1>4 DEF After, Places, Steps
<1>11. /\ it' = IF walk = "skip" /\ s.next # Null THEN After(s.next) ELSE s
       /\ visits' = IF it'.object \in Nodes THEN Meets(it'.object, v) ELSE v
  BY DEF SweepErases
<1> HIDE DEF v, s
<1>12. CASE walk = "skip" /\ s.next # Null
  <2> DEFINE y == next'[x]
  <2>1. y # Null /\ it' = After(y)
    BY <1>10, <1>11, <1>12
  <2>2. x \in heap'
    BY <1>2, <1>4, <2>1 DEF Kept
  <2>3. y = End \/ y \in heap'
    BY <1>2, <2>2, NextIsLivePrimed DEF Onward, Live
  <2>4. Later(order', y) \subseteq Later(order', x)
    BY <1>3, <2>2 DEF Steps
  <2>5. y \in Places
    BY <1>3, <2>3 DEF Places, Steps
  <2>6. it'.object = y /\ it'.next = next'[y]
    BY <1>10, <2>1, <2>5
  <2> HIDE DEF y
  <2>7. /\ visits' = IF y \in Nodes THEN Meets(y, v) ELSE v
        /\ walk' = "skip" /\ walk' # "none"
        /\ \A m \in Later(order', y) : v[m] = 0
    BY <1>1, <1>9, <1>11, <1>12, <2>4, <2>6
  <2> QED BY <1>2, <1>6, <1>7, <2>3, <2>5, <2>6, <2>7, WalkedOn
<1>13. CASE ~(walk = "skip" /\ s.next # Null)
  <2>1. /\ it'.object = x /\ it'.next = next'[x]
        /\ visits' = IF x \in Nodes THEN Meets(x, v) ELSE v
    BY <1>10, <1>11, <1>13
  <2> QED BY <1>1, <1>2, <1>4, <1>6, <1>7, <1>9, <1>10, <2>1, WalkedOn
<1> QED BY <1>12, <1>13

LEMMA FoundMet ==
  ASSUME TypeOK, IInv, Met, FindErases, Running'
  PROVE  Met'
<1> USE NodeAssumption
<1> DEFINE n == it.object
<1>1. /\ Kept /\ Erased /\ ~misused' /\ walk' = "none"
      /\ stayed' = stayed \ {n} /\ visits' = [visits EXCEPT ![n] = 0]
  BY DEF FindErases, Forget, At, Running, IInv
<1>2. n \in heap /\ Kept' /\ heap' = heap \ {n}
  BY <1>1, WalkerErases
<1>3. Steps /\ Steps'
  BY <1>1, <1>2, KeptSteps, KeptStepsPrimed
<1>4. ToSet(order') = ToSet(order) \ {n} /\ n \in Nodes
  BY <1>2, <1>3 DEF Steps
<1>5. Counted'
  BY <1>1, <1>4 DEF Met, Counted, TypeOK
<1> QED BY <1>1, <1>5 DEF Met, Walks

LEMMA MetKept ==
  ASSUME TypeOK, IInv, Running => Met, Next
  PROVE  Running' => Met'
<1> SUFFICES ASSUME Running' PROVE Met'
  OBVIOUS
<1> USE NodeAssumption
<1>0. IInv' /\ Kept'
  BY Inductive DEF IInv
<1>1. ASSUME NEW n \in Nodes, InsertFirst(n) \/ InsertLast(n) PROVE Met'
  <2>1. /\ Running /\ n \in Nodes \ heap /\ UNCHANGED walkVars
        /\ order' = <<n>> \o order \/ order' = Append(order, n)
    BY <1>1 DEF InsertFirst, InsertLast, Insert
  <2> QED BY <1>0, <2>1, InsertedMet DEF IInv
<1>2. ASSUME NEW n \in Nodes, EraseFound(n) PROVE Met'
  BY <1>2, ErasedMet DEF EraseFound, IInv
<1>3. CASE Begin
  BY <1>0, <1>3, BegunMet
<1>4. CASE Advance
  BY <1>0, <1>4, AdvancedMet DEF Advance, At
<1>5. CASE SweepErases
  BY <1>5, SweptMet DEF SweepErases, At
<1>6. CASE FindErases
  BY <1>6, FoundMet DEF FindErases, At
<1>7. CASE Done
  BY <1>7 DEF Done, links, Met, Counted, Walks
<1> QED BY <1>1, <1>2, <1>3, <1>4, <1>5, <1>6, <1>7 DEF Next

\* A walk that waits meets no element twice, and at its end it has met every one
\* that was there all the time, unless it lost its way (Signal::onSignal,
\* CheckManagers, StopConnection).
THEOREM WalksMeetOnce == Spec => []MeetsEachOnce
<1> DEFINE Walked == TypeOK /\ (Running => Met)
<1>1. Init => Walked
  <2> SUFFICES ASSUME Init PROVE Walked
    OBVIOUS
  <2> USE NodeAssumption
  <2>1. /\ order = <<>> /\ order \in Seq(Nodes) /\ ToSet(order) = {}
        /\ visits = [n \in Nodes |-> 0] /\ stayed = {} /\ walk = "none" /\ it = Copy(End)
        /\ next = [n \in Places |-> Null] /\ prev = [n \in Places |-> Null]
    BY DEF Init, ToSet
  <2>2. TypeOK
    <3>1. next \in [Places -> Pointers] /\ prev \in [Places -> Pointers] /\ End \in Places
      BY <2>1 DEF Places, Pointers
    <3>2. it \in Iterators
      BY <2>1, <3>1, CopyTyped
    <3>3. visits \in [Nodes -> Nat]
      BY <2>1
    <3>4. begin = End /\ heap = {} /\ walk \in Walks \cup {"none"}
          /\ fault \in BOOLEAN /\ gone \in BOOLEAN /\ misused \in BOOLEAN
      BY DEF Init
    <3> QED BY <2>1, <3>1, <3>2, <3>3, <3>4 DEF TypeOK
  <2>3. Counted
    BY <2>1 DEF Counted
  <2> QED BY <2>1, <2>2, <2>3 DEF Met, Walks
<1>2. Walked /\ IInv /\ [Next]_vars => Walked'
  <2> SUFFICES ASSUME Walked, IInv, [Next]_vars PROVE Walked'
    OBVIOUS
  <2>1. CASE Next
    BY <2>1, TypesKept, MetKept
  <2>2. CASE UNCHANGED vars
    BY <2>2 DEF vars, links, walkVars, TypeOK, Running, Met, Counted, Halfway
  <2> QED BY <2>1, <2>2
<1>3. Walked => MeetsEachOnce
  BY DEF MeetsEachOnce, Met, Counted
<1> QED BY <1>1, <1>2, <1>3, Start, Inductive, PTL DEF Spec
=============================================================================
