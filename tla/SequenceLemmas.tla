--------------------------- MODULE SequenceLemmas ---------------------------
(***************************************************************************)
(* What adding an element in front of a sequence and removing one at a     *)
(* place do to its elements; the lists of the program are modelled so.     *)
(* And the least element of a set of numbers, by which what holds of every *)
(* number is proved: its least counterexample leads to a contradiction.    *)
(***************************************************************************)
EXTENDS SequencesExt, SequenceTheorems, FiniteSetTheorems, TLAPS

\* Were there no least one, the sets 1 .. n would become smaller for ever.
LEMMA LeastNat ==
  ASSUME NEW T \in SUBSET Nat, T # {}
  PROVE  \E x \in T : \A y \in T : x <= y
<1> DEFINE R == StrictSubsetOrdering(Nat)
           F == {1 .. n : n \in T}
<1>1. \A n \in T : 1 .. n \in SUBSET Nat /\ IsFiniteSet(1 .. n)
  BY FS_Interval
<1>2. F \subseteq FiniteSubsetsOf(Nat) /\ F # {}
  BY <1>1 DEF FiniteSubsetsOf
<1>3. PICK I \in F : \A J \in F : ~ (<<J, I>> \in R)
  <2> HIDE DEF R, F
  <2> QED  BY <1>2, FS_StrictSubsetOrderingWellFounded, WFMin DEF R
<1>4. PICK x \in T : I = 1 .. x
  OBVIOUS
<1>5. ASSUME NEW y \in T, y < x
      PROVE  FALSE
  <2>1. 1 .. y \in F /\ 1 .. y \subseteq 1 .. x
    BY <1>5
  <2>2. x \in 1 .. x /\ x \notin 1 .. y
    BY <1>5
  <2>3. <<1 .. y, 1 .. x>> \in R
    BY <2>1, <2>2, <1>1 DEF StrictSubsetOrdering
  <2> QED  BY <1>3, <1>4, <2>1, <2>3
<1> QED  BY <1>5

\* Two sequences joined.
LEMMA Concatenated ==
  ASSUME NEW S, NEW s \in Seq(S), NEW t \in Seq(S)
  PROVE  /\ s \o t \in Seq(S) /\ Len(s \o t) = Len(s) + Len(t)
         /\ \A k \in 1 .. Len(s) : (s \o t)[k] = s[k]
         /\ \A k \in Len(s) + 1 .. Len(s) + Len(t) : (s \o t)[k] = t[k - Len(s)]
OBVIOUS

\* An element in front moves the others by one.
LEMMA AddedFirst ==
  ASSUME NEW S, NEW s \in Seq(S), NEW n \in S
  PROVE  /\ <<n>> \o s \in Seq(S)
         /\ Len(<<n>> \o s) = Len(s) + 1
         /\ (<<n>> \o s)[1] = n
         /\ \A k \in 2 .. Len(s) + 1 : (<<n>> \o s)[k] = s[k - 1]
<1> DEFINE t == <<n>>
<1>1. t \in Seq(S) /\ Len(t) = 1 /\ t[1] = n
  OBVIOUS
<1> HIDE DEF t
<1>2. Len(s) \in Nat
  BY LenProperties
<1>3. /\ t \o s \in Seq(S) /\ Len(t \o s) = Len(t) + Len(s)
      /\ \A i \in 1 .. Len(t) + Len(s) :
           (t \o s)[i] = IF i <= Len(t) THEN t[i] ELSE s[i - Len(t)]
  BY <1>1, ConcatProperties
<1>4. /\ t \o s \in Seq(S) /\ Len(t \o s) = Len(s) + 1 /\ (t \o s)[1] = n
      /\ \A k \in 2 .. Len(s) + 1 : (t \o s)[k] = s[k - 1]
  BY <1>1, <1>2, <1>3
<1> QED BY <1>4 DEF t

\* Removing one closes the gap.
LEMMA Removed ==
  ASSUME NEW S, NEW s \in Seq(S), NEW k \in 1 .. Len(s)
  PROVE  /\ RemoveAt(s, k) \in Seq(S)
         /\ Len(RemoveAt(s, k)) = Len(s) - 1
         /\ \A j \in 1 .. Len(s) - 1 :
              RemoveAt(s, k)[j] = IF j < k THEN s[j] ELSE s[j + 1]
<1> DEFINE a == SubSeq(s, 1, k - 1)
           b == SubSeq(s, k + 1, Len(s))
<1>1. Len(s) \in Nat /\ k \in Nat /\ k >= 1 /\ k <= Len(s)
  BY LenProperties
<1>2. \A i \in 1 .. Len(s) : s[i] \in S
  BY ElementOfSeq
<1>3. /\ a \in Seq(S) /\ Len(a) = k - 1
      /\ \A i \in 1 .. k - 1 : a[i] = s[i]
  <2>1. /\ a \in Seq(S)
        /\ Len(a) = IF 1 <= k - 1 THEN (k - 1) - 1 + 1 ELSE 0
        /\ \A i \in 1 .. (k - 1) - 1 + 1 : a[i] = s[1 + i - 1]
    <3> HIDE DEF a
    <3>1. 1 \in Int /\ k - 1 \in Int /\ \A i \in 1 .. k - 1 : s[i] \in S
      BY <1>1, <1>2
    <3> QED BY <3>1, SubSeqProperties DEF a
  <2> HIDE DEF a
  <2> QED BY <2>1, <1>1
<1>4. /\ b \in Seq(S) /\ Len(b) = Len(s) - k
      /\ \A i \in 1 .. Len(s) - k : b[i] = s[k + i]
  <2>1. /\ b \in Seq(S)
        /\ Len(b) = IF k + 1 <= Len(s) THEN Len(s) - (k + 1) + 1 ELSE 0
        /\ \A i \in 1 .. Len(s) - (k + 1) + 1 : b[i] = s[(k + 1) + i - 1]
    <3> HIDE DEF b
    <3>1. k + 1 \in Int /\ Len(s) \in Int /\ \A i \in k + 1 .. Len(s) : s[i] \in S
      BY <1>1, <1>2
    <3> QED BY <3>1, SubSeqProperties DEF b
  <2> HIDE DEF b
  <2> QED BY <2>1, <1>1
<1>5. RemoveAt(s, k) = a \o b
  BY DEF RemoveAt
<1> HIDE DEF a, b
<1>6. /\ a \o b \in Seq(S) /\ Len(a \o b) = Len(a) + Len(b)
      /\ \A i \in 1 .. Len(a) + Len(b) :
           (a \o b)[i] = IF i <= Len(a) THEN a[i] ELSE b[i - Len(a)]
  BY <1>3, <1>4, ConcatProperties
<1>7. ASSUME NEW j \in 1 .. Len(s) - 1
      PROVE  (a \o b)[j] = IF j < k THEN s[j] ELSE s[j + 1]
  <2>1. (a \o b)[j] = IF j <= k - 1 THEN a[j] ELSE b[j - (k - 1)]
    BY <1>1, <1>3, <1>4, <1>6
  <2>2. CASE j < k
    BY <2>1, <2>2, <1>1, <1>3
  <2>3. CASE ~(j < k)
    <3>1. j - (k - 1) \in 1 .. Len(s) - k /\ k + (j - (k - 1)) = j + 1
      BY <2>3, <1>1
    <3>2. b[j - (k - 1)] = s[j + 1]
      BY <3>1, <1>4
    <3> QED BY <2>1, <2>3, <3>2, <1>1
  <2> QED BY <2>2, <2>3
<1> QED BY <1>1, <1>3, <1>4, <1>5, <1>6, <1>7

----------------------------------------------------------------------------
(***************************************************************************)
(* The same for sequences that hold nothing twice, as sets.                *)
(***************************************************************************)

LEMMA SetAddedFirst ==
  ASSUME NEW S, NEW s \in Seq(S), NEW n \in S, IsInjective(s), n \notin ToSet(s)
  PROVE  /\ <<n>> \o s \in Seq(S)
         /\ IsInjective(<<n>> \o s)
         /\ ToSet(<<n>> \o s) = ToSet(s) \cup {n}
<1> DEFINE t == <<n>> \o s
<1>1. /\ t \in Seq(S) /\ Len(t) = Len(s) + 1 /\ t[1] = n
      /\ \A k \in 2 .. Len(s) + 1 : t[k] = s[k - 1]
  BY AddedFirst
<1>2. Len(s) \in Nat /\ DOMAIN s = 1 .. Len(s)
  BY LenProperties
<1> HIDE DEF t
<1>3. DOMAIN t = 1 .. Len(s) + 1
  BY <1>1, LenProperties
<1>4. IsInjective(t)
  <2> SUFFICES ASSUME NEW a \in DOMAIN t, NEW b \in DOMAIN t, t[a] = t[b] PROVE a = b
    BY DEF IsInjective
  <2>1. \A k \in DOMAIN t : k # 1 => k - 1 \in DOMAIN s /\ t[k] = s[k - 1] /\ t[k] # n
    BY <1>1, <1>2, <1>3 DEF ToSet
  <2>2. a = 1 <=> b = 1
    BY <1>1, <2>1
  <2>3. CASE a # 1 /\ b # 1
    <3>1. a - 1 = b - 1
      BY <2>1, <2>3 DEF IsInjective
    <3> QED BY <3>1, <1>2, <1>3
  <2> QED BY <2>2, <2>3
<1>5. ToSet(t) = ToSet(s) \cup {n}
  <2>1. ASSUME NEW k \in DOMAIN t PROVE t[k] \in ToSet(s) \cup {n}
    BY <1>1, <1>2, <1>3 DEF ToSet
  <2>2. ASSUME NEW k \in DOMAIN s PROVE s[k] \in ToSet(t)
    <3>1. k + 1 \in 2 .. Len(s) + 1 /\ (k + 1) - 1 = k
      BY <1>2
    <3>2. k + 1 \in DOMAIN t /\ t[k + 1] = s[k]
      BY <1>1, <1>2, <1>3, <3>1
    <3> QED BY <3>2 DEF ToSet
  <2>3. n \in ToSet(t)
    <3>1. 1 \in DOMAIN t
      BY <1>2, <1>3
    <3> QED BY <1>1, <3>1 DEF ToSet
  <2> QED BY <2>1, <2>2, <2>3 DEF ToSet
<1> QED BY <1>1, <1>4, <1>5 DEF t

LEMMA SetAddedLast ==
  ASSUME NEW S, NEW s \in Seq(S), NEW n \in S, IsInjective(s), n \notin ToSet(s)
  PROVE  /\ Append(s, n) \in Seq(S)
         /\ IsInjective(Append(s, n))
         /\ ToSet(Append(s, n)) = ToSet(s) \cup {n}
<1> DEFINE t == Append(s, n)
<1>1. /\ t \in Seq(S) /\ Len(t) = Len(s) + 1 /\ t[Len(s) + 1] = n
      /\ \A k \in 1 .. Len(s) : t[k] = s[k]
  BY AppendProperties
<1>2. Len(s) \in Nat /\ DOMAIN s = 1 .. Len(s)
  BY LenProperties
<1> HIDE DEF t
<1>3. DOMAIN t = 1 .. Len(s) + 1
  BY <1>1, LenProperties
<1>4. DOMAIN t = DOMAIN s \cup {Len(s) + 1} /\ Len(s) + 1 \notin DOMAIN s
  BY <1>2, <1>3
<1>5. \A k \in DOMAIN s : t[k] = s[k]
  BY <1>1, <1>2
<1>6. ToSet(t) = ToSet(s) \cup {n}
  BY <1>1, <1>4, <1>5 DEF ToSet
<1>7. IsInjective(t)
  <2> SUFFICES ASSUME NEW a \in DOMAIN t, NEW b \in DOMAIN t, t[a] = t[b] PROVE a = b
    BY DEF IsInjective
  <2>1. CASE a \in DOMAIN s /\ b \in DOMAIN s
    BY <1>5, <2>1 DEF IsInjective
  <2>2. \A k \in DOMAIN s : t[k] # n
    BY <1>5 DEF ToSet
  <2> QED  BY <1>1, <1>4, <2>1, <2>2
<1> QED  BY <1>1, <1>6, <1>7 DEF t

LEMMA SetRemoved ==
  ASSUME NEW S, NEW s \in Seq(S), IsInjective(s), NEW k \in DOMAIN s
  PROVE  /\ RemoveAt(s, k) \in Seq(S)
         /\ IsInjective(RemoveAt(s, k))
         /\ ToSet(RemoveAt(s, k)) = ToSet(s) \ {s[k]}
<1> DEFINE t == RemoveAt(s, k)
<1>1. Len(s) \in Nat /\ DOMAIN s = 1 .. Len(s)
  BY LenProperties
<1>2. /\ t \in Seq(S) /\ Len(t) = Len(s) - 1
      /\ \A j \in 1 .. Len(s) - 1 : t[j] = IF j < k THEN s[j] ELSE s[j + 1]
  BY <1>1, Removed
<1> HIDE DEF t
<1>3. DOMAIN t = 1 .. Len(s) - 1
  BY <1>2, LenProperties
<1> DEFINE from(j) == IF j < k THEN j ELSE j + 1
<1>4. ASSUME NEW j \in DOMAIN t
      PROVE  from(j) \in DOMAIN s /\ t[j] = s[from(j)] /\ from(j) # k
  BY <1>1, <1>2, <1>3
<1>5. IsInjective(t)
  <2> SUFFICES ASSUME NEW a \in DOMAIN t, NEW b \in DOMAIN t, t[a] = t[b] PROVE a = b
    BY DEF IsInjective
  <2>1. from(a) = from(b)
    <3> HIDE DEF from
    <3> QED BY <1>4 DEF IsInjective
  <2> QED BY <2>1, <1>1, <1>3
<1>6. ToSet(t) \subseteq ToSet(s) \ {s[k]}
  <2> HIDE DEF from
  <2> QED BY <1>4 DEF ToSet, IsInjective
<1>7. ASSUME NEW m \in DOMAIN s, m # k PROVE s[m] \in ToSet(t)
  <2>1. CASE m < k
    <3>1. m \in DOMAIN t /\ t[m] = s[m]
      BY <1>1, <1>2, <1>3, <2>1
    <3> QED BY <3>1 DEF ToSet
  <2>2. CASE m > k
    <3>1. m - 1 \in DOMAIN t /\ t[m - 1] = s[m]
      BY <1>1, <1>2, <1>3, <2>2
    <3> QED BY <3>1 DEF ToSet
  <2> QED BY <2>1, <2>2, <1>1, <1>7
<1>8. ToSet(s) \ {s[k]} \subseteq ToSet(t)
  BY <1>7 DEF ToSet
<1> QED BY <1>2, <1>5, <1>6, <1>8 DEF t
=============================================================================
