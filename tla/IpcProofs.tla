------------------------------ MODULE IpcProofs ------------------------------
(***************************************************************************)
(* The dotted form of names keeps them, and for every set of modules,      *)
(* session and number of connections: the server is listed once while the  *)
(* client is connected and never afterwards, the table follows the         *)
(* server's list and messages are handed over in order, both but for what  *)
(* found no memory, and the login comes first.                             *)
(***************************************************************************)
EXTENDS Ipc, SequenceLemmas, TLAPS

----------------------------------------------------------------------------
(***************************************************************************)
(* Names.                                                                  *)
(***************************************************************************)
\* Sequences of two labels that agree, and of three.
LEMMA EqualPairs ==
  ASSUME NEW S, NEW s \in Seq(S), NEW t \in Seq(S),
         Len(s) = 2, Len(t) = 2, s[1] = t[1], s[2] = t[2]
  PROVE  s = t
<1>1. \A i \in 1 .. Len(s) : s[i] = t[i]
  OBVIOUS
<1> QED BY <1>1, SeqEqual

LEMMA EqualTriples ==
  ASSUME NEW S, NEW s \in Seq(S), NEW t \in Seq(S),
         Len(s) = 3, Len(t) = 3, s[1] = t[1], s[2] = t[2], s[3] = t[3]
  PROVE  s = t
<1>1. \A i \in 1 .. Len(s) : s[i] = t[i]
  OBVIOUS
<1> QED BY <1>1, SeqEqual

\* Two strings of one label, joined.
LEMMA JoinTwo ==
  ASSUME NEW S, NEW a \in S, NEW b \in S
  PROVE  <<a>> \o <<b>> = <<a, b>>
<1> DEFINE s == <<a>>
           t == <<b>>
           u == <<a, b>>
<1>1. /\ s \in Seq(S) /\ t \in Seq(S) /\ u \in Seq(S)
      /\ Len(s) = 1 /\ Len(t) = 1 /\ Len(u) = 2
      /\ s[1] = a /\ t[1] = b /\ u[1] = a /\ u[2] = b
  OBVIOUS
<1> HIDE DEF s, t, u
<1>2. /\ s \o t \in Seq(S) /\ Len(s \o t) = 2
      /\ (s \o t)[1] = s[1] /\ (s \o t)[2] = t[1]
  BY <1>1, ConcatProperties
<1>3. s \o t = u
  BY <1>1, <1>2, EqualPairs
<1> QED BY <1>3 DEF s, t, u

\* A string of two labels and one more.
LEMMA JoinThree ==
  ASSUME NEW S, NEW a \in S, NEW b \in S, NEW c \in S
  PROVE  <<a, b>> \o <<c>> = <<a, b, c>>
<1> DEFINE s == <<a, b>>
           t == <<c>>
           u == <<a, b, c>>
<1>1. /\ s \in Seq(S) /\ t \in Seq(S) /\ u \in Seq(S)
      /\ Len(s) = 2 /\ Len(t) = 1 /\ Len(u) = 3
      /\ s[1] = a /\ s[2] = b /\ t[1] = c /\ u[1] = a /\ u[2] = b /\ u[3] = c
  OBVIOUS
<1> HIDE DEF s, t, u
<1>2. s \o t \in Seq(S) /\ Len(s \o t) = 3
      /\ \A i \in 1 .. 3 : (s \o t)[i] = IF i <= 2 THEN s[i] ELSE t[i - 2]
  <2>1. /\ s \o t \in Seq(S)
        /\ Len(s \o t) = Len(s) + Len(t)
        /\ \A i \in 1 .. Len(s) + Len(t) :
             (s \o t)[i] = IF i <= Len(s) THEN s[i] ELSE t[i - Len(s)]
    BY <1>1, ConcatProperties
  <2> QED BY <1>1, <2>1
<1>3. s \o t = u
  BY <1>1, <1>2, EqualTriples
<1> QED BY <1>3 DEF s, t, u

\* The dotted form of a canonical name is parsed back to the name, for every
\* alphabet: what AddIPCObject has put in the table by its name is found again
\* by the string of a RemoveIPCObject.
THEOREM RoundTrip ==
  ASSUME NEW n, Canonical(n)
  PROVE  GetIPCName(GetModuleNameString(n)) = n
<1>1. PICK a \in Label : n.module = <<a>>
  BY DEF Canonical, Name, Dotless
<1>2. PICK b \in Label : n.host = <<b>>
  BY DEF Canonical, Name, Dotless
<1>3. PICK c \in Label : n.conn = <<c>>
  BY DEF Canonical, Name, Dotless
<1>4. n = [module |-> <<a>>, host |-> <<b>>, conn |-> <<c>>]
  BY <1>1, <1>2, <1>3 DEF Canonical, Name, Dotless
<1>5. CASE b = Empty
  <2>1. c = Empty
    BY <1>2, <1>3, <1>5 DEF Canonical, EmptyString
  <2>2. GetModuleNameString(n) = <<a>>
    BY <1>1, <1>2, <1>3, <1>5, <2>1 DEF GetModuleNameString, Joined, EmptyString
  <2> QED BY <1>4, <1>5, <2>1, <2>2 DEF GetIPCName, LabelAt, EmptyString
<1>6. CASE b # Empty /\ c = Empty
  <2>1. GetModuleNameString(n) = <<a, b>>
    BY <1>1, <1>2, <1>3, <1>6, JoinTwo DEF GetModuleNameString, Joined, EmptyString
  <2> QED BY <1>4, <1>6, <2>1 DEF GetIPCName, LabelAt, EmptyString
<1>7. CASE b # Empty /\ c # Empty
  <2>1. GetModuleNameString(n) = (<<a>> \o <<b>>) \o <<c>>
    BY <1>1, <1>2, <1>3, <1>7 DEF GetModuleNameString, Joined, EmptyString
  <2>2. <<a>> \o <<b>> = <<a, b>>
    BY JoinTwo
  <2>3. <<a, b>> \o <<c>> = <<a, b, c>>
    BY JoinThree
  <2>4. GetModuleNameString(n) = <<a, b, c>>
    BY <2>1, <2>2, <2>3, Zenon
  <2> QED BY <1>4, <1>7, <2>4 DEF GetIPCName, LabelAt, EmptyString
<1> QED BY <1>5, <1>6, <1>7

Servers == {ServerName(k) : k \in 1 .. CONNECTIONS}
Names == Objects \cup Servers

LEMMA NameFacts ==
  /\ Nameless = [module |-> <<ServerLabel>>, host |-> EmptyString, conn |-> EmptyString]
  /\ \A n \in Names \cup {Nameless} : Canonical(n) /\ GetIPCName(GetModuleNameString(n)) = n
  /\ \A m, n \in Names \cup {Nameless} : SameName(m, n) <=> m = n
  /\ \A n \in Objects : n \notin Servers
  /\ \A n \in Servers : n # Nameless
<1>1. Nameless = [module |-> <<ServerLabel>>, host |-> EmptyString, conn |-> EmptyString]
  BY DEF Nameless, ServerName
<1>2. Canonical(Nameless)
  BY <1>1, NameAssumption, EmptyAssumption DEF Canonical, Name, Dotless, EmptyString
<1>3. ASSUME NEW k \in 1 .. CONNECTIONS
      PROVE  Canonical(ServerName(k)) /\ ServerName(k) # Nameless /\ ServerName(k) \notin Objects
  <2>1. Session[k] \in Label /\ Session[k] # Empty /\ ServerName(k) \notin Objects
    BY NameAssumption
  <2>2. ServerName(k).host # EmptyString /\ Nameless.host = EmptyString
    BY <1>1, <2>1 DEF ServerName, EmptyString
  <2> QED  BY <2>1, <2>2, NameAssumption, EmptyAssumption
           DEF Canonical, Name, Dotless, EmptyString, ServerName
<1>4. \A n \in Names \cup {Nameless} : Canonical(n)
  BY <1>2, <1>3, NameAssumption DEF Names, Servers
<1>5. \A m, n \in Names \cup {Nameless} : SameName(m, n) <=> m = n
  BY <1>4 DEF Canonical, Name, SameName
<1> QED  BY <1>1, <1>3, <1>4, <1>5, RoundTrip DEF Servers

\* The name that LoginSuccess and the session make.
LEMMA SessionFacts ==
  ASSUME NEW k \in 1 .. CONNECTIONS
  PROVE  /\ ServerName(k) \in Servers /\ ServerName(k) \in Names
         /\ [Nameless EXCEPT !.host = <<Session[k]>>] = ServerName(k)
         /\ [ServerName(k) EXCEPT !.host = <<Session[k]>>] = ServerName(k)
         /\ <<Session[k]>> # NoSession
         /\ \A s : [Nameless EXCEPT !.host = s] = ServerName(k) => s = <<Session[k]>>
         /\ \A s : [Nameless EXCEPT !.host = s] = Nameless => s = NoSession
<1>1. Session[k] # Empty
  BY NameAssumption
<1>2. \A s : [Nameless EXCEPT !.host = s] = [module |-> <<ServerLabel>>, host |-> s, conn |-> EmptyString]
  BY NameFacts
<1>3. \A s : [Nameless EXCEPT !.host = s].host = s
  BY <1>2
<1>4. [Nameless EXCEPT !.host = <<Session[k]>>] = ServerName(k)
  BY <1>2 DEF ServerName
<1>5. [ServerName(k) EXCEPT !.host = <<Session[k]>>] = ServerName(k)
  BY DEF ServerName
<1>6. <<Session[k]>> # NoSession
  BY <1>1 DEF NoSession, EmptyString
<1>7. ServerName(k).host = <<Session[k]>> /\ Nameless.host = NoSession
  BY NameFacts DEF ServerName, NoSession
<1> QED  BY <1>3, <1>4, <1>5, <1>6, <1>7 DEF Servers, Names

----------------------------------------------------------------------------
(***************************************************************************)
(* The table.                                                              *)
(***************************************************************************)
LEMMA CountType ==
  ASSUME NEW tab \in Seq(Names), NEW m
  PROVE  /\ Count(m, tab) \in Nat
         /\ IsFiniteSet({k \in DOMAIN tab : tab[k] = m})
         /\ Count(m, tab) = 0 <=> \A k \in DOMAIN tab : tab[k] # m
<1> DEFINE S == {k \in DOMAIN tab : tab[k] = m}
<1>1. IsFiniteSet(1 .. Len(tab)) /\ DOMAIN tab = 1 .. Len(tab)
  BY FS_Interval
<1>2. IsFiniteSet(S)
  BY <1>1, FS_Subset
<1> QED  BY <1>2, FS_CardinalityType, FS_EmptySet DEF Count

LEMMA Added ==
  ASSUME NEW tab \in Seq(Names), NEW n \in Names
  PROVE  /\ Add(n, tab) \in Seq(Names)
         /\ \A m : Count(m, Add(n, tab)) = Count(m, tab) + (IF m = n THEN 1 ELSE 0)
<1> DEFINE t == Append(tab, n)
           S(m) == {k \in DOMAIN tab : tab[k] = m}
           T(m) == {k \in DOMAIN t : t[k] = m}
<1>1. /\ t \in Seq(Names) /\ DOMAIN t = DOMAIN tab \cup {Len(tab) + 1}
      /\ Len(tab) + 1 \notin DOMAIN tab /\ t[Len(tab) + 1] = n
      /\ \A k \in DOMAIN tab : t[k] = tab[k]
  OBVIOUS
<1> HIDE DEF t
<1>2. ASSUME NEW m
      PROVE  Count(m, t) = Count(m, tab) + (IF m = n THEN 1 ELSE 0)
  <2>1. IsFiniteSet(S(m)) /\ Cardinality(S(m)) \in Nat
    BY CountType DEF Count
  <2>2. CASE m = n
    <3>1. T(m) = S(m) \cup {Len(tab) + 1} /\ Len(tab) + 1 \notin S(m)
      BY <1>1, <2>2
    <3>2. Cardinality(T(m)) = Cardinality(S(m)) + 1
      BY <2>1, <3>1, FS_AddElement
    <3> QED  BY <2>2, <3>2 DEF Count
  <2>3. CASE m # n
    <3>1. T(m) = S(m)
      BY <1>1, <2>3
    <3>2. Count(m, t) = Count(m, tab) /\ Count(m, tab) \in Nat
      BY <2>1, <3>1 DEF Count
    <3> QED  BY <2>3, <3>2
  <2> QED  BY <2>2, <2>3
<1> QED  BY <1>1, <1>2 DEF Add, t

LEMMA CountWithout ==
  ASSUME NEW tab \in Seq(Names), NEW i \in DOMAIN tab, NEW m
  PROVE  Count(m, RemoveAt(tab, i)) = Count(m, tab) - (IF m = tab[i] THEN 1 ELSE 0)
<1> DEFINE t == RemoveAt(tab, i)
           S == {k \in DOMAIN tab : tab[k] = m}
           T == {k \in DOMAIN t : t[k] = m}
           from(k) == IF k < i THEN k ELSE k + 1
           f == [k \in T |-> from(k)]
<1>1. Len(tab) \in Nat /\ i \in 1 .. Len(tab) /\ DOMAIN tab = 1 .. Len(tab)
  OBVIOUS
<1>2. /\ DOMAIN t = 1 .. Len(tab) - 1
      /\ \A k \in 1 .. Len(tab) - 1 : t[k] = IF k < i THEN tab[k] ELSE tab[k + 1]
  BY <1>1, Removed
<1> HIDE DEF t
<1>3. IsFiniteSet(S) /\ Cardinality(S) \in Nat
  BY CountType DEF Count
<1>4. IsFiniteSet(S \ {i}) /\ Cardinality(S \ {i}) = Cardinality(S) - (IF m = tab[i] THEN 1 ELSE 0)
  <2>1. i \in S <=> m = tab[i]
    OBVIOUS
  <2> HIDE DEF S
  <2>2. /\ IsFiniteSet(S \ {i})
        /\ Cardinality(S \ {i}) = IF i \in S THEN Cardinality(S) - 1 ELSE Cardinality(S)
    BY <1>3, FS_RemoveElement
  <2> QED  BY <1>3, <2>1, <2>2
<1>5. \A k \in T : from(k) \in S \ {i}
  BY <1>1, <1>2
<1>6. \A k \in S \ {i} : \E j \in T : from(j) = k
  <2> SUFFICES ASSUME NEW k \in S \ {i} PROVE \E j \in T : from(j) = k
    OBVIOUS
  <2>1. CASE k < i
    <3>1. k \in T /\ from(k) = k
      BY <1>1, <1>2, <2>1
    <3> QED  BY <3>1
  <2>2. CASE k > i
    <3>1. k - 1 \in T /\ from(k - 1) = k
      BY <1>1, <1>2, <2>2
    <3> QED  BY <3>1
  <2> QED  BY <2>1, <2>2, <1>1
<1>7. \A j, k \in T : from(j) = from(k) => j = k
  BY <1>1, <1>2
<1>8. f \in Bijection(T, S \ {i})
  <2> HIDE DEF S, T, from
  <2>1. f \in [T -> S \ {i}]
    BY <1>5
  <2>2. \A j, k \in T : f[j] = f[k] => j = k
    BY <1>7
  <2>3. \A k \in S \ {i} : \E j \in T : f[j] = k
    BY <1>6
  <2> QED  BY <2>1, <2>2, <2>3 DEF Bijection, Injection, Surjection, IsInjective
<1>9. Cardinality(T) = Cardinality(S \ {i})
  <2>1. IsFiniteSet(T)
    <3>1. IsFiniteSet(DOMAIN t) /\ T \in SUBSET (DOMAIN t)
      BY <1>1, <1>2, FS_Interval
    <3> QED  BY <3>1, FS_Subset
  <2>2. ExistsBijection(T, S \ {i})
    BY <1>8 DEF ExistsBijection
  <2> QED  BY <2>1, <2>2, FS_Bijection
<1> QED  BY <1>4, <1>9 DEF Count, t

\* RemoveObject takes one entry of the name away, if there is one.
LEMMA ObjectRemoved ==
  ASSUME NEW tab \in Seq(Names), NEW string, GetIPCName(string) \in Names \cup {Nameless}
  PROVE  /\ RemoveObject(string, tab) \in Seq(Names)
         /\ \A m : Count(m, RemoveObject(string, tab)) =
              Count(m, tab) - (IF m = GetIPCName(string) /\ Count(m, tab) # 0 THEN 1 ELSE 0)
<1> DEFINE n == GetIPCName(string)
           found == {k \in DOMAIN tab : SameName(tab[k], n)}
<1>1. DOMAIN tab = 1 .. Len(tab) /\ \A k \in DOMAIN tab : tab[k] \in Names
  OBVIOUS
<1>2. n \in Names \cup {Nameless}
  OBVIOUS
<1> HIDE DEF n
<1>3. found = {k \in DOMAIN tab : tab[k] = n}
  BY <1>1, <1>2, NameFacts
<1>4. RemoveObject(string, tab) = IF found = {} THEN tab ELSE RemoveAt(tab, Min(found))
  BY DEF RemoveObject, n
<1>5. \A m : Count(m, tab) \in Nat
  BY CountType
<1>6. CASE found = {}
  <2>1. Count(n, tab) = 0
    BY <1>3, <1>6, CountType
  <2> QED  BY <1>4, <1>5, <1>6, <2>1 DEF n
<1>7. CASE found # {}
  <2>1. Min(found) \in found
    <3> HIDE DEF found
    <3>1. found \in SUBSET Nat
      BY <1>1 DEF found
    <3>2. \E x \in found : \A y \in found : x <= y
      BY <1>7, <3>1, LeastNat
    <3> QED  BY <3>2 DEF Min
  <2>2. Min(found) \in DOMAIN tab /\ tab[Min(found)] = n
    BY <1>3, <2>1
  <2> DEFINE i == Min(found)
  <2>3. i \in DOMAIN tab /\ tab[i] = n
    BY <2>2
  <2> HIDE DEF i
  <2>4. RemoveAt(tab, i) \in Seq(Names)
    BY <2>3, <1>1, Removed
  <2>5. \A m : Count(m, RemoveAt(tab, i)) = Count(m, tab) - (IF m = n THEN 1 ELSE 0)
    BY <2>3, CountWithout
  <2>6. Count(n, tab) # 0
    BY <2>3, CountType
  <2> QED  BY <1>4, <1>5, <1>7, <2>4, <2>5, <2>6 DEF n, i
<1> QED  BY <1>6, <1>7

----------------------------------------------------------------------------
(***************************************************************************)
(* The invariants.                                                         *)
(***************************************************************************)
\* Where the thread stands and whose name the connector has.
Control ==
  /\ at = "none" => ~open /\ session = NoSession
  /\ at \in {"none", "absent"} => ~connected /\ ~checker
  /\ at = "start" => said = {} /\ out = <<>> /\ session = NoSession /\ ~connected
  /\ at = "add" => frame.kind = "list"
  /\ at # "none" => /\ connection \in 1 .. CONNECTIONS
                    /\ GetIPCName(id) \in {Nameless, ServerName(connection)}
  /\ session # NoSession => GetIPCName(id) = [Nameless EXCEPT !.host = session]

\* At most one frame of these kinds comes over a connection.
Once(kinds, what) ==
  /\ \A j, k \in DOMAIN pipe : pipe[j].kind \in kinds /\ pipe[k].kind \in kinds => j = k
  /\ at = "handle" /\ frame.kind \in kinds => \A k \in DOMAIN pipe : pipe[k].kind \notin kinds
  /\ what \notin said =>
       /\ \A k \in DOMAIN pipe : pipe[k].kind \notin kinds
       /\ ~ (at = "handle" /\ frame.kind \in kinds)

Arriving(kinds) ==
  \/ \E k \in DOMAIN pipe : pipe[k].kind \in kinds
  \/ at = "handle" /\ frame.kind \in kinds

Answered == {"result", "refused"}

Arrivals == Once(Answered, "result") /\ Once({"name"}, "name")

\* What the client has said, and what that lets the server say.  Nothing is said
\* for the module before the name was sent or has failed.
InOrder(words) ==
  \A k \in DOMAIN words :
    /\ words[k] = "login" <=> k = 1
    /\ words[k] = "name" <=> k = 2 /\ ~unnamed

Speech ==
  /\ InOrder(out)
  /\ "result" \in said => Len(out) >= 1
  /\ "name" \in said \/ "list" \in said => Len(out) >= 2
  /\ open /\ session # NoSession => Len(out) >= 2 \/ unnamed
  /\ session # NoSession \/ Len(out) >= 2 => "result" \in said
  /\ Arriving(Answered) => Len(out) = 1 /\ session = NoSession

\* The server's entry: once it is there, it is there once, under the connector's
\* own name, and the server has named itself.
Listed == \E n \in Servers : Count(n, table) # 0

Entry ==
  /\ Listed =>
       /\ at \notin {"none", "absent", "start"}
       /\ GetIPCName(id) = ServerName(connection)
       /\ "name" \in said
       /\ ~Arriving({"name"})
       /\ \A n \in Servers : Count(n, table) = IF n = ServerName(connection) THEN 1 ELSE 0
  /\ connected \/ at \in {"stated", "welcome"} => Listed
  /\ \A n \in Servers : Count(n, left) = 0

\* Messages come in the order of their numbers, those in heard after the name.
IsMessage(f) == f.kind = "message"
NameBehind(k) == \E j \in DOMAIN pipe : j > k /\ pipe[j].kind = "name"

Order ==
  /\ since <= spoken
  /\ heard \subseteq 1 .. spoken
  /\ \A j, k \in DOMAIN delivered : j < k => delivered[j] < delivered[k]
  /\ \A j \in DOMAIN delivered : delivered[j] <= spoken /\ delivered[j] \in heard
  /\ \A k \in DOMAIN pipe : IsMessage(pipe[k]) =>
       /\ pipe[k].number \in since + 1 .. spoken
       /\ \A j \in DOMAIN delivered : delivered[j] < pipe[k].number
       /\ \A j \in DOMAIN pipe : j < k /\ IsMessage(pipe[j]) => pipe[j].number < pipe[k].number
       /\ pipe[k].number \in heard <=> "name" \in said /\ ~NameBehind(k)
  /\ Handling("message") =>
       /\ frame.number \in since + 1 .. spoken
       /\ \A j \in DOMAIN delivered : delivered[j] < frame.number
       /\ \A k \in DOMAIN pipe : IsMessage(pipe[k]) => frame.number < pipe[k].number
       /\ connected => frame.number \in heard
       /\ open /\ frame.number \in heard => "name" \in said /\ ~NameBehind(0)

\* A client that was named, or still will be, is connected before the next frame is
\* handled, and so every message after the name was handed over, was discarded or
\* still comes.
Greets ==
  \/ "name" \notin said \/ Arriving({"name"})
  \/ connected \/ at \in {"stated", "welcome"}

Reaches(m) ==
  \/ m \in ToSet(delivered)
  \/ \E k \in DOMAIN pipe : IsMessage(pipe[k]) /\ pipe[k].number = m
  \/ Handling("message") /\ frame.number = m

Welcomed == open /\ Greets => \A m \in heard : m > since => Reaches(m)

\* What a frame does to the number of entries of a name: from i to j.
Level(f, n, i, j) ==
  \/ f.kind = "list" /\ n \in f.names /\ i = 0 /\ j = 1
  \/ f.kind = "add" /\ f.name = n /\ i = 0 /\ j = 1
  \/ f.kind = "remove" /\ GetIPCName(f.string) = n /\ i = 1 /\ j = 0
  \/ /\ f.kind = "list" => n \notin f.names
     /\ f.kind = "add" => f.name # n
     /\ f.kind = "remove" => GetIPCName(f.string) # n
     /\ i = j

Present(n) == IF n \in objects /\ "list" \in said THEN 1 ELSE 0

\* Once the frame that is handled is done, there is j more than at the beginning.
Owes(n, j) ==
  \E d \in {0, 1} :
    /\ Count(n, table) = Count(n, left) + d
    /\ IF at \in {"handle", "add"} THEN Level(frame, n, d, j) ELSE d = j

\* The frames on their way lead from there to what the server knows, for everyone of
\* whom no frame was discarded.
Follows(n) ==
  \E lv \in [0 .. Len(pipe) -> {0, 1}] :
    /\ Owes(n, lv[0])
    /\ \A k \in 1 .. Len(pipe) : Level(pipe[k], n, lv[k - 1], lv[k])
    /\ lv[Len(pipe)] = Present(n)

Levels == open /\ at # "absent" => \A n \in Objects \ missed : Follows(n)

----------------------------------------------------------------------------
(***************************************************************************)
(* Frames and speech.                                                      *)
(***************************************************************************)
LEMMA FrameFacts ==
  ASSUME NEW f \in Frames
  PROVE  /\ f.kind = "list" =>
              /\ f.names \in SUBSET Objects
              /\ \A S \in SUBSET Objects :
                   /\ [f EXCEPT !.names = S] \in Frames
                   /\ [f EXCEPT !.names = S].kind = "list"
                   /\ [f EXCEPT !.names = S].names = S
         /\ f.kind = "add" => f.name \in Objects
         /\ f.kind = "remove" => GetIPCName(f.string) \in Objects
         /\ f.kind = "message" => f.number \in 1 .. MESSAGES
<1>1. CASE f \in [kind : {"list"}, names : SUBSET Objects]
  BY <1>1 DEF Frames
<1>2. CASE f \in [kind : {"remove"}, string : {GetModuleNameString(n) : n \in Objects}]
  BY <1>2, NameFacts DEF Names
<1> QED  BY <1>1, <1>2 DEF Frames

LEMMA FrameMakers ==
  /\ \A kinds \in {"plain", "result", "refused", "name", "exists"} : [kind |-> kinds] \in Frames
  /\ \A S \in SUBSET Objects : [kind |-> "list", names |-> S] \in Frames
  /\ \A n \in Objects : /\ [kind |-> "add", name |-> n] \in Frames
                        /\ [kind |-> "remove", string |-> GetModuleNameString(n)] \in Frames
  /\ \A m \in 1 .. MESSAGES : [kind |-> "message", number |-> m] \in Frames
BY DEF Frames

\* Whom a frame is not about, it leaves where he is.
LEMMA AboutFacts ==
  ASSUME NEW f \in Frames
  PROVE  /\ About(f) \in SUBSET Objects
         /\ \A n \in Objects \ About(f) :
              /\ f.kind = "list" => n \notin f.names
              /\ f.kind = "add" => f.name # n
              /\ f.kind = "remove" => GetIPCName(f.string) # n
<1>1. CASE f.kind = "list"
  <2>1. About(f) = f.names
    BY <1>1 DEF About
  <2> QED  BY <1>1, <2>1, FrameFacts
<1>2. CASE f.kind = "add"
  <2>1. About(f) = {f.name}
    BY <1>2 DEF About
  <2> QED  BY <1>2, <2>1, FrameFacts
<1>3. CASE f.kind = "remove"
  <2>1. About(f) = {n \in Objects : SameName(n, GetIPCName(f.string))}
    BY <1>3 DEF About
  <2>2. GetIPCName(f.string) \in Objects
    BY <1>3, FrameFacts
  <2>3. \A n \in Objects : n = GetIPCName(f.string) => SameName(n, GetIPCName(f.string))
    BY DEF SameName
  <2> QED  BY <1>3, <2>1, <2>2, <2>3
<1>4. CASE f.kind \notin {"list", "add", "remove"}
  <2>1. About(f) = {}
    BY <1>4 DEF About
  <2> QED  BY <1>4, <2>1
<1> QED  BY <1>1, <1>2, <1>3, <1>4

Words == {"login", "name", "rest"}

LEMMA SpokenFacts ==
  ASSUME out \in Seq(Words)
  PROVE  /\ Rest \subseteq Seq(Words) /\ Spoken \subseteq Seq(Words)
         /\ \A o \in Rest : o = out \/ (open /\ o = Append(out, "rest"))
         /\ \A o \in Spoken : o = out \/ (Addressed /\ open /\ o = Append(out, "rest"))
<1>1. \A o \in Rest : o = out \/ (open /\ o = Append(out, "rest"))
  BY DEF Rest
<1>2. Append(out, "rest") \in Seq(Words)
  BY DEF Words
<1>3. \A o \in Spoken : o = out \/ (Addressed /\ open /\ o = Append(out, "rest"))
  BY <1>1 DEF Spoken
<1> QED  BY <1>1, <1>2, <1>3

LEMMA SizeFacts ==
  CONNECTIONS \in Nat /\ PIPE \in Nat /\ CHANGES \in Nat /\ MESSAGES \in Nat /\ FAILURES \in Nat
BY BoundAssumption

\* What OnStop and RemoveIPCObject leave is a table, and so is what is added to.
LEMMA TableTyped ==
  ASSUME TypeOK
  PROVE  /\ table \in Seq(Names) /\ left \in Seq(Names)
         /\ RemoveObject(id, table) \in Seq(Names)
         /\ \A n \in Names : Add(n, table) \in Seq(Names)
<1>1. table \in Seq(Names) /\ left \in Seq(Names)
  BY DEF TypeOK, Names, Servers
<1>2. GetIPCName(id) \in Names \cup {Nameless}
  BY DEF TypeOK, Names, Servers
<1> QED  BY <1>1, <1>2, ObjectRemoved, Added

LEMMA TypeNext == TypeOK /\ Control /\ [Next]_vars => TypeOK'
<1> SUFFICES ASSUME TypeOK, Control, [Next]_vars
             PROVE  TypeOK'
  OBVIOUS
<1> USE SizeFacts DEF ReadOn
<1> DEFINE Ids == {Nameless} \cup {ServerName(k) : k \in 1 .. CONNECTIONS}
           Sessions == {NoSession} \cup {<<Session[k]>> : k \in 1 .. CONNECTIONS}
           Tables == Seq(Objects \cup {ServerName(k) : k \in 1 .. CONNECTIONS})
<1>0. Tables = Seq(Names)
  BY DEF Names, Servers
\* The thread's variables change on their own, and so do the server's.
<1>1. /\ pipe' \in Seq(Frames) /\ frame' \in Frames
  <2>0. pipe \in Seq(Frames) /\ frame \in Frames
    BY DEF TypeOK
  <2>1. CASE UNCHANGED <<pipe, frame>>
    BY <2>0, <2>1
  <2>2. CASE pipe' = <<>> /\ UNCHANGED frame
    BY <2>0, <2>2
  <2>3. CASE ReadBody
    BY <2>0, <2>3 DEF ReadBody
  <2>4. CASE IPCObjectList
    <3>1. frame.kind = "list"
      BY <2>4 DEF IPCObjectList, Handling, Control
    <3>2. \A n : frame.names \ {n} \in SUBSET Objects
      BY <2>0, <3>1, FrameFacts
    <3>3. \A n : [frame EXCEPT !.names = frame.names \ {n}] \in Frames
      BY <2>0, <3>1, <3>2, FrameFacts
    <3>4. Plain \in Frames
      BY FrameMakers DEF Plain
    <3> QED  BY <2>0, <2>4, <3>3, <3>4 DEF IPCObjectList
  <2>5. CASE ServerStep
    <3>1. \A f \in Frames : Sends(f) => pipe' \in Seq(Frames)
      BY <2>0 DEF Sends
    <3>2. Plain = [kind |-> "plain"] /\ objects \in SUBSET Objects
      BY DEF Plain, TypeOK
    <3>3. CASE ServerChanges
      <4>1. PICK n \in Objects :
              IF "list" \in said /\ open
              THEN Sends(IF n \in objects
                         THEN [kind |-> "remove", string |-> GetModuleNameString(n)]
                         ELSE [kind |-> "add", name |-> n])
              ELSE UNCHANGED pipe
        BY <3>3 DEF ServerChanges
      <4> QED  BY <2>0, <3>1, <4>1, <2>5, FrameMakers DEF ServerStep, threadVars
    <3>4. CASE ServerSpeaks
      <4>1. spoken' \in 1 .. MESSAGES /\ Sends([kind |-> "message", number |-> spoken'])
        BY <3>4 DEF ServerSpeaks, TypeOK
      <4> QED  BY <2>0, <3>1, <4>1, <2>5, FrameMakers DEF ServerStep, threadVars
    <3> QED  BY <2>0, <2>5, <3>1, <3>2, <3>3, <3>4, FrameMakers
             DEF ServerStep, ServerAnswersLogin, ServerNamed, ServerNoise, ServerSays, threadVars
  <2>6. CASE UNCHANGED pipe /\ frame' = Plain
    BY <2>0, <2>6, FrameMakers DEF Plain
  <2> QED  BY <2>1, <2>2, <2>3, <2>4, <2>5, <2>6
           DEF Next, ThreadStep, vars, threadVars, Connect, Lose, CheckerExpires, Notice, Disconnect,
               Speak, OnStart, ReadLen, NoMemory, HandlePlain, Discard, LoginSuccess, LoginFailure, ModuleName,
               ModuleStated, OnConnected, ModuleState, AddIPCObject, RemoveIPCObject, IPCMessage, End
<1>2. /\ objects' \subseteq Objects /\ said' \subseteq {"result", "name", "list"}
      /\ changes' \in 0 .. CHANGES /\ spoken' \in 0 .. MESSAGES
      /\ heard' \subseteq 1 .. MESSAGES /\ since' \in 0 .. MESSAGES
  <2>0. /\ objects \subseteq Objects /\ said \subseteq {"result", "name", "list"}
        /\ changes \in 0 .. CHANGES /\ spoken \in 0 .. MESSAGES
        /\ heard \subseteq 1 .. MESSAGES /\ since \in 0 .. MESSAGES
    BY DEF TypeOK
  <2>1. CASE Connect
    BY <2>0, <2>1 DEF Connect
  <2>2. CASE ServerStep
    <3>1. since' = since
      BY <2>2 DEF ServerStep, historyVars
    <3>2. CASE ServerAnswersLogin \/ ServerNamed \/ ServerNoise
      BY <2>0, <3>1, <3>2 DEF ServerAnswersLogin, ServerNamed, ServerNoise, ServerSays, serverVars
    <3>3. CASE ServerChanges
      BY <2>0, <3>1, <3>3 DEF ServerChanges
    <3>4. CASE ServerSpeaks
      <4>1. spoken' = spoken + 1 /\ spoken' \in 1 .. MESSAGES
        BY <2>0, <3>4 DEF ServerSpeaks
      <4> QED  BY <2>0, <3>1, <3>4, <4>1 DEF ServerSpeaks
    <3> QED  BY <2>2, <3>2, <3>3, <3>4 DEF ServerStep
  <2>3. CASE UNCHANGED <<serverVars, since>>
    BY <2>0, <2>3 DEF serverVars
  <2>4. CASE Discard
    <3>1. UNCHANGED <<objects, said, changes, spoken, since>> /\ heard' \subseteq heard
      BY <2>4 DEF Discard
    <3> QED  BY <2>0, <3>1
  <2> QED  BY <2>1, <2>2, <2>3, <2>4
           DEF Next, ThreadStep, vars, historyVars, Lose, CheckerExpires, Notice, Disconnect,
               Speak, OnStart, ReadLen, ReadBody, NoMemory, HandlePlain, Discard, LoginSuccess, LoginFailure,
               ModuleName, ModuleStated, OnConnected, ModuleState, AddIPCObject, IPCObjectList,
               RemoveIPCObject, IPCMessage, End
<1>3. /\ connection' \in 0 .. CONNECTIONS /\ open' \in BOOLEAN /\ at' \in Places
      /\ connected' \in BOOLEAN /\ checker' \in BOOLEAN
  <2>1. /\ connection \in 0 .. CONNECTIONS /\ open \in BOOLEAN /\ at \in Places
        /\ connected \in BOOLEAN /\ checker \in BOOLEAN
    BY DEF TypeOK
  <2>2. connection' \in 0 .. CONNECTIONS
    <3>1. CASE Connect
      BY <2>1, <3>1 DEF Connect
    <3>2. CASE UNCHANGED connection
      BY <2>1, <3>2
    <3> QED  BY <3>1, <3>2
             DEF Next, ThreadStep, ServerStep, vars, Lose, CheckerExpires, Notice, Disconnect, Speak,
                 OnStart, ReadLen, ReadBody, NoMemory, HandlePlain, Discard, LoginSuccess, LoginFailure,
                 ModuleName, ModuleStated, OnConnected, ModuleState, AddIPCObject, IPCObjectList,
                 RemoveIPCObject, IPCMessage, End
  <2>3. open' \in {open, TRUE, FALSE} /\ connected' \in {connected, TRUE, FALSE}
        /\ checker' \in {checker, TRUE, FALSE}
    BY DEF Next, ThreadStep, ServerStep, vars, connVars, Connect, Lose, CheckerExpires, Notice,
           Disconnect, Speak, OnStart, ReadLen, ReadBody, NoMemory, HandlePlain, Discard, LoginSuccess,
           LoginFailure, ModuleName, ModuleStated, OnConnected, ModuleState, AddIPCObject,
           IPCObjectList, RemoveIPCObject, IPCMessage, End, OnStop
  <2>4. at' \in {at} \cup Places
    BY DEF Next, ThreadStep, ServerStep, vars, threadVars, Connect, Lose, CheckerExpires, Notice,
           Disconnect, Speak, OnStart, ReadLen, ReadBody, NoMemory, HandlePlain, Discard, LoginSuccess,
           LoginFailure, ModuleName, ModuleStated, OnConnected, ModuleState, AddIPCObject,
           IPCObjectList, RemoveIPCObject, IPCMessage, End, Places
  <2> QED  BY <2>1, <2>2, <2>3, <2>4
<1>4. GetIPCName(id)' \in Ids /\ session' \in Sessions
  <2>1. GetIPCName(id) \in Ids /\ session \in Sessions
    BY DEF TypeOK
  <2>2. CASE Connect
    BY <2>1, <2>2, NameFacts DEF Connect, moduleVars
  <2>3. CASE LoginSuccess
    <3>1. connection \in 1 .. CONNECTIONS /\ GetIPCName(id) \in {Nameless, ServerName(connection)}
      BY <2>3 DEF LoginSuccess, Handling, Control
    <3>2. [GetIPCName(id) EXCEPT !.host = <<Session[connection]>>] = ServerName(connection)
      BY <3>1, SessionFacts
    <3>3. id' = GetModuleNameString(ServerName(connection)) /\ session' = <<Session[connection]>>
      BY <2>3, <3>2 DEF LoginSuccess
    <3> QED  BY <3>1, <3>3, NameFacts, SessionFacts
  <2>4. CASE ModuleName
    <3>1. connection \in 1 .. CONNECTIONS
      BY <2>4 DEF ModuleName, Handling, Control
    <3>2. id' = GetModuleNameString(ServerName(connection)) /\ session' = session
      BY <2>4 DEF ModuleName
    <3> QED  BY <2>1, <3>1, <3>2, NameFacts, SessionFacts
  <2>5. CASE UNCHANGED id /\ session' \in {session, NoSession}
    BY <2>1, <2>5
  <2> QED  BY <2>2, <2>3, <2>4, <2>5
           DEF Next, ThreadStep, ServerStep, vars, connVars, moduleVars, Lose, CheckerExpires, Notice,
               Disconnect, SessionEnds, Speak, OnStart, ReadLen, ReadBody, NoMemory, HandlePlain,
               Discard, LoginFailure, ModuleStated, OnConnected, ModuleState, AddIPCObject,
               IPCObjectList, RemoveIPCObject, IPCMessage, End
<1>5. out' \in Seq(Words)
  <2>1. out \in Seq(Words)
    BY DEF TypeOK, Words
  <2>2. \A w \in Words : Append(out, w) \in Seq(Words)
    BY <2>1
  <2>3. Spoken \subseteq Seq(Words) /\ Rest \subseteq Seq(Words)
    BY <2>1, SpokenFacts
  <2>4. {"login", "name"} \subseteq Words /\ <<>> \in Seq(Words)
    BY DEF Words
  <2> QED  BY <2>1, <2>2, <2>3, <2>4
           DEF Next, ThreadStep, ServerStep, vars, Connect, Lose, CheckerExpires, Notice, Disconnect,
               Speak, Answer, OnStart, ReadLen, ReadBody, NoMemory, HandlePlain, Discard, LoginSuccess,
               LoginFailure, ModuleName, ModuleStated, OnConnected, ModuleState, AddIPCObject,
               IPCObjectList, RemoveIPCObject, IPCMessage, End
<1>6. {table', left'} \subseteq Tables
  <2>1. table \in Tables /\ left \in Tables
    BY DEF TypeOK
  <2>2. CASE UNCHANGED left /\ (UNCHANGED table \/ table' = RemoveObject(id, table))
    BY <2>1, <2>2, <1>0, TableTyped
  <2>3. CASE Connect
    BY <2>1, <2>3 DEF Connect, moduleVars
  <2>4. CASE UNCHANGED left /\ \E n \in Names : table' = Add(n, table)
    BY <2>1, <2>4, <1>0, TableTyped
  <2>5. CASE RemoveIPCObject
    <3>1. GetIPCName(frame.string) \in Names \cup {Nameless}
      BY <2>5, FrameFacts DEF RemoveIPCObject, Handling, TypeOK, Names
    <3>2. RemoveObject(frame.string, table) \in Seq(Names)
      BY <3>1, TableTyped, ObjectRemoved
    <3> QED  BY <2>1, <2>5, <3>2, <1>0 DEF RemoveIPCObject, historyVars
  <2>6. CASE ModuleName
    <3>1. ServerName(connection) \in Names
      BY <2>6, SessionFacts DEF ModuleName, Handling, Control
    <3> QED  BY <2>4, <2>6, <3>1 DEF ModuleName, historyVars
  <2>7. CASE AddIPCObject
    <3>1. frame.name \in Names
      BY <2>7, FrameFacts DEF AddIPCObject, Handling, TypeOK, Names
    <3> QED  BY <2>4, <2>7, <3>1 DEF AddIPCObject, historyVars
  <2>8. CASE IPCObjectList
    <3>1. frame.names \subseteq Names
      BY <2>8, FrameFacts DEF IPCObjectList, Handling, TypeOK, Names, Control
    <3> QED  BY <2>2, <2>4, <2>8, <3>1 DEF IPCObjectList, historyVars
  <2> QED  BY <2>2, <2>3, <2>5, <2>6, <2>7, <2>8
           DEF Next, ThreadStep, ServerStep, vars, moduleVars, historyVars, Lose, CheckerExpires,
               Notice, Disconnect, OnStop, Speak, OnStart, ReadLen, ReadBody, NoMemory, HandlePlain,
               Discard, LoginSuccess, LoginFailure, ModuleStated, OnConnected, ModuleState,
               IPCMessage, End
<1>7. delivered' \in Seq(1 .. MESSAGES)
  <2>1. delivered \in Seq(1 .. MESSAGES)
    BY DEF TypeOK
  <2>2. CASE IPCMessage
    <3>1. frame.number \in 1 .. MESSAGES
      BY <2>2, FrameFacts DEF IPCMessage, Handling, TypeOK
    <3>2. Append(delivered, frame.number) \in Seq(1 .. MESSAGES)
      BY <2>1, <3>1
    <3> QED  BY <2>1, <2>2, <3>2 DEF IPCMessage, Deliver
  <2>3. CASE UNCHANGED delivered
    BY <2>1, <2>3
  <2> QED  BY <2>2, <2>3
           DEF Next, ThreadStep, ServerStep, vars, moduleVars, Connect, Lose, CheckerExpires, Notice,
               Disconnect, Speak, OnStart, ReadLen, ReadBody, NoMemory, HandlePlain, Discard, LoginSuccess,
               LoginFailure, ModuleName, ModuleStated, OnConnected, ModuleState, AddIPCObject,
               IPCObjectList, RemoveIPCObject, End
<1>8. failures' \in 0 .. FAILURES
  <2>1. failures \in 0 .. FAILURES
    BY DEF TypeOK
  <2>2. CASE Fails
    BY <2>1, <2>2 DEF Fails
  <2>3. CASE UNCHANGED failures
    BY <2>1, <2>3
  <2> QED  BY <2>2, <2>3
           DEF Next, ThreadStep, ServerStep, vars, Connect, Lose, CheckerExpires, Notice, Disconnect,
               Speak, Answer, OnStart, ReadLen, ReadBody, NoMemory, HandlePlain, Discard,
               LoginSuccess, LoginFailure, ModuleName, ModuleStated, OnConnected, ModuleState,
               AddIPCObject, IPCObjectList, RemoveIPCObject, IPCMessage, End
<1>9. missed' \subseteq Objects /\ unnamed' \in BOOLEAN
  <2>1. missed \subseteq Objects /\ unnamed \in BOOLEAN /\ frame \in Frames
    BY DEF TypeOK
  <2>2. CASE Connect
    BY <2>2 DEF Connect
  <2>3. CASE Discard
    <3>1. missed' = missed \cup About(frame) /\ unnamed' = unnamed
      BY <2>3 DEF Discard
    <3> QED  BY <2>1, <3>1, AboutFacts
  <2>4. CASE LoginSuccess
    <3>1. missed' = missed /\ unnamed' = (out' = out)
      BY <2>4 DEF LoginSuccess
    <3> QED  BY <2>1, <3>1
  <2>5. CASE UNCHANGED <<missed, unnamed>>
    BY <2>1, <2>5
  <2> QED  BY <2>2, <2>3, <2>4, <2>5
           DEF Next, ThreadStep, ServerStep, vars, historyVars, Lose, CheckerExpires, Notice,
               Disconnect, Speak, OnStart, ReadLen, ReadBody, NoMemory, HandlePlain, LoginFailure,
               ModuleName, ModuleStated, OnConnected, ModuleState, AddIPCObject, IPCObjectList,
               RemoveIPCObject, IPCMessage, End
<1> QED  BY <1>1, <1>2, <1>3, <1>4, <1>5, <1>6, <1>7, <1>8, <1>9 DEF TypeOK, Words

----------------------------------------------------------------------------
(***************************************************************************)
(* Control: the connector's thread, its name and the session.              *)
(***************************************************************************)
\* What each kind of step may do to the variables of Control.
LEMMA SameControl ==
  ASSUME Control,
         UNCHANGED <<at, session, connected, checker, said, connection, id>>,
         open' = open \/ open' = FALSE,
         frame' = frame,
         at = "start" => out' = out
  PROVE  Control'
BY DEF Control

LEMMA ControlNext == TypeOK /\ Control /\ [Next]_vars => Control'
<1> SUFFICES ASSUME TypeOK, Control, [Next]_vars
             PROVE  Control'
  OBVIOUS
<1> USE SizeFacts DEF ReadOn
<1>0. open \in BOOLEAN /\ connection \in 0 .. CONNECTIONS /\ out \in Seq(Words)
  BY DEF TypeOK, Words
\* Before the login nothing is sent for the module.
<1>1. at = "start" => Spoken = {out}
  <2>1. SUFFICES ASSUME at = "start" PROVE ~Addressed
    BY DEF Spoken
  <2> QED  BY <2>1 DEF Control, Addressed
<1>2. CASE Connect
  <2>1. connection' \in 1 .. CONNECTIONS /\ at = "none" /\ at' = "start"
    BY <1>0, <1>2 DEF Connect
  <2>2. GetIPCName(id)' = Nameless
    BY <1>2, NameFacts DEF Connect
  <2>3. session = NoSession /\ session' = session /\ ~checker /\ checker' = checker
    BY <1>2 DEF Connect, Control, moduleVars
  <2> QED  BY <1>2, <2>1, <2>2, <2>3 DEF Connect, Control
<1>3. CASE Lose
  BY <1>3, SameControl DEF Lose, threadVars, connVars, moduleVars, serverVars
<1>4. CASE CheckerExpires
  BY <1>4 DEF CheckerExpires, OnStop, Control
<1>5. CASE Notice
  <2>1. session' = NoSession
    <3>1. session # NoSession => SameName(GetIPCName(id), [Nameless EXCEPT !.host = session])
      BY DEF Control, SameName
    <3> QED  BY <1>5, <3>1 DEF Notice, SessionEnds
  <2> QED  BY <1>5, <2>1 DEF Notice, Control, connVars
<1>6. CASE Disconnect
  BY <1>6 DEF Disconnect, SessionEnds, OnStop, Control
<1>7. CASE Speak
  BY <1>1, <1>7, SameControl DEF Speak, threadVars, connVars, moduleVars, serverVars
<1>8. CASE ServerStep
  <2>1. CASE at = "start"
    <3>1. said = {} /\ out = <<>>
      BY <2>1 DEF Control
    <3>2. ToSet(out) = {}
      BY <3>1 DEF ToSet
    <3>3. said' = said
      BY <1>8, <3>1, <3>2 DEF ServerStep, ServerAnswersLogin, ServerNamed, ServerNoise,
                              ServerChanges, ServerSpeaks, serverVars
    <3> QED  BY <1>8, <3>3, SameControl DEF ServerStep, threadVars, connVars, moduleVars
  <2>2. CASE at # "start"
    BY <1>8, <2>2 DEF ServerStep, threadVars, connVars, moduleVars, Control
  <2> QED  BY <2>1, <2>2
<1>9. CASE OnStart
  BY <1>9 DEF OnStart, Control, moduleVars
<1>10. CASE ReadLen
  BY <1>10 DEF ReadLen, Control, moduleVars, connVars
<1>11. CASE ReadBody
  BY <1>11 DEF ReadBody, Control, moduleVars, connVars
<1>12. CASE NoMemory
  BY <1>12 DEF NoMemory, Control, moduleVars, connVars
<1>13. CASE HandlePlain
  BY <1>13 DEF HandlePlain, Handling, Control, moduleVars, connVars
<1>26. CASE Discard
  BY <1>26 DEF Discard, Control, moduleVars, connVars
<1>14. CASE LoginSuccess
  <2>1. connection \in 1 .. CONNECTIONS /\ GetIPCName(id) \in {Nameless, ServerName(connection)}
    BY <1>14 DEF LoginSuccess, Handling, Control
  <2>2. [GetIPCName(id) EXCEPT !.host = <<Session[connection]>>] = ServerName(connection)
    BY <2>1, SessionFacts
  <2>3. /\ GetIPCName(id') = ServerName(connection)
        /\ [Nameless EXCEPT !.host = session'] = ServerName(connection)
    BY <1>14, <2>1, <2>2, SessionFacts, NameFacts DEF LoginSuccess
  <2> QED  BY <1>14, <2>1, <2>3 DEF LoginSuccess, Control
<1>15. CASE LoginFailure
  BY <1>15 DEF LoginFailure, Handling, Control, moduleVars, connVars, threadVars
<1>16. CASE ModuleName
  <2>1. connection \in 1 .. CONNECTIONS /\ GetIPCName(id) \in {Nameless, ServerName(connection)}
    BY <1>16 DEF ModuleName, Handling, Control
  <2>2. session # NoSession => [Nameless EXCEPT !.host = session] = ServerName(connection)
    BY <2>1, SessionFacts DEF Control
  <2>3. GetIPCName(id') = ServerName(connection)
    BY <1>16, <2>1, SessionFacts, NameFacts DEF ModuleName
  <2> QED  BY <1>16, <2>1, <2>2, <2>3 DEF ModuleName, Control
<1>17. CASE ModuleStated
  BY <1>17 DEF ModuleStated, Control, moduleVars, connVars
<1>18. CASE OnConnected
  BY <1>18 DEF OnConnected, Control, moduleVars
<1>19. CASE ModuleState
  BY <1>19 DEF ModuleState, Handling, Control, moduleVars, connVars
<1>20. CASE AddIPCObject
  BY <1>20 DEF AddIPCObject, Handling, Control, connVars
<1>21. CASE IPCObjectList
  <2>1. frame.kind = "list" /\ frame \in Frames
    BY <1>21 DEF IPCObjectList, Handling, Control, TypeOK
  <2>2. \A n : [frame EXCEPT !.names = frame.names \ {n}].kind = "list"
    BY <2>1, FrameFacts
  <2>3. at' = "add" => frame'.kind = "list"
    BY <1>21, <2>2 DEF IPCObjectList
  <2> QED  BY <1>21, <2>3 DEF IPCObjectList, Handling, Control, connVars
<1>22. CASE RemoveIPCObject
  BY <1>22 DEF RemoveIPCObject, Handling, Control, connVars
<1>23. CASE IPCMessage
  BY <1>23 DEF IPCMessage, Handling, Control, connVars
<1>24. CASE End
  BY <1>24 DEF End, OnStop, Control
<1>25. CASE UNCHANGED vars
  BY <1>25, SameControl DEF vars, threadVars, connVars, moduleVars, serverVars
<1> QED  BY <1>2, <1>3, <1>4, <1>5, <1>6, <1>7, <1>8, <1>9, <1>10, <1>11, <1>12, <1>13, <1>14, <1>15,
            <1>16, <1>17, <1>18, <1>19, <1>20, <1>21, <1>22, <1>23, <1>24, <1>25, <1>26
         DEF Next, ThreadStep

----------------------------------------------------------------------------
(***************************************************************************)
(* Arrivals: what a step does to the frames on their way and to the one    *)
(* that is handled.                                                        *)
(***************************************************************************)
Quietly ==
  /\ pipe' \in {pipe, <<>>} /\ said' = said
  /\ at' = "handle" => at = "handle" /\ frame' = frame

Reads ==
  /\ at = "body" /\ at' = "handle" /\ said' = said /\ open
  /\ pipe # <<>> /\ frame' = Head(pipe) /\ pipe' = Tail(pipe)

Sending(f) ==
  /\ pipe' = Append(pipe, f) /\ at' = at /\ frame' = frame
  /\ \/ f.kind \in Answered /\ "result" \notin said /\ said' = said \cup {"result"}
     \/ f.kind = "name" /\ "name" \notin said /\ said' = said \cup {"name"}
     \/ f.kind \notin Answered \cup {"name"} /\ said' \in {said, said \cup {"list"}}

\* What the frame means for the server.
Tells(f) ==
  \/ /\ f.kind \notin {"message", "list", "add", "remove"}
     /\ UNCHANGED <<spoken, heard, objects>>
     /\ "list" \in said' <=> "list" \in said
  \/ f.kind = "message" /\ f.number = spoken' /\ ServerSpeaks
  \/ /\ f.kind = "list" /\ f.names = objects
     /\ "list" \notin said /\ said' = said \cup {"list"} /\ UNCHANGED <<spoken, heard, objects>>
  \/ /\ "list" \in said /\ UNCHANGED <<said, spoken, heard>>
     /\ \E n \in Objects :
          \/ f.kind = "remove" /\ GetIPCName(f.string) = n /\ n \in objects /\ objects' = objects \ {n}
          \/ f.kind = "add" /\ f.name = n /\ n \notin objects /\ objects' = objects \cup {n}

LEMMA ServerSends ==
  ASSUME TypeOK, ServerStep
  PROVE  \/ ServerChanges /\ UNCHANGED pipe /\ ~("list" \in said /\ open)
         \/ open /\ \E f \in Frames : Sending(f) /\ Tells(f)
<1> USE SizeFacts
<1>1. at' = at /\ frame' = frame
  BY DEF ServerStep, threadVars
<1>2. CASE ServerAnswersLogin
  <2>1. PICK kind \in Answered : ServerSays("result", [kind |-> kind])
    BY <1>2 DEF ServerAnswersLogin, Answered
  <2> DEFINE f == [kind |-> kind]
  <2>2. f \in Frames /\ f.kind = kind
    BY FrameMakers DEF Answered
  <2> HIDE DEF f
  <2>3. open /\ pipe' = Append(pipe, f) /\ "result" \notin said /\ said' = said \cup {"result"}
    BY <2>1 DEF ServerSays, Sends, f
  <2>4. Tells(f)
    BY <2>1, <2>2 DEF Tells, ServerSays, Answered
  <2> QED  BY <1>1, <2>2, <2>3, <2>4 DEF Sending
<1>3. CASE ServerNamed
  <2>1. CASE ServerSays("name", [kind |-> "name"])
    <3> DEFINE f == [kind |-> "name"]
    <3>1. f \in Frames /\ f.kind = "name"
      BY FrameMakers
    <3> HIDE DEF f
    <3>2. open /\ pipe' = Append(pipe, f) /\ "name" \notin said /\ said' = said \cup {"name"}
      BY <2>1 DEF ServerSays, Sends, f
    <3>3. Tells(f)
      BY <2>1, <3>1 DEF Tells, ServerSays
    <3> QED  BY <1>1, <3>1, <3>2, <3>3 DEF Sending
  <2>2. CASE ServerSays("list", [kind |-> "list", names |-> objects])
    <3> DEFINE f == [kind |-> "list", names |-> objects]
    <3>1. f \in Frames /\ f.kind = "list" /\ f.names = objects
      BY FrameMakers DEF TypeOK
    <3> HIDE DEF f
    <3>2. open /\ pipe' = Append(pipe, f) /\ said' = said \cup {"list"}
      BY <2>2 DEF ServerSays, Sends, f
    <3>3. Tells(f)
      BY <2>2, <3>1 DEF Tells, ServerSays
    <3> QED  BY <1>1, <3>1, <3>2, <3>3 DEF Sending, Answered
  <2> QED  BY <1>3, <2>1, <2>2 DEF ServerNamed
<1>4. CASE ServerNoise
  <2>1. PICK f \in {Plain, [kind |-> "exists"]} : Sends(f)
    BY <1>4 DEF ServerNoise
  <2>2. f \in Frames /\ f.kind \in {"plain", "exists"}
    BY FrameMakers DEF Plain
  <2>3. UNCHANGED <<said, spoken, heard, objects>>
    BY <1>4 DEF ServerNoise, serverVars
  <2>4. Tells(f)
    BY <2>2, <2>3 DEF Tells
  <2> QED  BY <1>1, <2>1, <2>2, <2>3, <2>4 DEF Sending, Sends, Answered
<1>5. CASE ServerChanges
  <2>1. PICK n \in Objects :
          /\ objects' = IF n \in objects THEN objects \ {n} ELSE objects \cup {n}
          /\ IF "list" \in said /\ open
             THEN Sends(IF n \in objects
                        THEN [kind |-> "remove", string |-> GetModuleNameString(n)]
                        ELSE [kind |-> "add", name |-> n])
             ELSE UNCHANGED pipe
    BY <1>5 DEF ServerChanges
  <2>2. CASE "list" \in said /\ open
    <3> DEFINE f == IF n \in objects THEN [kind |-> "remove", string |-> GetModuleNameString(n)]
                                     ELSE [kind |-> "add", name |-> n]
    <3>1. /\ f \in Frames /\ f.kind \in {"add", "remove"}
          /\ n \in objects => f.kind = "remove" /\ GetIPCName(f.string) = n
          /\ n \notin objects => f.kind = "add" /\ f.name = n
      BY FrameMakers, NameFacts DEF Names
    <3>2. Sends(f)
      BY <2>1, <2>2
    <3> HIDE DEF f
    <3>3. UNCHANGED <<said, spoken, heard>>
      BY <1>5 DEF ServerChanges
    <3>4. Tells(f)
      BY <2>1, <2>2, <3>1, <3>3 DEF Tells
    <3> QED  BY <1>1, <3>1, <3>2, <3>3, <3>4 DEF Sending, Sends, Answered
  <2> QED  BY <1>5, <2>1, <2>2
<1>6. CASE ServerSpeaks
  <2> DEFINE f == [kind |-> "message", number |-> spoken']
  <2>1. spoken' \in 1 .. MESSAGES
    BY <1>6 DEF ServerSpeaks, TypeOK
  <2>2. f \in Frames /\ f.kind = "message" /\ f.number = spoken'
    BY <2>1, FrameMakers
  <2>3. Sends(f) /\ said' = said
    BY <1>6 DEF ServerSpeaks
  <2> HIDE DEF f
  <2>4. Tells(f)
    BY <1>6, <2>2 DEF Tells
  <2> QED  BY <1>1, <2>2, <2>3, <2>4 DEF Sending, Sends, Answered
<1> QED  BY <1>2, <1>3, <1>4, <1>5, <1>6 DEF ServerStep

LEMMA PipeSteps ==
  ASSUME TypeOK, [Next]_vars
  PROVE  Connect \/ Quietly \/ Reads \/ \E f \in Frames : Sending(f)
<1> USE DEF ReadOn
<1>1. CASE ServerStep
  <2>1. CASE ServerChanges /\ UNCHANGED pipe
    BY <1>1, <2>1 DEF ServerStep, ServerChanges, threadVars, Quietly
  <2> QED  BY <1>1, <2>1, ServerSends
<1>2. CASE ReadBody
  BY <1>2 DEF ReadBody, Reads, Quietly, serverVars
<1> QED  BY <1>1, <1>2
         DEF Next, ThreadStep, vars, threadVars, serverVars, Lose, CheckerExpires, Notice, Disconnect,
             Speak, OnStart, ReadLen, NoMemory, HandlePlain, Discard, LoginSuccess, LoginFailure, ModuleName,
             ModuleStated, OnConnected, ModuleState, AddIPCObject, IPCObjectList, RemoveIPCObject,
             IPCMessage, End, Quietly

LEMMA Shifted ==
  ASSUME TypeOK, Reads
  PROVE  /\ Len(pipe) \in Nat /\ 1 \in DOMAIN pipe /\ frame' = pipe[1]
         /\ DOMAIN pipe = 1 .. Len(pipe) /\ DOMAIN pipe' = 1 .. Len(pipe) - 1
         /\ Len(pipe') = Len(pipe) - 1
         /\ \A k \in DOMAIN pipe' : k + 1 \in DOMAIN pipe /\ pipe'[k] = pipe[k + 1]
         /\ \A k \in DOMAIN pipe : k # 1 => k - 1 \in DOMAIN pipe' /\ pipe[k] = pipe'[k - 1]
BY DEF TypeOK, Reads

LEMMA Extended ==
  ASSUME TypeOK, NEW f, pipe' = Append(pipe, f)
  PROVE  /\ Len(pipe) \in Nat /\ DOMAIN pipe = 1 .. Len(pipe)
         /\ DOMAIN pipe' = 1 .. Len(pipe) + 1 /\ pipe'[Len(pipe) + 1] = f
         /\ Len(pipe') = Len(pipe) + 1
         /\ \A k \in DOMAIN pipe : pipe'[k] = pipe[k]
BY DEF TypeOK

\* A kind of frame that is sent at most once arrives at most once.
LEMMA OnceKept ==
  ASSUME NEW K, NEW w, Once(K, w), Quietly
  PROVE  Once(K, w)' /\ (Arriving(K)' => Arriving(K))
BY DEF Once, Arriving, Quietly

LEMMA OnceRead ==
  ASSUME TypeOK, NEW K, NEW w, Once(K, w), Reads
  PROVE  Once(K, w)' /\ (Arriving(K)' <=> Arriving(K))
<1>1. /\ Len(pipe) \in Nat /\ 1 \in DOMAIN pipe /\ frame' = pipe[1]
      /\ DOMAIN pipe = 1 .. Len(pipe) /\ DOMAIN pipe' = 1 .. Len(pipe) - 1
      /\ \A k \in DOMAIN pipe' : k + 1 \in DOMAIN pipe /\ pipe'[k] = pipe[k + 1]
      /\ \A k \in DOMAIN pipe : k # 1 => k - 1 \in DOMAIN pipe' /\ pipe[k] = pipe'[k - 1]
  BY Shifted
<1>2. at = "body" /\ at' = "handle" /\ said' = said
  BY DEF Reads
<1>3. Arriving(K)' <=> Arriving(K)
  BY <1>1, <1>2 DEF Arriving
<1>4. \A j, k \in DOMAIN pipe : pipe[j].kind \in K /\ pipe[k].kind \in K => j = k
  BY DEF Once
<1>5. \A j, k \in DOMAIN pipe' : pipe'[j].kind \in K /\ pipe'[k].kind \in K => j = k
  <2> SUFFICES ASSUME NEW j \in DOMAIN pipe', NEW k \in DOMAIN pipe',
                      pipe'[j].kind \in K /\ pipe'[k].kind \in K
               PROVE  j = k
    OBVIOUS
  <2>1. j + 1 = k + 1
    BY <1>1, <1>4
  <2> QED  BY <2>1, <1>1
<1>6. frame'.kind \in K => \A k \in DOMAIN pipe' : pipe'[k].kind \notin K
  <2> SUFFICES ASSUME frame'.kind \in K, NEW k \in DOMAIN pipe', pipe'[k].kind \in K
               PROVE  FALSE
    OBVIOUS
  <2>1. 1 = k + 1
    BY <1>1, <1>4
  <2> QED  BY <2>1, <1>1
<1>7. w \notin said => /\ \A k \in DOMAIN pipe' : pipe'[k].kind \notin K
                       /\ frame'.kind \notin K
  BY <1>1 DEF Once
<1> QED  BY <1>2, <1>3, <1>5, <1>6, <1>7 DEF Once

\* Sending a frame of another kind, and of the kind for the first time.
LEMMA OnceSent ==
  ASSUME TypeOK, NEW K, NEW w, Once(K, w), NEW f \in Frames,
         pipe' = Append(pipe, f), at' = at, frame' = frame, said \subseteq said',
         f.kind \in K => w \notin said /\ w \in said'
  PROVE  /\ Once(K, w)'
         /\ f.kind \notin K => (Arriving(K)' <=> Arriving(K))
<1>1. /\ Len(pipe) \in Nat /\ DOMAIN pipe = 1 .. Len(pipe)
      /\ DOMAIN pipe' = 1 .. Len(pipe) + 1 /\ pipe'[Len(pipe) + 1] = f
      /\ \A k \in DOMAIN pipe : pipe'[k] = pipe[k]
  BY Extended
<1>2. \A k \in DOMAIN pipe' : k = Len(pipe) + 1 \/ k \in DOMAIN pipe
  BY <1>1
<1>3. \A k \in DOMAIN pipe : k \in DOMAIN pipe'
  BY <1>1
<1>4. Once(K, w)'
  <2>1. CASE f.kind \in K
    <3>1. w \notin said /\ w \in said'
      BY <2>1
    <3>2. /\ \A k \in DOMAIN pipe : pipe[k].kind \notin K
          /\ ~ (at = "handle" /\ frame.kind \in K)
      BY <3>1 DEF Once
    <3> QED  BY <1>1, <1>2, <3>1, <3>2 DEF Once
  <2>2. CASE f.kind \notin K
    <3>1. w \notin said' => w \notin said
      OBVIOUS
    <3> QED  BY <1>1, <1>2, <2>2, <3>1 DEF Once
  <2> QED  BY <2>1, <2>2
<1>5. f.kind \notin K => (Arriving(K)' <=> Arriving(K))
  BY <1>1, <1>2, <1>3 DEF Arriving
<1> QED  BY <1>4, <1>5

\* The frame that was handled was the only one.
LEMMA OnceHandled ==
  ASSUME NEW K, NEW w, Once(K, w), at = "handle", frame.kind \in K, at' # "handle",
         pipe' \in {pipe, <<>>}
  PROVE  w \in said /\ ~Arriving(K)'
BY DEF Once, Arriving

LEMMA ArrivalsNext ==
  ASSUME TypeOK, Arrivals, [Next]_vars
  PROVE  /\ Arrivals'
         /\ Arriving(Answered)' =>
              Arriving(Answered) \/ ("result" \notin said /\ said' = said \cup {"result"})
         /\ Arriving({"name"})' =>
              Arriving({"name"}) \/ ("name" \notin said /\ said' = said \cup {"name"})
<1>1. Once(Answered, "result") /\ Once({"name"}, "name")
  BY DEF Arrivals
<1>2. CASE Connect
  BY <1>2 DEF Connect, Arrivals, Once, Arriving
<1>3. CASE Quietly
  BY <1>1, <1>3, OnceKept DEF Arrivals
<1>4. CASE Reads
  BY <1>1, <1>4, OnceRead DEF Arrivals
<1>5. CASE \E f \in Frames : Sending(f)
  <2>1. PICK f \in Frames : Sending(f)
    BY <1>5
  <2>2. /\ pipe' = Append(pipe, f) /\ at' = at /\ frame' = frame /\ said \subseteq said'
        /\ f.kind \in Answered => "result" \notin said /\ said' = said \cup {"result"}
        /\ f.kind \in {"name"} => "name" \notin said /\ said' = said \cup {"name"}
    BY <2>1 DEF Sending, Answered
  <2>3. Once(Answered, "result")' /\ (f.kind \notin Answered => (Arriving(Answered)' <=> Arriving(Answered)))
    BY <1>1, <2>2, OnceSent
  <2>4. Once({"name"}, "name")' /\ (f.kind \notin {"name"} => (Arriving({"name"})' <=> Arriving({"name"})))
    BY <1>1, <2>2, OnceSent
  <2> QED  BY <2>2, <2>3, <2>4 DEF Arrivals
<1> QED  BY <1>2, <1>3, <1>4, <1>5, PipeSteps

----------------------------------------------------------------------------
(***************************************************************************)
(* Speech: the login comes first, the client's name second.                *)
(***************************************************************************)
\* The client says nothing new.
LEMMA SpeechSame ==
  ASSUME Speech, out' = out, unnamed' = unnamed, session' \in {session, NoSession}, said' = said,
         open' = TRUE => open, Arriving(Answered)' => Arriving(Answered), open \in BOOLEAN,
         open' \in BOOLEAN
  PROVE  Speech'
BY DEF Speech, InOrder

\* It says more, after its name or without it.
LEMMA SpeechMore ==
  ASSUME Speech, out \in Seq(Words), out' = Append(out, "rest"), unnamed' = unnamed,
         Len(out) >= 2 \/ (unnamed /\ Len(out) >= 1), session' = session, said' = said,
         "result" \in said, Arriving(Answered)' => Arriving(Answered),
         Len(out) >= 2 \/ session # NoSession
  PROVE  Speech'
<1>1. /\ Len(out) \in Nat /\ Len(out') = Len(out) + 1 /\ DOMAIN out' = 1 .. Len(out) + 1
      /\ out'[Len(out) + 1] = "rest" /\ DOMAIN out = 1 .. Len(out)
      /\ \A k \in DOMAIN out : out'[k] = out[k]
  OBVIOUS
<1>2. InOrder(out)'
  <2>0. \A k \in DOMAIN out : (out[k] = "login" <=> k = 1) /\ (out[k] = "name" <=> k = 2 /\ ~unnamed)
    BY DEF Speech, InOrder
  <2> SUFFICES ASSUME NEW k \in DOMAIN out'
               PROVE  (out'[k] = "login" <=> k = 1) /\ (out'[k] = "name" <=> k = 2 /\ ~unnamed)
    BY DEF InOrder
  <2>1. CASE k \in DOMAIN out
    BY <1>1, <2>0, <2>1
  <2>2. CASE k = Len(out) + 1
    BY <1>1, <2>2
  <2> QED  BY <1>1, <2>1, <2>2
<1>3. ~Arriving(Answered)'
  BY <1>1 DEF Speech
<1>4. Len(out') >= 2
  BY <1>1
<1> QED  BY <1>1, <1>2, <1>3, <1>4 DEF Speech

LEMMA SpeechSpoken ==
  ASSUME Speech, out \in Seq(Words), out' \in Spoken, unnamed' = unnamed, session' = session,
         said' = said, open' = open, open \in BOOLEAN, Arriving(Answered)' => Arriving(Answered)
  PROVE  Speech'
<1>1. CASE out' = out
  BY <1>1, SpeechSame
<1>2. CASE Addressed /\ open /\ out' = Append(out, "rest")
  <2>1. session # NoSession
    BY <1>2 DEF Addressed
  <2>2. "result" \in said
    BY <2>1 DEF Speech
  <2>3. Len(out) >= 2 \/ (unnamed /\ Len(out) >= 1)
    BY <1>2, <2>1, <2>2 DEF Speech
  <2> QED  BY <1>2, <2>1, <2>2, <2>3, SpeechMore
<1> QED  BY <1>1, <1>2, SpokenFacts

LEMMA SpeechNext ==
  ASSUME TypeOK, Control, Arrivals, Speech, Entry, [Next]_vars
  PROVE  Speech'
<1> USE SizeFacts DEF ReadOn
<1>0. /\ out \in Seq(Words) /\ open \in BOOLEAN /\ Len(out) \in Nat
      /\ DOMAIN out = 1 .. Len(out) /\ open' \in BOOLEAN
  <2>1. TypeOK'
    BY TypeNext
  <2> QED  BY <2>1 DEF TypeOK, Words
<1>1. said' = said => (Arriving(Answered)' => Arriving(Answered))
  BY ArrivalsNext
<1>2. CASE Connect
  <2>1. session = NoSession
    BY <1>2 DEF Connect, Control
  <2> QED  BY <1>2, <2>1 DEF Connect, Speech, InOrder, moduleVars, Arriving
<1>3. CASE /\ UNCHANGED <<out, unnamed>> /\ session' \in {session, NoSession} /\ said' = said
           /\ open' = TRUE => open
  BY <1>0, <1>1, <1>3, SpeechSame
<1>4. CASE out' \in Spoken /\ UNCHANGED <<unnamed, session, said, open>>
  BY <1>0, <1>1, <1>4, SpeechSpoken
<1>5. CASE ServerStep
  <2>1. UNCHANGED <<out, session, open, unnamed>>
    BY <1>5 DEF ServerStep, moduleVars, historyVars
  <2>2. CASE ServerAnswersLogin
    <3>1. "result" \notin said /\ said' = said \cup {"result"} /\ "login" \in ToSet(out)
      BY <2>2 DEF ServerAnswersLogin, ServerSays
    <3>2. \E k \in DOMAIN out : out[k] = "login"
      BY <3>1 DEF ToSet
    <3>3. Len(out) = 1 /\ session = NoSession
      BY <1>0, <3>1, <3>2 DEF Speech, InOrder
    <3> QED  BY <2>1, <3>1, <3>3 DEF Speech, InOrder
  <2>3. CASE ServerNamed
    <3>1. /\ "name" \in ToSet(out)
          /\ said' = said \cup {"name"} \/ said' = said \cup {"list"}
      BY <2>3 DEF ServerNamed, ServerSays
    <3>2. \E k \in DOMAIN out : out[k] = "name"
      BY <3>1 DEF ToSet
    <3>3. Len(out) >= 2
      BY <1>0, <3>2 DEF Speech, InOrder
    <3>4. Arriving(Answered)' => Arriving(Answered)
      BY <3>1, ArrivalsNext
    <3>5. "result" \in said' <=> "result" \in said
      BY <3>1
    <3> QED  BY <1>0, <2>1, <3>3, <3>4, <3>5 DEF Speech, InOrder
  <2>4. CASE said' = said
    BY <1>3, <2>1, <2>4
  <2> QED  BY <1>5, <2>2, <2>3, <2>4
           DEF ServerStep, ServerNoise, ServerChanges, ServerSpeaks, serverVars
<1>6. CASE OnStart
  <2>1. /\ at = "start" /\ UNCHANGED <<said, session, open, unnamed>>
        /\ out' = out \/ out' = Append(out, "login")
    BY <1>6 DEF OnStart, Answer, serverVars, moduleVars, historyVars
  <2>2. out = <<>> /\ said = {} /\ session = NoSession
    BY <2>1 DEF Control
  <2>3. CASE out' = out
    BY <1>3, <2>1, <2>3
  <2>4. CASE out' = Append(out, "login")
    <3>1. Len(out) = 0 /\ Len(out') = 1 /\ DOMAIN out' = 1 .. 1 /\ out'[1] = "login"
      BY <2>2, <2>4
    <3>2. ~Arriving(Answered)'
      BY <1>1, <2>1, <3>1 DEF Speech
    <3>3. "login" # "name" /\ 1 # 2
      OBVIOUS
    <3> QED  BY <2>1, <2>2, <3>1, <3>2, <3>3 DEF Speech, InOrder
  <2> QED  BY <2>1, <2>3, <2>4
<1>7. CASE LoginSuccess
  <2>1. /\ at = "handle" /\ frame.kind \in Answered /\ at' = "len"
        /\ UNCHANGED <<said, open, pipe>>
        /\ (open /\ out' = Append(out, "name")) \/ out' = out
        /\ unnamed' = (out' = out)
    BY <1>7 DEF LoginSuccess, Handling, Answer, Answered, serverVars
  <2>2. Arriving(Answered) /\ "result" \in said /\ ~Arriving(Answered)'
    <3>1. Once(Answered, "result")
      BY DEF Arrivals
    <3> QED  BY <2>1, <3>1, OnceHandled DEF Arriving
  <2>3. Len(out) = 1
    BY <2>2 DEF Speech
  <2>4. CASE open /\ out' = Append(out, "name")
    <3>1. /\ Len(out') = 2 /\ DOMAIN out' = 1 .. 2 /\ out'[2] = "name" /\ out'[1] = out[1]
      <4>1. out' = Append(out, "name")
        BY <2>4
      <4>2. \A o \in Seq(Words) : \A w : Len(o) = 1 =>
              /\ Len(Append(o, w)) = 2 /\ DOMAIN Append(o, w) = 1 .. 2
              /\ Append(o, w)[2] = w /\ Append(o, w)[1] = o[1]
        OBVIOUS
      <4> QED  BY <1>0, <2>3, <4>1, <4>2
    <3>2. out[1] = "login"
      BY <1>0, <2>3 DEF Speech, InOrder
    <3>3. unnamed' = FALSE
      <4>1. out' # out
        BY <2>3, <3>1
      <4> QED  BY <2>1, <4>1
    <3>4. InOrder(out)'
      BY <3>1, <3>2, <3>3 DEF InOrder
    <3> QED  BY <2>1, <2>2, <3>1, <3>4 DEF Speech
  <2>5. CASE out' = out
    <3>1. unnamed' = TRUE
      BY <2>1, <2>5
    <3>2. InOrder(out)'
      BY <1>0, <2>3, <2>5, <3>1 DEF Speech, InOrder
    <3> QED  BY <2>1, <2>2, <2>3, <2>5, <3>1, <3>2 DEF Speech
  <2> QED  BY <2>1, <2>4, <2>5
<1>8. CASE ModuleStated
  <2>1. /\ UNCHANGED <<said, session, open, unnamed>> /\ at = "stated"
        /\ out' = out \/ out' = Append(out, "rest")
    BY <1>0, <1>8, SpokenFacts DEF ModuleStated, serverVars, moduleVars, historyVars
  <2>2. Len(out) >= 2
    BY <2>1 DEF Entry, Speech
  <2>3. "result" \in said
    BY <2>2 DEF Speech
  <2> QED  BY <1>0, <1>1, <1>3, <2>1, <2>2, <2>3, SpeechMore
<1>9. CASE ModuleName \/ ModuleState \/ AddIPCObject \/ RemoveIPCObject \/ Speak \/ End \/ OnConnected
  BY <1>4, <1>9 DEF ModuleName, ModuleState, AddIPCObject, RemoveIPCObject, Speak, End, OnConnected,
                    serverVars, moduleVars, historyVars
<1>11. CASE IPCObjectList
  BY <1>3, <1>4, <1>11 DEF IPCObjectList, serverVars, historyVars
<1>12. CASE Lose \/ CheckerExpires \/ Notice \/ Disconnect \/ LoginFailure
  <2>1. UNCHANGED <<out, unnamed, said>> /\ open' = FALSE
    BY <1>12 DEF Lose, CheckerExpires, Notice, Disconnect, LoginFailure, serverVars, historyVars
  <2>2. session' \in {session, NoSession}
    BY <1>12 DEF Lose, CheckerExpires, Notice, Disconnect, SessionEnds, LoginFailure, moduleVars
  <2> QED  BY <1>3, <2>1, <2>2
<1>13. CASE ReadLen \/ ReadBody \/ NoMemory \/ HandlePlain \/ Discard \/ IPCMessage \/ UNCHANGED vars
  <2>1. UNCHANGED <<out, unnamed, session, said, open>>
    BY <1>13 DEF ReadLen, ReadBody, NoMemory, HandlePlain, Discard, IPCMessage, vars, serverVars,
                 moduleVars, historyVars
  <2> QED  BY <1>0, <1>3, <2>1
<1> QED  BY <1>2, <1>5, <1>6, <1>7, <1>8, <1>9, <1>11, <1>12, <1>13 DEF Next, ThreadStep

----------------------------------------------------------------------------
(***************************************************************************)
(* Entry: the server's place in the table.                                 *)
(***************************************************************************)
LEMMA EntryKept ==
  ASSUME Entry, \A n \in Servers : Count(n, table') = Count(n, table),
         UNCHANGED <<left, connection>>,
         GetIPCName(id) = ServerName(connection) => GetIPCName(id') = ServerName(connection),
         at' = at \/ at' \notin {"none", "absent", "start"},
         at' \in {"stated", "welcome"} => at \in {"stated", "welcome"},
         connected' = connected \/ at = "welcome",
         said \subseteq said',
         Arriving({"name"})' => Arriving({"name"}) \/ "name" \notin said
  PROVE  Entry'
<1>1. Listed' <=> Listed
  BY DEF Listed
<1> QED  BY <1>1 DEF Entry

\* OnStop removes the entry.
LEMMA EntryGone ==
  ASSUME TypeOK, Control, Entry, OnStop, at # "none"
  PROVE  ~Listed'
<1>1. /\ table \in Seq(Names) /\ table' = RemoveObject(id, table)
      /\ GetIPCName(id) \in Names \cup {Nameless}
  BY TableTyped DEF OnStop, TypeOK, Names, Servers
<1>2. \A n : Count(n, table) \in Nat
  BY <1>1, CountType
<1>3. \A n : Count(n, table') =
        Count(n, table) - (IF n = GetIPCName(id) /\ Count(n, table) # 0 THEN 1 ELSE 0)
  BY <1>1, ObjectRemoved
<1>4. CASE ~Listed
  BY <1>2, <1>3, <1>4 DEF Listed
<1>5. CASE Listed
  <2>1. /\ GetIPCName(id) = ServerName(connection)
        /\ \A n \in Servers : Count(n, table) = IF n = ServerName(connection) THEN 1 ELSE 0
    BY <1>5 DEF Entry
  <2> QED  BY <1>3, <2>1 DEF Listed
<1> QED  BY <1>4, <1>5

LEMMA EntryNext ==
  ASSUME TypeOK, Control, Arrivals, Entry, [Next]_vars
  PROVE  Entry'
<1> USE SizeFacts DEF ReadOn
<1>0. table \in Seq(Names) /\ frame \in Frames /\ \A n \in Objects : n \in Names /\ n \notin Servers
  BY TableTyped, NameFacts DEF TypeOK, Names
<1>1. /\ Arriving({"name"})' => Arriving({"name"}) \/ "name" \notin said
      /\ Once({"name"}, "name")
  BY ArrivalsNext DEF Arrivals
<1>2. CASE Connect
  <2>1. ~Listed /\ table' = table /\ left' = table /\ at' = "start" /\ connected' = FALSE
    BY <1>2 DEF Connect, Entry, moduleVars
  <2> QED  BY <2>1 DEF Entry, Listed
<1>3. CASE Notice
  <2>1. ~Listed /\ table' = table /\ left' = left /\ at' = "none" /\ connected' = FALSE
    BY <1>3 DEF Notice, Entry, Control, historyVars, connVars, TypeOK
  <2> QED  BY <2>1 DEF Entry, Listed
<1>4. CASE End \/ CheckerExpires \/ Disconnect
  <2>1. OnStop /\ at # "none" /\ left' = left /\ connected' = FALSE /\ at' \in {"none", "absent"}
    BY <1>4 DEF End, CheckerExpires, Disconnect, Control, OnStop, historyVars
  <2> QED  BY <2>1, EntryGone DEF Entry
<1>5. CASE LoginSuccess
  <2>1. connection \in 1 .. CONNECTIONS /\ GetIPCName(id) \in {Nameless, ServerName(connection)}
    BY <1>5 DEF LoginSuccess, Handling, Control
  <2>2. [GetIPCName(id) EXCEPT !.host = <<Session[connection]>>] = ServerName(connection)
    BY <2>1, SessionFacts
  <2>3. GetIPCName(id') = ServerName(connection)
    BY <1>5, <2>1, <2>2, SessionFacts, NameFacts DEF LoginSuccess
  <2> QED  BY <1>1, <1>5, <2>3, EntryKept DEF LoginSuccess, historyVars, serverVars
<1>6. CASE ModuleName
  <2> DEFINE s == ServerName(connection)
  <2>1. /\ at = "handle" /\ frame.kind \in {"name"} /\ at' = "stated"
        /\ UNCHANGED <<said, pipe, connection, left, connected>>
        /\ table' = Add(s, table) /\ id' = GetModuleNameString(s)
    BY <1>6 DEF ModuleName, Handling, serverVars, historyVars
  <2>2. connection \in 1 .. CONNECTIONS /\ s \in Servers /\ s \in Names /\ GetIPCName(id') = s
    <3>1. connection \in 1 .. CONNECTIONS
      BY <2>1 DEF Control
    <3> QED  BY <2>1, <3>1, SessionFacts, NameFacts
  <2>3. Arriving({"name"}) /\ "name" \in said /\ ~Arriving({"name"})'
    BY <1>1, <2>1, OnceHandled DEF Arriving
  <2>4. \A n \in Servers : Count(n, table) = 0
    BY <2>3 DEF Entry, Listed
  <2> HIDE DEF s
  <2>5. \A n : Count(n, table') = Count(n, table) + (IF n = s THEN 1 ELSE 0)
    BY <1>0, <2>1, <2>2, Added
  <2>6. \A n \in Servers : Count(n, table') = IF n = s THEN 1 ELSE 0
    BY <2>4, <2>5
  <2>7. Listed'
    BY <2>2, <2>6 DEF Listed
  <2> QED  BY <2>1, <2>2, <2>3, <2>6, <2>7 DEF Entry, s
\* The server's modules bear other names.
<1>7. ASSUME NEW n \in Objects, table' = Add(n, table)
      PROVE  \A m \in Servers : Count(m, table') = Count(m, table)
  <2>1. \A m : Count(m, table) \in Nat
    BY <1>0, CountType
  <2>2. \A m \in Servers : m # n
    BY <1>0
  <2>3. \A m : Count(m, table') = Count(m, table) + (IF m = n THEN 1 ELSE 0)
    BY <1>0, <1>7, Added
  <2> QED  BY <2>1, <2>2, <2>3
<1>8. CASE AddIPCObject
  <2>1. frame.name \in Objects /\ table' = Add(frame.name, table)
    BY <1>0, <1>8, FrameFacts DEF AddIPCObject, Handling
  <2> QED  BY <1>1, <1>7, <1>8, <2>1, EntryKept DEF AddIPCObject, historyVars, serverVars, connVars
<1>9. CASE IPCObjectList
  <2>1. frame.names \subseteq Objects
    BY <1>0, <1>9, FrameFacts DEF IPCObjectList, Handling, Control
  <2>2. table' = table \/ \E n \in Objects : table' = Add(n, table)
    BY <1>9, <2>1 DEF IPCObjectList
  <2>3. \A m \in Servers : Count(m, table') = Count(m, table)
    BY <1>7, <2>2
  <2>4. at' \in {"add", "len"}
    BY <1>9 DEF IPCObjectList
  <2> QED  BY <1>1, <1>9, <2>3, <2>4, EntryKept DEF IPCObjectList, historyVars, serverVars, connVars
<1>10. CASE RemoveIPCObject
  <2>1. GetIPCName(frame.string) \in Objects /\ table' = RemoveObject(frame.string, table)
    BY <1>0, <1>10, FrameFacts DEF RemoveIPCObject, Handling
  <2>2. \A m : Count(m, table) \in Nat
    BY <1>0, CountType
  <2>3. \A m : Count(m, table') =
          Count(m, table) - (IF m = GetIPCName(frame.string) /\ Count(m, table) # 0 THEN 1 ELSE 0)
    BY <1>0, <2>1, ObjectRemoved
  <2>4. \A m \in Servers : m # GetIPCName(frame.string)
    BY <1>0, <2>1
  <2>5. \A m \in Servers : Count(m, table') = Count(m, table)
    BY <2>2, <2>3, <2>4
  <2> QED  BY <1>1, <1>10, <2>5, EntryKept DEF RemoveIPCObject, historyVars, serverVars, connVars
<1>11. CASE ServerStep
  <2>1. said \subseteq said'
    BY <1>11 DEF ServerStep, ServerAnswersLogin, ServerNamed, ServerNoise, ServerChanges,
                 ServerSpeaks, ServerSays, serverVars
  <2> QED  BY <1>1, <1>11, <2>1, EntryKept
           DEF ServerStep, threadVars, connVars, moduleVars, historyVars
<1>12. CASE Lose \/ Speak \/ UNCHANGED vars
  BY <1>1, <1>12, EntryKept
     DEF Lose, Speak, vars, serverVars, threadVars, connVars, moduleVars, historyVars
<1>13. CASE OnStart \/ ReadLen \/ ReadBody \/ NoMemory \/ HandlePlain \/ Discard \/ LoginFailure
  <2>1. /\ UNCHANGED <<said, connection, id, connected, table, left>>
        /\ at' \in {"len", "body", "handle", "end"}
    BY <1>13 DEF OnStart, ReadLen, ReadBody, NoMemory, HandlePlain, Discard, LoginFailure, serverVars,
                 connVars, moduleVars, historyVars
  <2> QED  BY <1>1, <2>1, EntryKept
<1>14. CASE ModuleStated \/ OnConnected \/ ModuleState \/ IPCMessage
  BY <1>1, <1>14, EntryKept
     DEF ModuleStated, OnConnected, ModuleState, IPCMessage, serverVars, connVars, moduleVars,
         historyVars
<1> QED  BY <1>2, <1>3, <1>4, <1>5, <1>6, <1>8, <1>9, <1>10, <1>11, <1>12, <1>13, <1>14
         DEF Next, ThreadStep

----------------------------------------------------------------------------
(***************************************************************************)
(* Order: messages keep the order of their numbers.                        *)
(***************************************************************************)
LEMMA OrderSame ==
  ASSUME TypeOK, Order, UNCHANGED <<since, spoken, heard, delivered, said>>,
         pipe' \in {pipe, <<>>},
         at' = "handle" => at = "handle" /\ frame' = frame,
         connected' = connected \/ at' # "handle" \/ connected' = FALSE,
         open' = open \/ open' = FALSE
  PROVE  Order'
<1>1. CASE pipe' = pipe
  <2>1. \A k : NameBehind(k)' <=> NameBehind(k)
    BY <1>1 DEF NameBehind
  <2> QED  BY <1>1, <2>1 DEF Order, Handling, IsMessage
<1>2. CASE pipe' = <<>>
  <2>1. DOMAIN pipe' = {} /\ \A k : ~NameBehind(k)'
    BY <1>2 DEF NameBehind
  <2>2. Handling("message")' => Handling("message") /\ frame' = frame
    BY DEF Handling
  <2>3. Handling("message")' /\ open' /\ frame'.number \in heard' => "name" \in said'
    BY <2>2, <1>2 DEF Order, TypeOK
  <2>4. Handling("message")' /\ connected' => frame'.number \in heard'
    BY <2>2, <1>2 DEF Order, Handling
  <2> QED  BY <2>1, <2>2, <2>3, <2>4 DEF Order
<1> QED  BY <1>1, <1>2

LEMMA OrderRead ==
  ASSUME TypeOK, Order, Entry, Reads, UNCHANGED <<since, spoken, heard, delivered, connected>>
  PROVE  Order'
<1>1. /\ Len(pipe) \in Nat /\ 1 \in DOMAIN pipe /\ frame' = pipe[1]
      /\ DOMAIN pipe = 1 .. Len(pipe) /\ DOMAIN pipe' = 1 .. Len(pipe) - 1
      /\ \A k \in DOMAIN pipe' : k + 1 \in DOMAIN pipe /\ pipe'[k] = pipe[k + 1]
      /\ \A k \in DOMAIN pipe : k # 1 => k - 1 \in DOMAIN pipe' /\ pipe[k] = pipe'[k - 1]
  BY Shifted
<1>2. \A k \in 0 .. Len(pipe) : NameBehind(k)' <=> NameBehind(k + 1)
  <2> SUFFICES ASSUME NEW k \in 0 .. Len(pipe) PROVE NameBehind(k)' <=> NameBehind(k + 1)
    OBVIOUS
  <2>1. ASSUME NEW j \in DOMAIN pipe', j > k, pipe'[j].kind = "name" PROVE NameBehind(k + 1)
    <3>1. j + 1 \in DOMAIN pipe /\ j + 1 > k + 1 /\ pipe[j + 1].kind = "name"
      BY <1>1, <2>1
    <3> QED  BY <3>1 DEF NameBehind
  <2>2. ASSUME NEW j \in DOMAIN pipe, j > k + 1, pipe[j].kind = "name" PROVE NameBehind(k)'
    <3>1. j - 1 \in DOMAIN pipe' /\ j - 1 > k /\ pipe'[j - 1].kind = "name"
      BY <1>1, <2>2
    <3> QED  BY <3>1 DEF NameBehind
  <2> QED  BY <2>1, <2>2 DEF NameBehind
<1>3. said' = said /\ at' = "handle"
  BY DEF Reads
<1>4. ASSUME NEW k \in DOMAIN pipe', IsMessage(pipe'[k])
      PROVE  /\ pipe'[k].number \in since + 1 .. spoken
             /\ \A j \in DOMAIN delivered : delivered[j] < pipe'[k].number
             /\ \A j \in DOMAIN pipe' :
                  j < k /\ IsMessage(pipe'[j]) => pipe'[j].number < pipe'[k].number
             /\ pipe'[k].number \in heard <=> "name" \in said /\ ~NameBehind(k)'
  <2>1. k + 1 \in DOMAIN pipe /\ pipe'[k] = pipe[k + 1] /\ IsMessage(pipe[k + 1]) /\ k \in 0 .. Len(pipe)
    BY <1>1, <1>4
  <2>2. /\ pipe[k + 1].number \in since + 1 .. spoken
        /\ \A j \in DOMAIN delivered : delivered[j] < pipe[k + 1].number
        /\ \A j \in DOMAIN pipe : j < k + 1 /\ IsMessage(pipe[j]) => pipe[j].number < pipe[k + 1].number
        /\ pipe[k + 1].number \in heard <=> "name" \in said /\ ~NameBehind(k + 1)
    BY <2>1 DEF Order
  <2>3. \A j \in DOMAIN pipe' : j < k => j + 1 \in DOMAIN pipe /\ j + 1 < k + 1 /\ pipe'[j] = pipe[j + 1]
    BY <1>1
  <2> QED  BY <1>2, <2>1, <2>2, <2>3
<1>5. ASSUME IsMessage(frame')
      PROVE  /\ frame'.number \in since + 1 .. spoken
             /\ \A j \in DOMAIN delivered : delivered[j] < frame'.number
             /\ \A k \in DOMAIN pipe' : IsMessage(pipe'[k]) => frame'.number < pipe'[k].number
             /\ connected => frame'.number \in heard
             /\ frame'.number \in heard => "name" \in said /\ ~NameBehind(0)'
  <2>1. /\ pipe[1].number \in since + 1 .. spoken
        /\ \A j \in DOMAIN delivered : delivered[j] < pipe[1].number
        /\ pipe[1].number \in heard <=> "name" \in said /\ ~NameBehind(1)
    BY <1>1, <1>5 DEF Order
  <2>2. \A k \in DOMAIN pipe' : IsMessage(pipe'[k]) => pipe[1].number < pipe'[k].number
    <3> SUFFICES ASSUME NEW k \in DOMAIN pipe', IsMessage(pipe'[k])
                 PROVE  pipe[1].number < pipe'[k].number
      OBVIOUS
    <3>1. k + 1 \in DOMAIN pipe /\ pipe'[k] = pipe[k + 1] /\ 1 < k + 1
      BY <1>1
    <3> QED  BY <1>1, <1>5, <3>1 DEF Order
  <2>3. connected => "name" \in said /\ ~NameBehind(1)
    BY DEF Entry, Arriving, NameBehind
  <2>4. NameBehind(0)' <=> NameBehind(1)
    BY <1>1, <1>2
  <2> QED  BY <1>1, <2>1, <2>2, <2>3, <2>4
<1>6. Handling("message")' => IsMessage(frame')
  BY DEF Handling, IsMessage
<1> QED  BY <1>3, <1>4, <1>5, <1>6 DEF Order

\* A frame that is not a message; the name comes last.
LEMMA OrderSent ==
  ASSUME TypeOK, Order, NEW f \in Frames, Sending(f), f.kind # "message",
         UNCHANGED <<since, spoken, heard, delivered, connected, open>>
  PROVE  Order'
<1>1. /\ Len(pipe) \in Nat /\ DOMAIN pipe = 1 .. Len(pipe)
      /\ DOMAIN pipe' = 1 .. Len(pipe) + 1 /\ pipe'[Len(pipe) + 1] = f
      /\ \A k \in DOMAIN pipe : pipe'[k] = pipe[k]
  BY Extended DEF Sending
<1>2. at' = at /\ frame' = frame
  BY DEF Sending
<1>3. \A k \in DOMAIN pipe' : IsMessage(pipe'[k]) => k \in DOMAIN pipe
  BY <1>1 DEF IsMessage
<1>4. ASSUME NEW k \in {0} \cup DOMAIN pipe
      PROVE  ("name" \in said' /\ ~NameBehind(k)') <=> ("name" \in said /\ ~NameBehind(k))
  <2>1. CASE f.kind = "name"
    <3>1. "name" \notin said
      BY <2>1 DEF Sending, Answered
    <3>2. Len(pipe) + 1 \in DOMAIN pipe' /\ Len(pipe) + 1 > k
      BY <1>1
    <3>3. NameBehind(k)'
      BY <1>1, <2>1, <3>2 DEF NameBehind
    <3> QED  BY <3>1, <3>3
  <2>2. CASE f.kind # "name"
    <3>1. "name" \in said' <=> "name" \in said
      BY <2>2 DEF Sending
    <3>2. NameBehind(k)' <=> NameBehind(k)
      BY <1>1, <2>2 DEF NameBehind
    <3> QED  BY <3>1, <3>2
  <2> QED  BY <2>1, <2>2
<1>5. ASSUME NEW k \in DOMAIN pipe', IsMessage(pipe'[k])
      PROVE  /\ pipe'[k].number \in since + 1 .. spoken
             /\ \A j \in DOMAIN delivered : delivered[j] < pipe'[k].number
             /\ \A j \in DOMAIN pipe' :
                  j < k /\ IsMessage(pipe'[j]) => pipe'[j].number < pipe'[k].number
             /\ pipe'[k].number \in heard <=> "name" \in said' /\ ~NameBehind(k)'
  <2>1. k \in DOMAIN pipe /\ pipe'[k] = pipe[k] /\ IsMessage(pipe[k])
    BY <1>1, <1>3, <1>5
  <2>2. \A j \in DOMAIN pipe' : IsMessage(pipe'[j]) => j \in DOMAIN pipe /\ pipe'[j] = pipe[j]
    BY <1>1, <1>3
  <2> QED  BY <1>4, <2>1, <2>2 DEF Order
<1>6. Handling("message")' <=> Handling("message")
  BY <1>2 DEF Handling
<1>7. Handling("message") =>
        /\ \A k \in DOMAIN pipe' : IsMessage(pipe'[k]) => frame.number < pipe'[k].number
        /\ open /\ frame.number \in heard => "name" \in said' /\ ~NameBehind(0)'
  BY <1>1, <1>3, <1>4 DEF Order
<1> QED  BY <1>2, <1>5, <1>6, <1>7 DEF Order

\* The server's next message has the next number.
LEMMA OrderSpoken ==
  ASSUME TypeOK, Order, NEW f \in Frames, Sending(f), f.kind = "message", f.number = spoken',
         ServerSpeaks, UNCHANGED <<since, delivered, connected, open>>
  PROVE  Order'
<1>1. /\ Len(pipe) \in Nat /\ DOMAIN pipe = 1 .. Len(pipe)
      /\ DOMAIN pipe' = 1 .. Len(pipe) + 1 /\ pipe'[Len(pipe) + 1] = f
      /\ \A k \in DOMAIN pipe : pipe'[k] = pipe[k]
  BY Extended DEF Sending
<1>2. /\ at' = at /\ frame' = frame /\ said' = said
      /\ spoken' = spoken + 1 /\ heard' = IF "name" \in said THEN heard \cup {spoken'} ELSE heard
  BY DEF Sending, ServerSpeaks
<1>3. spoken \in Nat /\ since \in Nat /\ delivered \in Seq(Nat)
  BY SizeFacts DEF TypeOK
<1>4. \A k \in DOMAIN pipe : NameBehind(k)' <=> NameBehind(k)
  BY <1>1 DEF NameBehind
<1>5. NameBehind(0)' <=> NameBehind(0)
  BY <1>1 DEF NameBehind
<1>6. \A m \in Nat : m <= spoken => (m \in heard' <=> m \in heard)
  BY <1>2, <1>3
<1>7. \A k \in DOMAIN pipe : IsMessage(pipe[k]) => pipe[k].number \in Nat /\ pipe[k].number <= spoken
  BY <1>3 DEF Order
<1>8. /\ since <= spoken' /\ heard' \subseteq 1 .. spoken'
      /\ \A j \in DOMAIN delivered : delivered[j] <= spoken' /\ delivered[j] < spoken' /\ delivered[j] \in heard'
  <2>1. since <= spoken /\ heard \subseteq 1 .. spoken
    BY DEF Order
  <2>2. \A j \in DOMAIN delivered : delivered[j] \in Nat /\ delivered[j] <= spoken /\ delivered[j] \in heard
    BY <1>3 DEF Order
  <2>3. spoken' \in 1 .. spoken' /\ 1 .. spoken \subseteq 1 .. spoken'
    BY <1>2, <1>3
  <2>4. since <= spoken' /\ heard' \subseteq 1 .. spoken'
    BY <1>2, <1>3, <2>1, <2>3
  <2> QED  BY <1>2, <1>3, <1>6, <2>2, <2>4
<1>9. ASSUME NEW k \in DOMAIN pipe', IsMessage(pipe'[k])
      PROVE  /\ pipe'[k].number \in since + 1 .. spoken'
             /\ \A j \in DOMAIN delivered : delivered[j] < pipe'[k].number
             /\ \A j \in DOMAIN pipe' :
                  j < k /\ IsMessage(pipe'[j]) => pipe'[j].number < pipe'[k].number
             /\ pipe'[k].number \in heard' <=> "name" \in said /\ ~NameBehind(k)'
  <2>1. CASE k \in DOMAIN pipe
    <3>1. pipe'[k] = pipe[k] /\ IsMessage(pipe[k])
      BY <1>1, <1>9, <2>1
    <3>2. /\ pipe[k].number \in since + 1 .. spoken
          /\ \A j \in DOMAIN delivered : delivered[j] < pipe[k].number
          /\ \A j \in DOMAIN pipe : j < k /\ IsMessage(pipe[j]) => pipe[j].number < pipe[k].number
          /\ pipe[k].number \in heard <=> "name" \in said /\ ~NameBehind(k)
      BY <2>1, <3>1 DEF Order
    <3>3. \A j \in DOMAIN pipe' : j < k => j \in DOMAIN pipe /\ pipe'[j] = pipe[j]
      BY <1>1, <2>1
    <3>4. pipe[k].number \in since + 1 .. spoken'
      BY <1>2, <1>3, <3>2
    <3>5. pipe[k].number \in heard' <=> pipe[k].number \in heard
      BY <1>6, <1>7, <2>1, <3>1
    <3> QED  BY <1>4, <2>1, <3>1, <3>2, <3>3, <3>4, <3>5
  <2>2. CASE k = Len(pipe) + 1
    <3>1. pipe'[k].number = spoken'
      BY <1>1, <2>2
    <3>2. spoken' \in since + 1 .. spoken'
      BY <1>2, <1>3 DEF Order
    <3>3. \A j \in DOMAIN pipe' : j < k => j \in DOMAIN pipe /\ pipe'[j] = pipe[j]
      BY <1>1, <2>2
    <3>4. \A j \in DOMAIN pipe : IsMessage(pipe[j]) => pipe[j].number < spoken'
      BY <1>2, <1>3, <1>7
    <3>5. spoken' \in heard' <=> "name" \in said
      <4>1. spoken' \notin 1 .. spoken
        BY <1>2, <1>3
      <4> QED  BY <1>2, <4>1 DEF Order
    <3>6. ~NameBehind(k)'
      BY <1>1, <2>2 DEF NameBehind
    <3>7. \A j \in DOMAIN pipe' :
            j < k /\ IsMessage(pipe'[j]) => pipe'[j].number < pipe'[k].number
      BY <3>1, <3>3, <3>4
    <3> QED  BY <1>8, <3>1, <3>2, <3>5, <3>6, <3>7
  <2> QED  BY <1>1, <2>1, <2>2
<1>10. Handling("message")' <=> Handling("message")
  BY <1>2 DEF Handling
<1>11. ASSUME Handling("message")
       PROVE  /\ frame.number \in since + 1 .. spoken'
              /\ \A j \in DOMAIN delivered : delivered[j] < frame.number
              /\ \A k \in DOMAIN pipe' : IsMessage(pipe'[k]) => frame.number < pipe'[k].number
              /\ connected => frame.number \in heard'
              /\ open /\ frame.number \in heard' => "name" \in said /\ ~NameBehind(0)'
  <2>1. /\ frame.number \in since + 1 .. spoken
        /\ \A j \in DOMAIN delivered : delivered[j] < frame.number
        /\ \A k \in DOMAIN pipe : IsMessage(pipe[k]) => frame.number < pipe[k].number
        /\ connected => frame.number \in heard
        /\ open /\ frame.number \in heard => "name" \in said /\ ~NameBehind(0)
    BY <1>11 DEF Order
  <2>2. /\ frame.number \in since + 1 .. spoken' /\ frame.number < spoken'
        /\ frame.number \in heard' <=> frame.number \in heard
    <3>1. frame.number \in Nat /\ frame.number <= spoken
      BY <1>3, <2>1
    <3> QED  BY <1>2, <1>3, <1>6, <2>1, <3>1
  <2>3. \A k \in DOMAIN pipe' : IsMessage(pipe'[k]) => frame.number < pipe'[k].number
    <3> SUFFICES ASSUME NEW k \in DOMAIN pipe', IsMessage(pipe'[k])
                 PROVE  frame.number < pipe'[k].number
      OBVIOUS
    <3>1. CASE k \in DOMAIN pipe
      BY <1>1, <2>1, <3>1
    <3>2. CASE k = Len(pipe) + 1
      BY <1>1, <2>2, <3>2
    <3> QED  BY <1>1, <3>1, <3>2
  <2> QED  BY <1>5, <2>1, <2>2, <2>3
<1>12. \A j, k \in DOMAIN delivered : j < k => delivered[j] < delivered[k]
  BY DEF Order
<1> QED  BY <1>2, <1>8, <1>9, <1>10, <1>11, <1>12 DEF Order

LEMMA OrderNext ==
  ASSUME TypeOK, Control, Entry, Order, [Next]_vars
  PROVE  Order'
<1> USE DEF ReadOn
<1>1. CASE Connect
  <2>1. /\ since' = spoken /\ pipe' = <<>> /\ at' = "start"
        /\ UNCHANGED <<spoken, heard, delivered>> /\ DOMAIN pipe' = {}
    BY <1>1 DEF Connect, moduleVars
  <2>2. spoken \in Nat
    BY SizeFacts DEF TypeOK
  <2> QED  BY <2>1, <2>2 DEF Order, Handling
<1>2. CASE IPCMessage
  <2>1. /\ Handling("message") /\ at' = "len"
        /\ UNCHANGED <<since, spoken, heard, said, pipe, connected>>
        /\ delivered' = IF connected THEN Append(delivered, frame.number) ELSE delivered
    BY <1>2 DEF IPCMessage, Deliver, serverVars, connVars, historyVars
  <2>2. CASE ~connected
    BY <2>1, <2>2 DEF Order, Handling, NameBehind
  <2>3. CASE connected
    <3>1. /\ delivered \in Seq(Nat) /\ frame.number \in Nat /\ spoken \in Nat
          /\ delivered' = Append(delivered, frame.number)
      <4>1. frame \in Frames /\ delivered \in Seq(1 .. MESSAGES) /\ spoken \in 0 .. MESSAGES
        BY DEF TypeOK
      <4> QED  BY <2>1, <2>3, <4>1, SizeFacts, FrameFacts DEF Handling
    <3>2. /\ Len(delivered) \in Nat /\ DOMAIN delivered = 1 .. Len(delivered)
          /\ DOMAIN delivered' = 1 .. Len(delivered) + 1
          /\ delivered'[Len(delivered) + 1] = frame.number
          /\ \A j \in DOMAIN delivered : delivered'[j] = delivered[j] /\ delivered[j] \in Nat
      BY <3>1
    <3>3. /\ frame.number \in since + 1 .. spoken /\ frame.number \in heard
          /\ \A j \in DOMAIN delivered : delivered[j] < frame.number
          /\ \A k \in DOMAIN pipe : IsMessage(pipe[k]) => frame.number < pipe[k].number
      BY <2>1, <2>3 DEF Order
    <3>4. \A j \in DOMAIN delivered' : j \in DOMAIN delivered \/ j = Len(delivered) + 1
      BY <3>2
    <3>5. \A j, k \in DOMAIN delivered' : j < k => delivered'[j] < delivered'[k]
      <4> SUFFICES ASSUME NEW j \in DOMAIN delivered', NEW k \in DOMAIN delivered', j < k
                   PROVE  delivered'[j] < delivered'[k]
        OBVIOUS
      <4>1. j \in DOMAIN delivered
        BY <3>2
      <4>2. CASE k \in DOMAIN delivered
        BY <3>2, <4>1, <4>2 DEF Order
      <4>3. CASE k = Len(delivered) + 1
        BY <3>2, <3>3, <4>1, <4>3
      <4> QED  BY <3>4, <4>2, <4>3
    <3>6. \A j \in DOMAIN delivered' : delivered'[j] <= spoken /\ delivered'[j] \in heard
      <4>1. \A j \in DOMAIN delivered : delivered[j] <= spoken /\ delivered[j] \in heard
        BY DEF Order
      <4>2. frame.number <= spoken
        BY <3>1, <3>3
      <4> QED  BY <3>2, <3>3, <3>4, <4>1, <4>2
    <3>7. \A k \in DOMAIN pipe : IsMessage(pipe[k]) =>
            \A j \in DOMAIN delivered' : delivered'[j] < pipe[k].number
      <4>1. \A k \in DOMAIN pipe : IsMessage(pipe[k]) =>
              \A j \in DOMAIN delivered : delivered[j] < pipe[k].number
        BY DEF Order
      <4> QED  BY <3>2, <3>3, <3>4, <4>1
    <3>8. ~Handling("message")' /\ \A k : NameBehind(k)' <=> NameBehind(k)
      BY <2>1 DEF Handling, NameBehind
    <3> QED  BY <2>1, <3>5, <3>6, <3>7, <3>8 DEF Order
  <2> QED  BY <2>2, <2>3
<1>3. CASE ServerStep
  <2>1. UNCHANGED <<since, delivered, connected, open, at, frame>>
    BY <1>3 DEF ServerStep, threadVars, connVars, moduleVars, historyVars
  <2>2. CASE ServerChanges /\ UNCHANGED pipe
    <3>1. UNCHANGED <<said, spoken, heard>>
      BY <2>2 DEF ServerChanges
    <3> QED  BY <2>1, <2>2, <3>1, OrderSame
  <2>3. CASE \E f \in Frames : Sending(f) /\ Tells(f)
    <3>1. PICK f \in Frames : Sending(f) /\ Tells(f)
      BY <2>3
    <3>2. CASE f.kind = "message"
      <4>1. f.number = spoken' /\ ServerSpeaks
        BY <3>1, <3>2 DEF Tells
      <4> QED  BY <2>1, <3>1, <3>2, <4>1, OrderSpoken
    <3>3. CASE f.kind # "message"
      <4>1. UNCHANGED <<spoken, heard>>
        BY <3>1, <3>3 DEF Tells
      <4> QED  BY <2>1, <3>1, <3>3, <4>1, OrderSent
    <3> QED  BY <3>2, <3>3
  <2> QED  BY <1>3, <2>2, <2>3, ServerSends
<1>4. CASE ReadBody
  <2>1. UNCHANGED <<since, spoken, heard, delivered, connected>>
    BY <1>4 DEF ReadBody, serverVars, connVars, moduleVars, historyVars
  <2>2. CASE Reads
    BY <2>1, <2>2, OrderRead
  <2>3. CASE ~Reads
    <3>1. at' = "end" /\ UNCHANGED <<pipe, said, open>>
      BY <1>4, <2>3 DEF ReadBody, Reads, serverVars
    <3> QED  BY <2>1, <3>1, OrderSame
  <2> QED  BY <2>2, <2>3
<1>5. CASE Lose \/ CheckerExpires \/ Notice \/ Disconnect \/ LoginFailure
  <2>1. UNCHANGED <<since, spoken, heard, delivered, said>> /\ pipe' = <<>> /\ open' = FALSE
    BY <1>5 DEF Lose, CheckerExpires, Notice, Disconnect, LoginFailure, serverVars, moduleVars, historyVars
  <2>2. /\ at' = "handle" => at = "handle" /\ frame' = frame
        /\ connected' = connected \/ connected' = FALSE
    BY <1>5 DEF Lose, CheckerExpires, Notice, Disconnect, LoginFailure, threadVars, connVars, OnStop
  <2> QED  BY <2>1, <2>2, OrderSame
<1>6. CASE Speak \/ UNCHANGED vars
  BY <1>6, OrderSame DEF Speak, vars, serverVars, threadVars, connVars, moduleVars, historyVars
<1>7. CASE OnStart \/ ReadLen \/ NoMemory \/ HandlePlain \/ LoginSuccess \/ ModuleName \/ ModuleStated
  <2>1. UNCHANGED <<since, spoken, heard, delivered, said, pipe, open>> /\ at' # "handle"
    BY <1>7 DEF OnStart, ReadLen, NoMemory, HandlePlain, LoginSuccess, ModuleName, ModuleStated,
                serverVars, moduleVars, historyVars
  <2> QED  BY <2>1, OrderSame
\* A discarded message came before those that are still on their way.
<1>9. CASE Discard
  <2>1. UNCHANGED <<since, spoken, delivered, said, pipe>> /\ at' = "len" /\ at = "handle"
    BY <1>9 DEF Discard, moduleVars
  <2>2. CASE ~Handling("message")
    <3>1. heard' = heard /\ UNCHANGED <<open, connected>>
      BY <1>9, <2>2 DEF Discard, connVars
    <3> QED  BY <2>1, <3>1, OrderSame
  <2>3. CASE Handling("message")
    <3>1. heard' = heard \ {frame.number}
      BY <1>9, <2>3 DEF Discard
    <3>2. /\ since \in Nat /\ spoken \in Nat /\ delivered \in Seq(Nat)
          /\ frame.number \in Nat
      <4>1. frame \in Frames /\ delivered \in Seq(1 .. MESSAGES) /\ spoken \in 0 .. MESSAGES
            /\ since \in 0 .. MESSAGES
        BY DEF TypeOK
      <4> QED  BY <2>3, <4>1, SizeFacts, FrameFacts DEF Handling
    <3>3. /\ \A j \in DOMAIN delivered : delivered[j] < frame.number
          /\ \A k \in DOMAIN pipe : IsMessage(pipe[k]) => frame.number < pipe[k].number
      BY <2>3 DEF Order
    <3>4. \A j \in DOMAIN delivered : delivered[j] <= spoken /\ delivered[j] \in heard'
      <4>1. \A j \in DOMAIN delivered : delivered[j] \in Nat /\ delivered[j] # frame.number
        BY <3>2, <3>3
      <4> QED  BY <3>1, <4>1 DEF Order
    <3>5. \A k \in DOMAIN pipe : IsMessage(pipe[k]) =>
            (pipe[k].number \in heard' <=> pipe[k].number \in heard)
      <4>1. \A k \in DOMAIN pipe : IsMessage(pipe[k]) => pipe[k].number # frame.number
        BY <3>2, <3>3
      <4> QED  BY <3>1, <4>1
    <3>6. \A k : NameBehind(k)' <=> NameBehind(k)
      BY <2>1 DEF NameBehind
    <3>7. ~Handling("message")' /\ heard' \subseteq 1 .. spoken
      BY <2>1, <3>1 DEF Handling, Order
    <3> QED  BY <2>1, <3>4, <3>5, <3>6, <3>7 DEF Order
  <2> QED  BY <2>2, <2>3
<1>8. CASE OnConnected \/ ModuleState \/ AddIPCObject \/ IPCObjectList \/ RemoveIPCObject \/ End
  <2>1. UNCHANGED <<since, spoken, heard, delivered, said, pipe, open>> /\ at' # "handle"
    BY <1>8 DEF OnConnected, ModuleState, AddIPCObject, IPCObjectList, RemoveIPCObject, End,
                serverVars, moduleVars, historyVars
  <2> QED  BY <2>1, OrderSame
<1> QED  BY <1>1, <1>2, <1>3, <1>4, <1>5, <1>6, <1>7, <1>8, <1>9 DEF Next, ThreadStep

----------------------------------------------------------------------------
(***************************************************************************)
(* Welcomed: a client that is named listens before the next frame is       *)
(* handled, and so no message after the name is lost but a discarded one.  *)
(***************************************************************************)
\* The thread goes on, unless it has a name or a message to handle.
LEMMA WelcomedKept ==
  ASSUME Welcomed, UNCHANGED <<heard, since, delivered, pipe, said, open>>,
         at' = "handle" => at = "handle" /\ frame' = frame,
         at = "handle" /\ at' # "handle" => frame.kind # "message",
         Greets' => Greets
  PROVE  Welcomed'
<1>1. \A m : Reaches(m) => Reaches(m)'
  BY DEF Reaches, Handling
<1> QED  BY <1>1 DEF Welcomed

LEMMA WelcomedRead ==
  ASSUME TypeOK, Arrivals, Welcomed, Reads, UNCHANGED <<heard, since, delivered, open, connected>>
  PROVE  Welcomed'
<1>1. /\ Len(pipe) \in Nat /\ 1 \in DOMAIN pipe /\ frame' = pipe[1]
      /\ DOMAIN pipe = 1 .. Len(pipe) /\ DOMAIN pipe' = 1 .. Len(pipe) - 1
      /\ \A k \in DOMAIN pipe' : k + 1 \in DOMAIN pipe /\ pipe'[k] = pipe[k + 1]
      /\ \A k \in DOMAIN pipe : k # 1 => k - 1 \in DOMAIN pipe' /\ pipe[k] = pipe'[k - 1]
  BY Shifted
<1>2. at = "body" /\ at' = "handle" /\ said' = said
  BY DEF Reads
<1>3. Arriving({"name"})' <=> Arriving({"name"})
  BY OnceRead DEF Arrivals
<1>4. ASSUME NEW m, Reaches(m)
      PROVE  Reaches(m)'
  <2>1. CASE m \in ToSet(delivered)
    BY <2>1 DEF Reaches
  <2>2. CASE \E k \in DOMAIN pipe : IsMessage(pipe[k]) /\ pipe[k].number = m
    <3>1. PICK k \in DOMAIN pipe : IsMessage(pipe[k]) /\ pipe[k].number = m
      BY <2>2
    <3>2. CASE k = 1
      BY <1>1, <1>2, <3>1, <3>2 DEF Reaches, Handling, IsMessage
    <3>3. CASE k # 1
      <4>1. k - 1 \in DOMAIN pipe' /\ pipe[k] = pipe'[k - 1]
        BY <1>1, <3>3
      <4>2. \E j \in DOMAIN pipe' : IsMessage(pipe'[j]) /\ pipe'[j].number = m
        BY <3>1, <4>1
      <4> QED  BY <4>2 DEF Reaches
    <3> QED  BY <3>2, <3>3
  <2> QED  BY <1>2, <1>4, <2>1, <2>2 DEF Reaches, Handling
<1>5. Greets' => Greets
  BY <1>2, <1>3 DEF Greets
<1> QED  BY <1>4, <1>5 DEF Welcomed

LEMMA WelcomedSent ==
  ASSUME TypeOK, Order, Welcomed, NEW f \in Frames, Sending(f), Tells(f),
         UNCHANGED <<since, delivered, open, connected>>
  PROVE  Welcomed'
<1>1. /\ Len(pipe) \in Nat /\ DOMAIN pipe = 1 .. Len(pipe)
      /\ DOMAIN pipe' = 1 .. Len(pipe) + 1 /\ pipe'[Len(pipe) + 1] = f
      /\ \A k \in DOMAIN pipe : pipe'[k] = pipe[k]
  BY Extended DEF Sending
<1>2. at' = at /\ frame' = frame
  BY DEF Sending
<1>3. Arriving({"name"})' => Arriving({"name"}) \/ f.kind = "name"
  <2>1. \A k \in DOMAIN pipe' : k \in DOMAIN pipe \/ k = Len(pipe) + 1
    BY <1>1
  <2> QED  BY <1>1, <1>2, <2>1 DEF Arriving
<1>4. Greets' => Greets
  <2>1. f.kind = "name" => "name" \notin said
    BY DEF Sending, Answered
  <2>2. f.kind # "name" => ("name" \in said' <=> "name" \in said)
    BY DEF Sending
  <2> QED  BY <1>2, <1>3, <2>1, <2>2 DEF Greets
<1>5. ASSUME NEW m, Reaches(m)
      PROVE  Reaches(m)'
  <2>1. (\E k \in DOMAIN pipe : IsMessage(pipe[k]) /\ pipe[k].number = m) =>
          \E k \in DOMAIN pipe' : IsMessage(pipe'[k]) /\ pipe'[k].number = m
    BY <1>1
  <2> QED  BY <1>2, <1>5, <2>1 DEF Reaches, Handling
<1>6. ASSUME NEW m \in heard', m \notin heard
      PROVE  Reaches(m)'
  <2>1. f.kind = "message" /\ f.number = spoken' /\ ServerSpeaks
    BY <1>6 DEF Tells
  <2>2. m = spoken'
    BY <1>6, <2>1 DEF ServerSpeaks
  <2>3. Len(pipe) + 1 \in DOMAIN pipe' /\ IsMessage(pipe'[Len(pipe) + 1])
        /\ pipe'[Len(pipe) + 1].number = m
    BY <1>1, <2>1, <2>2 DEF IsMessage
  <2>4. \E k \in DOMAIN pipe' : IsMessage(pipe'[k]) /\ pipe'[k].number = m
    BY <2>3
  <2> QED  BY <2>4 DEF Reaches
<1> QED  BY <1>4, <1>5, <1>6 DEF Welcomed

LEMMA WelcomedNext ==
  ASSUME TypeOK, Control, Arrivals, Entry, Order, Welcomed, [Next]_vars
  PROVE  Welcomed'
<1> USE DEF ReadOn
<1>1. CASE open' = FALSE
  BY <1>1 DEF Welcomed
<1>2. CASE Connect
  <2>1. said' = {} /\ since' = spoken /\ heard' = heard
    BY <1>2 DEF Connect
  <2>2. \A m \in heard : ~ (m > spoken)
    <3>1. heard \subseteq 1 .. spoken /\ spoken \in Nat
      BY SizeFacts DEF Order, TypeOK
    <3> QED  BY <3>1
  <2> QED  BY <2>1, <2>2 DEF Welcomed
<1>3. CASE ServerStep
  <2>1. UNCHANGED <<since, delivered, connected, open, at, frame>>
    BY <1>3 DEF ServerStep, threadVars, connVars, moduleVars, historyVars
  <2>2. CASE ServerChanges /\ UNCHANGED pipe
    <3>1. UNCHANGED <<said, heard>>
      BY <2>2 DEF ServerChanges
    <3> QED  BY <2>1, <2>2, <3>1, WelcomedKept DEF Greets, Arriving
  <2>3. CASE \E f \in Frames : Sending(f) /\ Tells(f)
    BY <2>1, <2>3, WelcomedSent
  <2> QED  BY <1>3, <2>2, <2>3, ServerSends
<1>4. CASE ReadBody
  <2>1. UNCHANGED <<since, heard, delivered, connected, open>>
    BY <1>4 DEF ReadBody, serverVars, connVars, moduleVars, historyVars
  <2>2. CASE Reads
    BY <2>1, <2>2, WelcomedRead
  <2>3. CASE ~Reads
    <3>1. at = "body" /\ at' = "end" /\ UNCHANGED <<pipe, said>>
      BY <1>4, <2>3 DEF ReadBody, Reads, serverVars
    <3> QED  BY <2>1, <3>1, WelcomedKept DEF Greets, Arriving
  <2> QED  BY <2>2, <2>3
<1>5. CASE IPCMessage
  <2>1. /\ at = "handle" /\ frame.kind = "message" /\ at' = "len"
        /\ UNCHANGED <<since, heard, said, pipe, connected, open>>
        /\ delivered' = IF connected THEN Append(delivered, frame.number) ELSE delivered
    BY <1>5 DEF IPCMessage, Handling, Deliver, serverVars, connVars, historyVars
  <2>2. delivered \in Seq(Nat) /\ frame.number \in Nat
    <3>1. frame \in Frames /\ delivered \in Seq(1 .. MESSAGES)
      BY DEF TypeOK
    <3> QED  BY <2>1, <3>1, SizeFacts, FrameFacts
  <2>3. connected => ToSet(delivered') = ToSet(delivered) \cup {frame.number}
    <3>1. \A x \in Nat : ToSet(Append(delivered, x)) = ToSet(delivered) \cup {x}
      <4> TAKE x \in Nat
      <4> DEFINE t == Append(delivered, x)
      <4>1. /\ DOMAIN t = DOMAIN delivered \cup {Len(delivered) + 1} /\ t[Len(delivered) + 1] = x
            /\ \A k \in DOMAIN delivered : t[k] = delivered[k]
        BY <2>2
      <4> HIDE DEF t
      <4>2. ToSet(t) = ToSet(delivered) \cup {x}
        BY <4>1 DEF ToSet
      <4> QED  BY <4>2 DEF t
    <3> QED  BY <2>1, <2>2, <3>1
  <2>4. Arriving({"name"})' <=> Arriving({"name"})
    BY <2>1 DEF Arriving
  <2>5. Greets' => Greets
    BY <2>1, <2>4 DEF Greets
  <2>6. ASSUME open, Greets, NEW m \in heard, m > since
        PROVE  Reaches(m)'
    <3>1. Reaches(m)
      BY <2>6 DEF Welcomed
    <3>2. CASE m \in ToSet(delivered)
      <4>1. m \in ToSet(delivered')
        BY <2>1, <2>3, <3>2
      <4> QED  BY <4>1 DEF Reaches
    <3>3. CASE \E k \in DOMAIN pipe : IsMessage(pipe[k]) /\ pipe[k].number = m
      BY <2>1, <3>3 DEF Reaches
    <3>4. CASE frame.number = m
      <4>1. "name" \in said /\ ~NameBehind(0)
        BY <2>1, <2>6, <3>4 DEF Order, Handling
      <4>2. DOMAIN pipe = 1 .. Len(pipe)
        BY DEF TypeOK
      <4>3. ~Arriving({"name"})
        BY <2>1, <4>1, <4>2 DEF Arriving, NameBehind
      <4>4. connected
        BY <2>1, <2>6, <4>1, <4>3 DEF Greets
      <4>5. m \in ToSet(delivered')
        BY <2>3, <3>4, <4>4
      <4> QED  BY <4>5 DEF Reaches
    <3> QED  BY <3>1, <3>2, <3>3, <3>4 DEF Reaches
  <2> QED  BY <2>1, <2>5, <2>6 DEF Welcomed
<1>6. CASE Speak \/ UNCHANGED vars
  BY <1>6, WelcomedKept
     DEF Greets, Arriving, Speak, vars, serverVars, threadVars, connVars, moduleVars, historyVars
<1>7. CASE ModuleName
  <2>1. /\ UNCHANGED <<heard, since, delivered, pipe, said, open>>
        /\ at = "handle" /\ frame.kind = "name" /\ at' = "stated"
    BY <1>7 DEF ModuleName, Handling, serverVars, historyVars
  <2> QED  BY <2>1, WelcomedKept DEF Greets, Arriving
<1>8. CASE OnStart \/ ReadLen \/ NoMemory
  <2>1. /\ UNCHANGED <<heard, since, delivered, pipe, said, open, connected>>
        /\ at \in {"start", "len", "body"} /\ at' \in {"len", "body", "end"}
    BY <1>8 DEF OnStart, ReadLen, NoMemory, serverVars, connVars, moduleVars, historyVars
  <2> QED  BY <2>1, WelcomedKept DEF Greets, Arriving
<1>9. CASE HandlePlain \/ LoginSuccess \/ ModuleState \/ AddIPCObject \/ RemoveIPCObject
  <2>1. /\ UNCHANGED <<heard, since, delivered, pipe, said, open, connected>>
        /\ at = "handle" /\ frame.kind \notin {"name", "message"} /\ at' \in {"len", "stop"}
    BY <1>9 DEF HandlePlain, LoginSuccess, ModuleState, AddIPCObject, RemoveIPCObject, Handling,
                serverVars, connVars, moduleVars, historyVars
  <2> QED  BY <2>1, WelcomedKept DEF Greets, Arriving
<1>10. CASE IPCObjectList
  <2>1. /\ UNCHANGED <<heard, since, delivered, pipe, said, open, connected>>
        /\ at \in {"handle", "add"} /\ frame.kind = "list" /\ at' \in {"len", "add"}
    BY <1>10 DEF IPCObjectList, Handling, Control, serverVars, connVars, historyVars
  <2> QED  BY <2>1, WelcomedKept DEF Greets, Arriving
<1>11. CASE ModuleStated \/ OnConnected \/ End
  <2>1. /\ UNCHANGED <<heard, since, delivered, pipe, said, open>>
        /\ at \in {"stated", "welcome", "end"} /\ at' # "handle"
    BY <1>11 DEF ModuleStated, OnConnected, End, serverVars, moduleVars, historyVars
  <2>2. at = "end" => connected' = FALSE /\ at' = "absent"
    BY <1>11 DEF ModuleStated, OnConnected, End, OnStop
  <2>3. Greets' => Greets
    BY <2>1, <2>2 DEF Greets, Arriving
  <2> QED  BY <2>1, <2>3, WelcomedKept
<1>12. CASE Lose \/ CheckerExpires \/ Notice \/ Disconnect \/ LoginFailure
  BY <1>1, <1>12 DEF Lose, CheckerExpires, Notice, Disconnect, LoginFailure
\* Only the message that is discarded is no longer waited for.
<1>13. CASE Discard
  <2>1. /\ UNCHANGED <<since, delivered, pipe, said, open, connected>>
        /\ at = "handle" /\ at' = "len"
        /\ heard' = IF Handling("message") THEN heard \ {frame.number} ELSE heard
    BY <1>13 DEF Discard, connVars, moduleVars
  <2>2. Greets' => Greets
    BY <2>1 DEF Greets, Arriving
  <2>3. ASSUME NEW m \in heard', Reaches(m)
        PROVE  Reaches(m)'
    BY <2>1, <2>3 DEF Reaches, Handling
  <2> QED  BY <2>1, <2>2, <2>3 DEF Welcomed
<1> QED  BY <1>2, <1>3, <1>4, <1>5, <1>6, <1>7, <1>8, <1>9, <1>10, <1>11, <1>12, <1>13 DEF Next, ThreadStep

----------------------------------------------------------------------------
(***************************************************************************)
(* Levels: every change of the server's list is on its way or is counted.  *)
(***************************************************************************)
LEMMA FollowsKept ==
  ASSUME NEW n, Follows(n), pipe' = pipe, Present(n)' = Present(n),
         \A j \in {0, 1} : Owes(n, j) => Owes(n, j)',
         Len(pipe) \in Nat
  PROVE  Follows(n)'
<1>1. PICK lv \in [0 .. Len(pipe) -> {0, 1}] :
        /\ Owes(n, lv[0])
        /\ \A k \in 1 .. Len(pipe) : Level(pipe[k], n, lv[k - 1], lv[k])
        /\ lv[Len(pipe)] = Present(n)
  BY DEF Follows
<1>2. lv[0] \in {0, 1}
  BY <1>1
<1>3. \A j : lv[0] = j => (Owes(n, j)' => Owes(n, lv[0])')
  OBVIOUS
<1>4. Owes(n, lv[0])'
  BY <1>1, <1>2
<1>5. /\ lv \in [0 .. Len(pipe') -> {0, 1}]
      /\ \A k \in 1 .. Len(pipe') : Level(pipe'[k], n, lv[k - 1], lv[k])
      /\ lv[Len(pipe')] = Present(n)'
  BY <1>1
<1> QED  BY <1>4, <1>5 DEF Follows, Level

LEMMA FollowsRead ==
  ASSUME TypeOK, NEW n, Follows(n), Reads, UNCHANGED <<table, left, objects>>
  PROVE  Follows(n)'
<1>1. PICK lv \in [0 .. Len(pipe) -> {0, 1}] :
        /\ Owes(n, lv[0])
        /\ \A k \in 1 .. Len(pipe) : Level(pipe[k], n, lv[k - 1], lv[k])
        /\ lv[Len(pipe)] = Present(n)
  BY DEF Follows
<1>2. /\ Len(pipe) \in Nat /\ Len(pipe) >= 1 /\ frame' = pipe[1] /\ Len(pipe') = Len(pipe) - 1
      /\ \A k \in 1 .. Len(pipe) - 1 : pipe'[k] = pipe[k + 1]
  <2>1. /\ Len(pipe) \in Nat /\ 1 \in DOMAIN pipe /\ frame' = pipe[1]
        /\ DOMAIN pipe = 1 .. Len(pipe) /\ DOMAIN pipe' = 1 .. Len(pipe) - 1
        /\ Len(pipe') = Len(pipe) - 1 /\ \A k \in DOMAIN pipe' : pipe'[k] = pipe[k + 1]
    BY Shifted
  <2> QED  BY <2>1
<1>3. PICK up \in [0 .. Len(pipe') -> {0, 1}] :
        /\ up[0] = lv[1] /\ up[Len(pipe')] = lv[Len(pipe)]
        /\ \A k \in 1 .. Len(pipe') : up[k] = lv[k + 1] /\ up[k - 1] = lv[k]
  <2> DEFINE u == [k \in 0 .. Len(pipe') |-> lv[k + 1]]
  <2>1. /\ u \in [0 .. Len(pipe') -> {0, 1}] /\ u[0] = lv[1] /\ u[Len(pipe')] = lv[Len(pipe)]
        /\ \A k \in 1 .. Len(pipe') : u[k] = lv[k + 1] /\ u[k - 1] = lv[k]
    BY <1>1, <1>2
  <2> HIDE DEF u
  <2> QED  BY <2>1
<1>4. \A k \in 1 .. Len(pipe') : Level(pipe'[k], n, up[k - 1], up[k])
  <2> SUFFICES ASSUME NEW k \in 1 .. Len(pipe') PROVE Level(pipe'[k], n, up[k - 1], up[k])
    OBVIOUS
  <2>1. k + 1 \in 1 .. Len(pipe) /\ pipe'[k] = pipe[k + 1] /\ (k + 1) - 1 = k
    BY <1>2
  <2>2. Level(pipe[k + 1], n, lv[(k + 1) - 1], lv[k + 1])
    BY <1>1, <2>1
  <2> QED  BY <1>3, <2>1, <2>2
<1>5. Owes(n, lv[1])'
  <2>1. Level(pipe[1], n, lv[0], lv[1])
    <3>1. 1 \in 1 .. Len(pipe) /\ 1 - 1 = 0
      BY <1>2
    <3> QED  BY <1>1, <3>1
  <2>2. Count(n, table) = Count(n, left) + lv[0]
    BY <1>1 DEF Owes, Reads
  <2>3. lv[0] \in {0, 1}
    BY <1>1, <1>2
  <2>4. at' = "handle" /\ Level(frame', n, lv[0], lv[1])
    BY <1>2, <2>1 DEF Reads
  <2> QED  BY <2>2, <2>3, <2>4 DEF Owes, Level
<1>6. Owes(n, up[0])'
  BY <1>3, <1>5
<1>7. Present(n)' = Present(n)
  BY DEF Present, Reads
<1> QED  BY <1>1, <1>3, <1>4, <1>6, <1>7 DEF Follows, Level

LEMMA FollowsSent ==
  ASSUME TypeOK, NEW n, Follows(n), NEW f, pipe' = Append(pipe, f),
         UNCHANGED <<table, left, at, frame>>,
         Level(f, n, Present(n), Present(n)')
  PROVE  Follows(n)'
<1>1. PICK lv \in [0 .. Len(pipe) -> {0, 1}] :
        /\ Owes(n, lv[0])
        /\ \A k \in 1 .. Len(pipe) : Level(pipe[k], n, lv[k - 1], lv[k])
        /\ lv[Len(pipe)] = Present(n)
  BY DEF Follows
<1>2. /\ Len(pipe) \in Nat /\ Len(pipe') = Len(pipe) + 1 /\ pipe'[Len(pipe) + 1] = f
      /\ \A k \in 1 .. Len(pipe) : pipe'[k] = pipe[k]
  BY Extended
<1>3. PICK p \in {0, 1} : p = Present(n)'
  BY DEF Present
<1>4. PICK up \in [0 .. Len(pipe') -> {0, 1}] :
        up[Len(pipe')] = p /\ \A k \in 0 .. Len(pipe) : up[k] = lv[k]
  <2> DEFINE u == [k \in 0 .. Len(pipe) + 1 |-> IF k = Len(pipe) + 1 THEN p ELSE lv[k]]
  <2>1. /\ u \in [0 .. Len(pipe') -> {0, 1}] /\ u[Len(pipe')] = p
        /\ \A k \in 0 .. Len(pipe) : u[k] = lv[k]
    BY <1>1, <1>2
  <2> HIDE DEF u
  <2> QED  BY <2>1
<1>5. \A k \in 1 .. Len(pipe') : Level(pipe'[k], n, up[k - 1], up[k])
  <2> SUFFICES ASSUME NEW k \in 1 .. Len(pipe') PROVE Level(pipe'[k], n, up[k - 1], up[k])
    OBVIOUS
  <2>1. CASE k \in 1 .. Len(pipe)
    <3>1. up[k] = lv[k] /\ up[k - 1] = lv[k - 1] /\ pipe'[k] = pipe[k]
      BY <1>2, <1>4, <2>1
    <3> QED  BY <1>1, <2>1, <3>1
  <2>2. CASE k = Len(pipe) + 1
    <3>1. up[k] = p /\ up[k - 1] = lv[Len(pipe)] /\ pipe'[k] = f
      BY <1>2, <1>4, <2>2
    <3> QED  BY <1>1, <1>3, <3>1
  <2> QED  BY <1>2, <2>1, <2>2
<1>6. Owes(n, lv[0])'
  BY <1>1 DEF Owes, Level
<1>7. up[0] = lv[0]
  BY <1>2, <1>4
<1>8. Owes(n, up[0])'
  BY <1>6, <1>7
<1> QED  BY <1>3, <1>4, <1>5, <1>8 DEF Follows, Level

\* What the server sends takes its list to what it is then.
LEMMA TellsLevel ==
  ASSUME NEW n \in Objects, NEW f \in Frames, Tells(f)
  PROVE  Level(f, n, Present(n), Present(n)')
<1>1. CASE f.kind \notin {"message", "list", "add", "remove"}
  <2>1. UNCHANGED objects /\ ("list" \in said' <=> "list" \in said)
    BY <1>1 DEF Tells
  <2> QED  BY <1>1, <2>1 DEF Level, Present
<1>2. CASE f.kind = "message"
  <2>1. UNCHANGED <<objects, said>>
    BY <1>2 DEF Tells, ServerSpeaks
  <2> QED  BY <1>2, <2>1 DEF Level, Present
<1>3. CASE f.kind = "list"
  <2>1. f.names = objects /\ "list" \notin said /\ "list" \in said' /\ objects' = objects
    BY <1>3 DEF Tells
  <2> QED  BY <1>3, <2>1 DEF Level, Present
<1>4. CASE f.kind = "add"
  <2>1. /\ f.name \notin objects /\ objects' = objects \cup {f.name}
        /\ "list" \in said /\ said' = said
    BY <1>4 DEF Tells
  <2> QED  BY <1>4, <2>1 DEF Level, Present
<1>5. CASE f.kind = "remove"
  <2>1. /\ GetIPCName(f.string) \in objects /\ objects' = objects \ {GetIPCName(f.string)}
        /\ "list" \in said /\ said' = said
    BY <1>5 DEF Tells
  <2> QED  BY <1>5, <2>1 DEF Level, Present
<1> QED  BY <1>1, <1>2, <1>3, <1>4, <1>5

\* A frame about no module is done, or none was being handled.
LEMMA OwesKept ==
  ASSUME NEW n, NEW j, Owes(n, j), left' = left, Count(n, table') = Count(n, table),
         at' \in {"handle", "add"} => at' = at /\ frame' = frame,
         at' \notin {"handle", "add"} =>
           at \notin {"handle", "add"} \/ frame.kind \notin {"list", "add", "remove"}
  PROVE  Owes(n, j)'
<1>1. PICK d \in {0, 1} :
        /\ Count(n, table) = Count(n, left) + d
        /\ IF at \in {"handle", "add"} THEN Level(frame, n, d, j) ELSE d = j
  BY DEF Owes
<1>2. CASE at' \in {"handle", "add"}
  BY <1>1, <1>2 DEF Owes, Level
<1>3. CASE at' \notin {"handle", "add"}
  <2>1. d = j
    BY <1>1, <1>3 DEF Level
  <2> QED  BY <1>1, <1>3, <2>1 DEF Owes
<1> QED  BY <1>2, <1>3

LEMMA LevelsNext ==
  ASSUME TypeOK, Control, Levels, [Next]_vars
  PROVE  Levels'
<1> USE DEF ReadOn
<1>0. /\ table \in Seq(Names) /\ frame \in Frames /\ Len(pipe) \in Nat /\ open \in BOOLEAN
      /\ \A n \in Objects : n \in Names
  BY TableTyped DEF TypeOK, Names
<1>1. CASE open' = FALSE \/ at' = "absent"
  BY <1>1 DEF Levels
<1>2. CASE Connect
  <2> SUFFICES ASSUME NEW n \in Objects \ missed' PROVE Follows(n)'
    BY DEF Levels
  <2>1. pipe' = <<>> /\ left' = table /\ table' = table /\ said' = {} /\ at' = "start"
    BY <1>2 DEF Connect, moduleVars
  <2> DEFINE lv == [k \in 0 .. 0 |-> 0]
  <2>2. lv \in [0 .. 0 -> {0, 1}] /\ lv[0] = 0 /\ Len(pipe') = 0
    BY <2>1
  <2> HIDE DEF lv
  <2>3. Count(n, table') = Count(n, left') + 0
    <3>1. Count(n, table) \in Nat
      BY <1>0, CountType
    <3> QED  BY <2>1, <3>1
  <2>4. Owes(n, lv[0])'
    BY <2>1, <2>2, <2>3 DEF Owes
  <2>5. Present(n)' = 0
    BY <2>1 DEF Present
  <2> QED  BY <2>2, <2>4, <2>5 DEF Follows
<1>3. ASSUME ~(open' = FALSE \/ at' = "absent"), ~Connect
      PROVE  open /\ at # "absent" /\ \A n \in Objects \ missed' : Follows(n)
  <2>1. open' = open \/ open' = FALSE
    BY <1>3 DEF Next, ThreadStep, ServerStep, vars, Lose, CheckerExpires, Notice, Disconnect, Speak,
                OnStart, ReadLen, ReadBody, NoMemory, HandlePlain, Discard, LoginSuccess, LoginFailure,
                ModuleName, ModuleStated, OnConnected, ModuleState, AddIPCObject, IPCObjectList,
                RemoveIPCObject, IPCMessage, End
  <2>2. at = "absent" => at' = "absent" \/ open' = FALSE
    BY <1>3 DEF Next, ThreadStep, ServerStep, vars, threadVars, Lose, CheckerExpires, Notice,
                Disconnect, Speak, OnStart, ReadLen, ReadBody, NoMemory, HandlePlain, Discard, LoginSuccess,
                LoginFailure, ModuleName, ModuleStated, OnConnected, ModuleState, AddIPCObject,
                IPCObjectList, RemoveIPCObject, IPCMessage, End, Handling
  <2>3. missed \subseteq missed'
    BY <1>3 DEF Next, ThreadStep, ServerStep, vars, historyVars, Lose, CheckerExpires, Notice,
                Disconnect, Speak, OnStart, ReadLen, ReadBody, NoMemory, HandlePlain, Discard, LoginSuccess,
                LoginFailure, ModuleName, ModuleStated, OnConnected, ModuleState, AddIPCObject,
                IPCObjectList, RemoveIPCObject, IPCMessage, End
  <2> QED  BY <1>0, <1>3, <2>1, <2>2, <2>3 DEF Levels
\* Enough for the other steps: what is owed stays so.
<1>4. ASSUME ~(open' = FALSE \/ at' = "absent"), ~Connect,
             UNCHANGED <<pipe, objects, said>>,
             \A n \in Objects \ missed' : \A j \in {0, 1} : Owes(n, j) => Owes(n, j)'
      PROVE  Levels'
  <2>1. \A n \in Objects \ missed' : Follows(n)
    BY <1>3, <1>4
  <2>2. \A n \in Objects : Present(n)' = Present(n)
    BY <1>4 DEF Present
  <2>3. ASSUME NEW n \in Objects \ missed' PROVE Follows(n)'
    BY <1>0, <1>4, <2>1, <2>2, FollowsKept
  <2> QED  BY <2>3 DEF Levels
<1>5. ASSUME ~(open' = FALSE \/ at' = "absent"), ~Connect,
             UNCHANGED <<pipe, objects, said, left>>,
             \A n \in Objects : Count(n, table') = Count(n, table),
             at' \in {"handle", "add"} => at' = at /\ frame' = frame,
             at' \notin {"handle", "add"} =>
               at \notin {"handle", "add"} \/ frame.kind \notin {"list", "add", "remove"}
      PROVE  Levels'
  <2>1. \A n \in Objects : \A j \in {0, 1} : Owes(n, j) => Owes(n, j)'
    BY <1>5, OwesKept
  <2> QED  BY <1>4, <1>5, <2>1
<1>6. \A n : Count(n, table) \in Nat
  BY <1>0, CountType
<1>7. CASE ServerStep /\ open' # FALSE /\ at' # "absent" /\ ~Connect
  <2>1. UNCHANGED <<table, left, open, at, frame>>
    BY <1>7 DEF ServerStep, threadVars, moduleVars, historyVars
  <2>2. \A n \in Objects \ missed' : Follows(n)
    BY <1>3, <1>7
  <2>3. CASE ServerChanges /\ UNCHANGED pipe /\ ~("list" \in said /\ open)
    <3>1. "list" \notin said /\ said' = said
      BY <1>3, <1>7, <2>3 DEF ServerChanges
    <3>2. \A n \in Objects : Present(n)' = Present(n)
      BY <3>1 DEF Present
    <3>3. \A n \in Objects : \A j \in {0, 1} : Owes(n, j) => Owes(n, j)'
      BY <2>1 DEF Owes, Level
    <3>4. ASSUME NEW n \in Objects \ missed' PROVE Follows(n)'
      BY <1>0, <2>2, <2>3, <3>2, <3>3, FollowsKept
    <3> QED  BY <3>4 DEF Levels
  <2>4. CASE \E f \in Frames : Sending(f) /\ Tells(f)
    <3>1. PICK f \in Frames : Sending(f) /\ Tells(f)
      BY <2>4
    <3>2. pipe' = Append(pipe, f)
      BY <3>1 DEF Sending
    <3>3. ASSUME NEW n \in Objects \ missed' PROVE Follows(n)'
      <4>1. Level(f, n, Present(n), Present(n)')
        BY <3>1, TellsLevel
      <4> QED  BY <2>1, <2>2, <3>2, <4>1, FollowsSent
    <3> QED  BY <3>3 DEF Levels
  <2> QED  BY <1>7, <2>3, <2>4, ServerSends
<1>8. CASE ReadBody /\ open' # FALSE /\ at' # "absent" /\ ~Connect
  <2>1. UNCHANGED <<table, left, objects, said>>
    BY <1>8 DEF ReadBody, serverVars, moduleVars, historyVars
  <2>2. CASE Reads
    <3>1. \A n \in Objects \ missed' : Follows(n)
      BY <1>3, <1>8
    <3>2. ASSUME NEW n \in Objects \ missed' PROVE Follows(n)'
      BY <2>1, <2>2, <3>1, FollowsRead
    <3> QED  BY <3>2 DEF Levels
  <2>3. CASE ~Reads
    <3>1. at = "body" /\ at' = "end" /\ UNCHANGED pipe
      BY <1>8, <2>3 DEF ReadBody, Reads, serverVars
    <3> QED  BY <1>5, <1>8, <2>1, <3>1
  <2> QED  BY <2>2, <2>3
<1>9. CASE ModuleName /\ open' # FALSE /\ at' # "absent" /\ ~Connect
  <2>1. /\ UNCHANGED <<pipe, objects, said, left>> /\ frame.kind = "name" /\ at' = "stated"
        /\ table' = Add(ServerName(connection), table) /\ at = "handle"
    BY <1>9 DEF ModuleName, Handling, serverVars, historyVars
  <2>2. ServerName(connection) \in Names
    BY <2>1, SessionFacts DEF Control
  <2>3. \A n \in Objects : Count(n, table') = Count(n, table)
    <3>1. \A n : Count(n, table') = Count(n, table) + (IF n = ServerName(connection) THEN 1 ELSE 0)
      BY <1>0, <2>1, <2>2, Added
    <3>2. \A n \in Objects : n # ServerName(connection)
      BY <2>1, SessionFacts, NameFacts DEF Control
    <3> QED  BY <1>6, <3>1, <3>2
  <2> QED  BY <1>5, <1>9, <2>1, <2>3
<1>10. CASE AddIPCObject /\ open' # FALSE /\ at' # "absent" /\ ~Connect
  <2>1. /\ UNCHANGED <<pipe, objects, said, left>> /\ frame.kind = "add" /\ at = "handle" /\ at' = "len"
        /\ table' = Add(frame.name, table)
    BY <1>10 DEF AddIPCObject, Handling, serverVars, historyVars
  <2>2. \A n : Count(n, table') = Count(n, table) + (IF n = frame.name THEN 1 ELSE 0)
    <3>1. frame.name \in Names
      BY <1>0, <2>1, FrameFacts
    <3> QED  BY <1>0, <2>1, <3>1, Added
  <2>3. ASSUME NEW n \in Objects, NEW j \in {0, 1}, Owes(n, j)
        PROVE  Owes(n, j)'
    <3>1. PICK d \in {0, 1} : Count(n, table) = Count(n, left) + d /\ Level(frame, n, d, j)
      BY <2>1, <2>3 DEF Owes
    <3>2. j = d + (IF n = frame.name THEN 1 ELSE 0)
      BY <2>1, <3>1 DEF Level
    <3>3. Count(n, left) \in Nat
      BY TableTyped, CountType
    <3>4. Count(n, table') = Count(n, left) + j
      BY <2>2, <3>1, <3>2, <3>3
    <3> QED  BY <2>1, <3>4 DEF Owes
  <2> QED  BY <1>4, <1>10, <2>1, <2>3
<1>11. CASE RemoveIPCObject /\ open' # FALSE /\ at' # "absent" /\ ~Connect
  <2> DEFINE r == GetIPCName(frame.string)
  <2>1. /\ UNCHANGED <<pipe, objects, said, left>> /\ frame.kind = "remove" /\ at = "handle"
        /\ at' = "len" /\ table' = RemoveObject(frame.string, table)
    BY <1>11 DEF RemoveIPCObject, Handling, serverVars, historyVars
  <2>2. \A n : Count(n, table') = Count(n, table) - (IF n = r /\ Count(n, table) # 0 THEN 1 ELSE 0)
    <3>1. r \in Names \cup {Nameless}
      BY <1>0, <2>1, FrameFacts
    <3> QED  BY <1>0, <2>1, <3>1, ObjectRemoved
  <2>3. ASSUME NEW n \in Objects, NEW j \in {0, 1}, Owes(n, j)
        PROVE  Owes(n, j)'
    <3>1. PICK d \in {0, 1} : Count(n, table) = Count(n, left) + d /\ Level(frame, n, d, j)
      BY <2>1, <2>3 DEF Owes
    <3>2. d = j + (IF n = r THEN 1 ELSE 0)
      BY <2>1, <3>1 DEF Level
    <3>3. Count(n, left) \in Nat
      BY TableTyped, CountType
    <3> HIDE DEF r
    <3>4. Count(n, table') = Count(n, left) + j
      BY <2>2, <3>1, <3>2, <3>3
    <3> QED  BY <2>1, <3>4 DEF Owes
  <2> QED  BY <1>4, <1>11, <2>1, <2>3
<1>12. CASE IPCObjectList /\ open' # FALSE /\ at' # "absent" /\ ~Connect
  <2>1. /\ UNCHANGED <<pipe, objects, said, left>> /\ frame.kind = "list" /\ at \in {"handle", "add"}
        /\ frame.names \in SUBSET Objects
    BY <1>0, <1>12, FrameFacts DEF IPCObjectList, Handling, Control, serverVars, historyVars
  <2>2. CASE frame.names = {}
    <3>1. at' = "len" /\ table' = table
      BY <1>12, <2>2 DEF IPCObjectList
    <3>2. ASSUME NEW n \in Objects, NEW j \in {0, 1}, Owes(n, j)
          PROVE  Owes(n, j)'
      <4>1. PICK d \in {0, 1} : Count(n, table) = Count(n, left) + d /\ Level(frame, n, d, j)
        BY <2>1, <3>2 DEF Owes
      <4>2. d = j
        BY <2>1, <2>2, <4>1 DEF Level
      <4> QED  BY <2>1, <3>1, <4>1, <4>2 DEF Owes
    <3> QED  BY <1>4, <1>12, <2>1, <3>2
  <2>3. CASE frame.names # {}
    <3>1. PICK m \in frame.names : /\ table' = Add(m, table) /\ at' = "add"
                                   /\ frame' = [frame EXCEPT !.names = @ \ {m}]
      BY <1>12, <2>3 DEF IPCObjectList
    <3>2. frame'.kind = "list" /\ frame'.names = frame.names \ {m}
      <4>1. frame.names \ {m} \in SUBSET Objects
        BY <2>1
      <4>2. frame' = [frame EXCEPT !.names = frame.names \ {m}]
        BY <3>1
      <4> QED  BY <1>0, <2>1, <4>1, <4>2, FrameFacts
    <3>3. \A n : Count(n, table') = Count(n, table) + (IF n = m THEN 1 ELSE 0)
      BY <1>0, <2>1, <3>1, Added
    <3>4. ASSUME NEW n \in Objects, NEW j \in {0, 1}, Owes(n, j)
          PROVE  Owes(n, j)'
      <4>1. PICK d \in {0, 1} : Count(n, table) = Count(n, left) + d /\ Level(frame, n, d, j)
        BY <2>1, <3>4 DEF Owes
      <4>2. Count(n, left) \in Nat
        BY TableTyped, CountType
      <4>3. CASE n = m
        <5>1. d = 0 /\ j = 1
          BY <2>1, <3>1, <4>1, <4>3 DEF Level
        <5>2. Count(n, table') = Count(n, left) + 1
          BY <3>3, <4>1, <4>2, <4>3, <5>1
        <5>3. Level(frame', n, 1, j)
          BY <3>2, <4>3, <5>1 DEF Level
        <5> QED  BY <2>1, <3>1, <5>2, <5>3 DEF Owes, Level
      <4>4. CASE n # m
        <5>1. Count(n, table') = Count(n, left) + d
          BY <1>6, <3>3, <4>1, <4>2, <4>4
        <5>2. Level(frame', n, d, j)
          BY <2>1, <3>2, <4>1, <4>4 DEF Level
        <5> QED  BY <2>1, <3>1, <5>1, <5>2 DEF Owes, Level
      <4> QED  BY <4>3, <4>4
    <3> QED  BY <1>4, <1>12, <2>1, <3>4
  <2> QED  BY <2>2, <2>3
<1>13. CASE (Speak \/ UNCHANGED vars) /\ open' # FALSE /\ at' # "absent" /\ ~Connect
  <2>1. UNCHANGED <<pipe, objects, said, left, table, at, frame>>
    BY <1>13 DEF Speak, vars, serverVars, threadVars, moduleVars, historyVars
  <2>2. \A n \in Objects : \A j \in {0, 1} : Owes(n, j) => Owes(n, j)'
    BY <2>1 DEF Owes, Level
  <2> QED  BY <1>4, <1>13, <2>1, <2>2
<1>14. CASE (OnStart \/ ReadLen \/ NoMemory \/ ModuleStated \/ OnConnected)
            /\ open' # FALSE /\ at' # "absent" /\ ~Connect
  <2>1. /\ UNCHANGED <<pipe, objects, said, left, table>>
        /\ at \notin {"handle", "add"} /\ at' \notin {"handle", "add"}
    BY <1>14 DEF OnStart, ReadLen, NoMemory, ModuleStated, OnConnected, serverVars, moduleVars,
                 historyVars
  <2> QED  BY <1>5, <1>14, <2>1
<1>15. CASE (HandlePlain \/ LoginSuccess \/ ModuleState \/ IPCMessage)
            /\ open' # FALSE /\ at' # "absent" /\ ~Connect
  <2>1. /\ UNCHANGED <<pipe, objects, said, left, table>>
        /\ frame.kind \notin {"list", "add", "remove"} /\ at' \notin {"handle", "add"}
    BY <1>15 DEF HandlePlain, LoginSuccess, ModuleState, IPCMessage, Handling, serverVars, moduleVars,
                 historyVars
  <2> QED  BY <1>5, <1>15, <2>1
<1>16. CASE Lose \/ CheckerExpires \/ Notice \/ Disconnect \/ LoginFailure \/ End
  <2>1. open' = FALSE \/ at' = "absent"
    BY <1>16 DEF Lose, CheckerExpires, Notice, Disconnect, LoginFailure, End
  <2> QED  BY <1>1, <2>1
\* Whom a discarded frame was not about, has what is owed.
<1>17. CASE Discard /\ open' # FALSE /\ at' # "absent" /\ ~Connect
  <2>1. /\ UNCHANGED <<pipe, objects, said, left, table>> /\ at = "handle" /\ at' = "len"
        /\ missed' = missed \cup About(frame)
    BY <1>17 DEF Discard, moduleVars
  <2>2. ASSUME NEW n \in Objects \ missed', NEW j \in {0, 1}, Owes(n, j)
        PROVE  Owes(n, j)'
    <3>1. PICK d \in {0, 1} : Count(n, table) = Count(n, left) + d /\ Level(frame, n, d, j)
      BY <2>1, <2>2 DEF Owes
    <3>2. /\ frame.kind = "list" => n \notin frame.names
          /\ frame.kind = "add" => frame.name # n
          /\ frame.kind = "remove" => GetIPCName(frame.string) # n
      BY <1>0, <2>1, AboutFacts
    <3>3. d = j
      BY <3>1, <3>2 DEF Level
    <3> QED  BY <2>1, <3>1, <3>3 DEF Owes
  <2> QED  BY <1>4, <1>17, <2>1, <2>2
<1> QED  BY <1>1, <1>2, <1>7, <1>8, <1>9, <1>10, <1>11, <1>12, <1>13, <1>14, <1>15, <1>16, <1>17
         DEF Next, ThreadStep

----------------------------------------------------------------------------
(***************************************************************************)
(* The theorems.                                                           *)
(***************************************************************************)
IInv == TypeOK /\ Control /\ Arrivals /\ Speech /\ Entry /\ Order /\ Welcomed /\ Levels

LEMMA IInvInit == Init => IInv
<1> SUFFICES ASSUME Init PROVE IInv
  OBVIOUS
<1>1. /\ objects \subseteq Objects /\ said = {} /\ changes = 0 /\ spoken = 0 /\ heard = {}
      /\ pipe = <<>> /\ connection = 0 /\ open = FALSE /\ at = "none" /\ frame = Plain
      /\ connected = FALSE /\ checker = FALSE /\ out = <<>> /\ table = <<>> /\ left = <<>>
      /\ since = 0 /\ session = NoSession /\ delivered = <<>> /\ failures = 0
      /\ missed = {} /\ unnamed = FALSE
  BY DEF Init
<1>2. GetIPCName(id) = Nameless
  BY NameFacts DEF Init
<1>3. Plain \in Frames
  BY FrameMakers DEF Plain
<1>4. TypeOK
  <2>1. /\ <<>> \in Seq(Frames) /\ <<>> \in Seq({"login", "name", "rest"})
        /\ <<>> \in Seq(Objects \cup {ServerName(k) : k \in 1 .. CONNECTIONS})
        /\ <<>> \in Seq(1 .. MESSAGES)
    OBVIOUS
  <2>2. /\ said \subseteq {"result", "name", "list"} /\ changes \in 0 .. CHANGES
        /\ spoken \in 0 .. MESSAGES /\ connection \in 0 .. CONNECTIONS /\ since \in 0 .. MESSAGES
        /\ failures \in 0 .. FAILURES
    BY <1>1, SizeFacts
  <2>3. /\ open \in BOOLEAN /\ connected \in BOOLEAN /\ checker \in BOOLEAN /\ at \in Places
        /\ frame \in Frames /\ heard \subseteq 1 .. MESSAGES
        /\ missed \subseteq Objects /\ unnamed \in BOOLEAN
    BY <1>1, <1>3 DEF Places
  <2>4. /\ pipe \in Seq(Frames) /\ out \in Seq({"login", "name", "rest"})
        /\ {table, left} \subseteq Seq(Objects \cup {ServerName(k) : k \in 1 .. CONNECTIONS})
        /\ delivered \in Seq(1 .. MESSAGES)
    BY <1>1, <2>1
  <2>5. /\ GetIPCName(id) \in {Nameless} \cup {ServerName(k) : k \in 1 .. CONNECTIONS}
        /\ session \in {NoSession} \cup {<<Session[k]>> : k \in 1 .. CONNECTIONS}
    BY <1>1, <1>2
  <2> QED  BY <1>1, <2>2, <2>3, <2>4, <2>5 DEF TypeOK
<1>5. \A n : Count(n, table) = 0 /\ Count(n, left) = 0
  <2>1. <<>> \in Seq(Names) /\ DOMAIN <<>> = {}
    OBVIOUS
  <2>2. \A n : Count(n, <<>>) = 0
    BY <2>1, CountType
  <2> QED  BY <1>1, <2>2
<1>6. Control /\ Arrivals /\ Speech /\ Welcomed /\ Levels
  BY <1>1 DEF Control, Arrivals, Once, Speech, InOrder, Arriving, Welcomed, Levels
<1>7. Entry
  BY <1>1, <1>5 DEF Entry, Listed
<1>8. Order
  BY <1>1 DEF Order, Handling
<1> QED  BY <1>4, <1>6, <1>7, <1>8 DEF IInv

\* Whatever the modules, the sessions and the bounds are.
THEOREM IpcInvariant == Spec => []IInv
<1>1. IInv /\ [Next]_vars => IInv'
  <2> SUFFICES ASSUME IInv, [Next]_vars PROVE IInv'
    OBVIOUS
  <2>1. TypeOK /\ Control /\ Arrivals /\ Speech /\ Entry /\ Order /\ Welcomed /\ Levels
    BY DEF IInv
  <2> QED  BY <2>1, TypeNext, ControlNext, ArrivalsNext, SpeechNext, EntryNext, OrderNext, WelcomedNext,
              LevelsNext DEF IInv
<1> QED  BY <1>1, IInvInit, PTL DEF Spec

\* The server has one entry while the client is connected to it, and none when
\* nobody is connected: OnStop has removed it under the name the connector then
\* had, wherever its thread was stopped.
THEOREM ServerIsListed == Spec => []ServerListed
<1>1. IInv => ServerListed
  <2> SUFFICES ASSUME IInv PROVE ServerListed
    OBVIOUS
  <2>1. TypeOK /\ Entry
    BY DEF IInv
  <2>2. ASSUME NEW k \in 1 .. CONNECTIONS
        PROVE  /\ connected => Count(ServerName(k), table) =
                                 IF ServerName(k) = ServerName(connection) THEN 1 ELSE 0
               /\ at \in {"none", "absent"} => Count(ServerName(k), table) = 0
    <3>1. ServerName(k) \in Servers
      BY SessionFacts
    <3> QED  BY <2>1, <3>1 DEF Entry, Listed
  <2> QED  BY <2>1, <2>2 DEF ServerListed
<1> QED  BY <1>1, IpcInvariant, PTL

\* Once everything was read the table is what it was before the connection, with
\* the server and its present modules added, but for those of whom a frame found
\* no memory.
THEOREM TableFollowsServer == Spec => []TableFollows
<1>1. IInv => TableFollows
  <2> SUFFICES ASSUME IInv, Quiet, NEW n \in (ToSet(table) \cup ToSet(left) \cup objects) \ missed
               PROVE  Count(n, table) = Count(n, left) +
                        (IF n \in objects \cup {ServerName(connection)} THEN 1 ELSE 0)
    BY DEF TableFollows
  <2>1. TypeOK /\ Control /\ Entry /\ Levels
    BY DEF IInv
  <2>2. table \in Seq(Names) /\ left \in Seq(Names) /\ objects \subseteq Objects
    BY <2>1, TableTyped DEF TypeOK
  <2>3. n \in Names
    BY <2>2 DEF ToSet, Names
  <2>4. connected /\ open /\ at = "len" /\ pipe = <<>> /\ said = {"result", "name", "list"}
    BY DEF Quiet
  <2>5. ServerName(connection) \in Servers
    BY <2>1, <2>4, SessionFacts DEF Control
  <2>6. CASE n \in Objects
    <3>1. Follows(n)
      BY <2>1, <2>4, <2>6 DEF Levels
    <3>2. PICK lv \in [0 .. Len(pipe) -> {0, 1}] :
            /\ Owes(n, lv[0])
            /\ \A k \in 1 .. Len(pipe) : Level(pipe[k], n, lv[k - 1], lv[k])
            /\ lv[Len(pipe)] = Present(n)
      BY <3>1 DEF Follows
    <3>3. Len(pipe) = 0
      BY <2>4
    <3>4. Owes(n, Present(n))
      BY <3>2, <3>3
    <3>5. Count(n, table) = Count(n, left) + Present(n)
      BY <2>4, <3>4 DEF Owes
    <3>6. n # ServerName(connection)
      BY <2>5, <2>6, NameFacts
    <3> QED  BY <2>4, <3>5, <3>6 DEF Present
  <2>7. CASE n \in Servers
    <3>1. n \notin objects
      BY <2>2, <2>7, NameFacts
    <3>2. Count(n, left) = 0 /\ Count(n, table) = IF n = ServerName(connection) THEN 1 ELSE 0
      BY <2>1, <2>4, <2>7 DEF Entry
    <3> QED  BY <3>1, <3>2
  <2> QED  BY <2>3, <2>6, <2>7 DEF Names
<1> QED  BY <1>1, IpcInvariant, PTL

\* The messages that the server sent after its name and that found memory are
\* handed over, in order, and none that came before.
THEOREM MessagesKeepOrder == Spec => []MessagesInOrder
<1>1. IInv => MessagesInOrder
  <2> SUFFICES ASSUME IInv PROVE MessagesInOrder
    OBVIOUS
  <2>1. TypeOK /\ Entry /\ Order /\ Welcomed
    BY DEF IInv
  <2>2. /\ \A j, k \in DOMAIN delivered : j < k => delivered[j] < delivered[k]
        /\ \A j \in DOMAIN delivered : delivered[j] \in heard
    BY <2>1 DEF Order
  <2>3. ASSUME Quiet, NEW m \in heard, m > since
        PROVE  m \in ToSet(delivered)
    <3>1. open /\ at = "len" /\ pipe = <<>> /\ DOMAIN pipe = {}
      BY <2>3 DEF Quiet
    <3>2. Reaches(m)
      BY <2>1, <2>3, <3>1 DEF Welcomed, Greets, Quiet
    <3> QED  BY <3>1, <3>2 DEF Reaches, Handling
  <2> QED  BY <2>2, <2>3 DEF MessagesInOrder, ToSet
<1> QED  BY <1>1, IpcInvariant, PTL

\* The server hears the login and the client's name first, or the name never, if it
\* could not be sent; and a connector that is answered finds no session of an
\* earlier one.
THEOREM LoginComesFirst == Spec => []NameComesFirst
<1>1. IInv => NameComesFirst
  BY DEF IInv, Speech, InOrder, Arriving, Answered, Handling, NameComesFirst
<1> QED  BY <1>1, IpcInvariant, PTL
=============================================================================
