-------------------------- MODULE TcpSocketProofs --------------------------
(***************************************************************************)
(* Whatever the sizes, the segments, the number of senders and the order   *)
(* of events: Recv implements the byte stream, the window is given back    *)
(* exactly, and, if nobody else closes the socket, no context is left      *)
(* waiting for what cannot come.                                           *)
(***************************************************************************)
EXTENDS TcpSocket, SequenceTheorems, FiniteSetTheorems, TLAPS

\* Where a call can stand depends on its context's role, and on who has the CPU.
Role(c) ==
  /\ call[c].at \in {"bound", "connect", "dial", "dialled"} => c \in Dialers
  /\ call[c].at \in {"turn", "write", "sent"} => c \in Senders /\ tally[c].calls >= 1
  /\ Receiving(c) => c \in Readers
  /\ call[c].at \in {"connect", "write"} => cpu = c
  /\ call[c].at = "connect" => sock = "new"

Roles == \A c \in Contexts : Role(c)

\* A full send buffer belongs to somebody who waits for the ACK: m_sentSize is
\* set by an ACK, which made room, and who fills the buffer registers at once.
Rooms ==
  /\ sock \in {"new", "connecting"} => unacked = 0
  /\ sock = "open" /\ sentSize > 0 => unacked < SNDBUF
  /\ sock = "open" /\ sentSize = 0 /\ waiter.send = NoId =>
       unacked < SNDBUF \/ \E c \in Contexts : cpu = c /\ call[c].at = "sent"
  /\ \A c \in Contexts :
       /\ call[c].at = "write" /\ sock = "open" /\ call[c].left > 0 => unacked < SNDBUF
       /\ call[c].at = "sent" => call[c].chunk > 0

\* The buffer holds the bytes up to the last that has arrived, in their order;
\* the window for those before it was given back while the socket was valid.
Pbufs == Seq(1 .. BYTES) \ {<<>>}

Placed ==
  /\ \A k \in 1 .. Len(buf) :
       /\ \A j \in 1 .. Len(buf[k]) : buf[k][j] = buf[k][1] + j - 1
       /\ buf[k][1] + Len(buf[k]) = IF k = Len(buf) THEN arrived + 1 ELSE buf[k + 1][1]
       /\ buf[k][1] + Len(buf[k]) <= arrived + 1
  /\ credit <= Released
  /\ sock # "invalid" => credit = Released

\* A call of Recv has copied the bytes before the next one, as many as it has not
\* left; after one has failed no other gets that far.
Block(c) ==
  /\ Receiving(c) =>
       /\ call[c].left + Len(call[c].got) = call[c].len
       /\ call[c].len > 0
       /\ \A k \in 1 .. Len(call[c].got) : call[c].got[k] = Copied - Len(call[c].got) + k
       /\ sock \in {"open", "invalid"}
       /\ outcome.failed => call[c].at = "recv" /\ call[c].left > 0
  /\ call[c].at = "copy" => call[c].left > 0

Blocks ==
  /\ \A c \in Contexts : Block(c)
  /\ outcome.failed => sock = "invalid"

----------------------------------------------------------------------------
LEMMA MinOfTwo ==
  ASSUME NEW a \in Nat, NEW b \in Nat
  PROVE  /\ Min({a, b}) \in Nat /\ Min({a, b}) <= a /\ Min({a, b}) <= b
         /\ a > 0 /\ b > 0 => Min({a, b}) > 0
<1>1. \E x \in {a, b} : \A y \in {a, b} : x <= y
  OBVIOUS
<1>2. Min({a, b}) \in {a, b} /\ \A y \in {a, b} : Min({a, b}) <= y
  BY <1>1 DEF Min
<1> QED BY <1>2

\* What goes into the send buffer fits, and is more than nothing if there is room.
LEMMA ChunkFits ==
  ASSUME TypeOK, NEW c \in Contexts, NEW chunk, chunk = Min({Room, call[c].left})
  PROVE  /\ chunk \in Nat /\ chunk <= SNDBUF - unacked /\ chunk <= call[c].left
         /\ unacked < SNDBUF /\ call[c].left > 0 => chunk > 0
<1>1. Room \in Nat /\ Room = SNDBUF - unacked /\ unacked \in Nat /\ SNDBUF \in Nat
  BY LimitAssumption DEF Room, TypeOK
<1>2. call[c].left \in Nat
  BY LimitAssumption DEF TypeOK, Calls
<1> QED BY <1>1, <1>2, MinOfTwo

LEMMA RoomsStart == Init => Rooms
BY LimitAssumption DEF Init, Rooms, Idle

LEMMA RolesStart == Init => Roles
BY DEF Init, Roles, Role, Receiving, Idle

----------------------------------------------------------------------------
(***************************************************************************)
(* Types.                                                                  *)
(***************************************************************************)
LEMMA IdleTyped == Idle \in Calls
BY LimitAssumption DEF Idle, Calls

LEMMA TypesStart == Init => TypeOK
<1> SUFFICES ASSUME Init PROVE TypeOK
  OBVIOUS
<1>1. /\ call \in [Contexts -> Calls]
      /\ tally \in [Contexts -> [calls : 0 .. SENDS, told : Nat]]
      /\ outcome \in [block : Seq(1 .. BYTES), failed : BOOLEAN]
  BY IdleTyped, LimitAssumption DEF Init
<1>2. buf \in Seq(Seq(1 .. BYTES) \ {<<>>}) /\ wire \in Seq(Senders \X (1 .. SENDS))
      /\ unacked <= Len(wire)
  BY DEF Init
<1>3. 0 \in 0 .. SNDBUF /\ 0 \in 0 .. BYTES
  BY LimitAssumption
<1> QED BY <1>1, <1>2, <1>3 DEF Init, TypeOK

\* Resuming writes a waiter and a waker.
LEMMA ResumeTyped ==
  ASSUME TypeOK, NEW f \in {"connect", "recv", "send"}, Resume(f)
  PROVE  waiter' \in [{"connect", "recv", "send"} -> Contexts \cup {NoId}] /\ woken' \subseteq Contexts
BY DEF Resume, Register, TypeOK

LEMMA EnterTyped ==
  ASSUME TypeOK, NEW c \in Contexts, NEW n \in 0 .. MAXLEN,
         NEW p \in {"connect", "turn", "recv"}, Enter(c, p, n)
  PROVE  /\ call' = [call EXCEPT ![c] = [at |-> p, len |-> n, left |-> n, chunk |-> 0, got |-> <<>>]]
         /\ cpu' = c
         /\ call' \in [Contexts -> Calls]
<1>1. [at |-> p, len |-> n, left |-> n, chunk |-> 0, got |-> <<>>] \in Calls
  BY LimitAssumption DEF Calls
<1>2. call' = [call EXCEPT ![c] = [at |-> p, len |-> n, left |-> n, chunk |-> 0, got |-> <<>>]]
  BY DEF Enter
<1> QED BY <1>1, <1>2 DEF Enter, TypeOK

LEMMA MovesTyped ==
  ASSUME TypeOK, NEW c \in Contexts,
         \/ Return(c)
         \/ \E p \in {"bound", "dial", "dialled", "turn", "write", "sent", "recv", "copy"} :
              Goto(c, p) \/ Park(c, p)
         \/ UNCHANGED <<call, cpu>>
  PROVE  cpu' \in Contexts \cup {NoId} /\ call' \in [Contexts -> Calls]
<1>1. cpu \in Contexts \cup {NoId} /\ call \in [Contexts -> Calls]
  BY DEF TypeOK
<1>2. CASE Return(c)
  BY <1>1, <1>2, IdleTyped DEF Return
<1>3. ASSUME NEW p \in {"bound", "dial", "dialled", "turn", "write", "sent", "recv", "copy"},
             Goto(c, p) \/ Park(c, p)
      PROVE  cpu' \in Contexts \cup {NoId} /\ call' \in [Contexts -> Calls]
  <2>1. [call[c] EXCEPT !.at = p] \in Calls
    BY <1>1 DEF Calls
  <2>2. call' = [call EXCEPT ![c] = [call[c] EXCEPT !.at = p]]
    BY <1>3 DEF Goto, Park
  <2> QED BY <1>1, <1>3, <2>1, <2>2 DEF Goto, Park
<1> QED BY <1>1, <1>2, <1>3

\* Steps of the contexts keep the types, ...
LEMMA DialTyped ==
  ASSUME TypeOK, NEW c \in Contexts,
         Run(c) \/ Bind(c) \/ Connect(c) \/ Resolve(c) \/ Dial(c) \/ Bound(c) \/ Dialled(c)
  PROVE  TypeOK'
<1> USE DEF vars, sockVars, bufVars, userVars, lwipVars
<1>1. CASE Run(c)
  BY <1>1 DEF Run, TypeOK
<1>2. CASE Bind(c)
  <2>1. lookups' \subseteq [by : Contexts, resumes : Contexts]
    BY <1>2 DEF Bind, TypeOK
  <2>2. cpu' \in Contexts \cup {NoId} /\ call' \in [Contexts -> Calls]
    BY <1>2, MovesTyped DEF Bind
  <2> QED BY <1>2, <2>1, <2>2 DEF Bind, TypeOK
<1>3. CASE Connect(c)
  <2>1. cpu' = c /\ call' \in [Contexts -> Calls]
    <3>1. Enter(c, "connect", 0) /\ 0 \in 0 .. MAXLEN
      BY <1>3, LimitAssumption DEF Connect
    <3> QED BY <3>1, EnterTyped
  <2> QED BY <1>3, <2>1 DEF Connect, TypeOK
<1>4. CASE Resolve(c)
  <2>1. cpu' \in Contexts \cup {NoId} /\ call' \in [Contexts -> Calls]
    BY <1>4, MovesTyped DEF Resolve
  <2>2. waiter' \in [{"connect", "recv", "send"} -> Contexts \cup {NoId}]
    BY <1>4 DEF Resolve, Register, TypeOK
  <2>3. lookups' \subseteq [by : Contexts, resumes : Contexts]
    <3>1. LookupFor(c) \in [by : Contexts, resumes : Contexts]
      BY DEF LookupFor, Contexts
    <3> QED BY <1>4, <3>1 DEF Resolve, TypeOK
  <2> QED BY <1>4, <2>1, <2>2, <2>3 DEF Resolve, TypeOK
<1>5. CASE Dial(c)
  <2>1. cpu' \in Contexts \cup {NoId} /\ call' \in [Contexts -> Calls]
    BY <1>5, MovesTyped DEF Dial
  <2>2. /\ waiter' \in [{"connect", "recv", "send"} -> Contexts \cup {NoId}]
        /\ sock' \in {"new", "connecting", "open", "invalid"} /\ up' \in BOOLEAN
    BY <1>5 DEF Dial, Register, TypeOK
  <2> QED BY <1>5, <2>1, <2>2 DEF Dial, TypeOK
<1>6. CASE Bound(c) \/ Dialled(c)
  <2>1. cpu' \in Contexts \cup {NoId} /\ call' \in [Contexts -> Calls]
    BY <1>6, MovesTyped DEF Bound, Dialled
  <2> QED BY <1>6, <2>1 DEF Bound, Dialled, TypeOK
<1> QED BY <1>1, <1>2, <1>3, <1>4, <1>5, <1>6

LEMMA SendTyped ==
  ASSUME TypeOK, Roles, NEW c \in Contexts,
         \/ \E n \in 1 .. MAXLEN : Send(c, n)
         \/ SendTurn(c) \/ SendDone(c) \/ SendFails(c) \/ SendWrite(c) \/ SendWait(c)
  PROVE  TypeOK'
<1> USE DEF vars, sockVars, bufVars, userVars, lwipVars
<1> DEFINE Tallies == [Contexts -> [calls : 0 .. SENDS, told : Nat]]
<1>0. /\ tally[c] \in [calls : 0 .. SENDS, told : Nat] /\ call[c] \in Calls
      /\ tally \in Tallies
  BY DEF TypeOK
<1>1. ASSUME NEW n \in 1 .. MAXLEN, Send(c, n) PROVE TypeOK'
  <2>1. cpu' = c /\ call' \in [Contexts -> Calls]
    <3>1. Enter(c, "turn", n) /\ n \in 0 .. MAXLEN
      BY <1>1, LimitAssumption DEF Send
    <3> QED BY <3>1, EnterTyped
  <2>2. tally' \in Tallies
    <3>1. tally[c].calls + 1 \in 0 .. SENDS
      BY <1>0, <1>1, LimitAssumption DEF Send
    <3> QED BY <1>0, <1>1, <3>1 DEF Send
  <2> QED BY <1>1, <2>1, <2>2 DEF Send, TypeOK
<1>2. CASE SendTurn(c) \/ SendFails(c)
  <2>1. cpu' \in Contexts \cup {NoId} /\ call' \in [Contexts -> Calls]
    BY <1>2, MovesTyped DEF SendTurn, SendFails
  <2> QED BY <1>2, <2>1 DEF SendTurn, SendFails, TypeOK
<1>3. CASE SendDone(c)
  <2>1. cpu' \in Contexts \cup {NoId} /\ call' \in [Contexts -> Calls]
    BY <1>3, MovesTyped DEF SendDone
  <2>2. tally' \in Tallies
    <3>1. tally[c].told + call[c].len \in Nat
      BY <1>0, LimitAssumption DEF Calls
    <3> QED BY <1>0, <1>3, <3>1 DEF SendDone, Tell
  <2> QED BY <1>3, <2>1, <2>2 DEF SendDone, TypeOK
<1>4. CASE SendWrite(c)
  <2>1. PICK chunk \in {Min({Room, call[c].left})} :
          /\ wire' = wire \o [k \in 1 .. chunk |-> <<c, tally[c].calls>>]
          /\ unacked' = unacked + chunk
          /\ call' = [call EXCEPT ![c].at = "sent", ![c].chunk = chunk, ![c].left = @ - chunk]
    BY <1>4 DEF SendWrite
  <2>2. chunk \in Nat /\ chunk <= SNDBUF - unacked /\ chunk <= call[c].left
    BY ChunkFits
  <2>3. unacked \in Nat /\ unacked <= SNDBUF /\ SNDBUF \in Nat /\ call[c].left \in 0 .. MAXLEN
    BY <1>0, LimitAssumption DEF TypeOK, Calls
  <2>4. chunk \in 0 .. SNDBUF /\ unacked + chunk \in 0 .. SNDBUF /\ call[c].left - chunk \in 0 .. MAXLEN
    <3>1. \A l \in 0 .. MAXLEN : chunk <= l => l - chunk \in 0 .. MAXLEN
      BY <2>2, LimitAssumption
    <3>2. chunk \in 0 .. SNDBUF /\ unacked + chunk \in 0 .. SNDBUF
      BY <2>2, <2>3
    <3> QED BY <2>2, <2>3, <3>1, <3>2
  <2>5. call' \in [Contexts -> Calls]
    <3>1. [call[c] EXCEPT !.at = "sent", !.chunk = chunk, !.left = call[c].left - chunk] \in Calls
      BY <1>0, <2>4 DEF Calls
    <3>2. call' = [call EXCEPT ![c] = [call[c] EXCEPT !.at = "sent", !.chunk = chunk,
                                                       !.left = call[c].left - chunk]]
      BY <2>1
    <3> QED BY <3>1, <3>2 DEF TypeOK
  <2>6. wire' \in Seq(Senders \X (1 .. SENDS)) /\ Len(wire') = Len(wire) + chunk
    <3> DEFINE more == [k \in 1 .. chunk |-> <<c, tally[c].calls>>]
    <3>1. c \in Senders /\ tally[c].calls \in 1 .. SENDS
      BY <1>0, <1>4, LimitAssumption DEF SendWrite, At, Roles, Role
    <3>2. <<c, tally[c].calls>> \in Senders \X (1 .. SENDS)
      BY <3>1
    <3>3. more \in Seq(Senders \X (1 .. SENDS)) /\ Len(more) = chunk
      BY <2>2, <3>2, IsASeq, LenProperties
    <3>4. wire \in Seq(Senders \X (1 .. SENDS))
      BY DEF TypeOK
    <3> HIDE DEF more
    <3>5. wire \o more \in Seq(Senders \X (1 .. SENDS)) /\ Len(wire \o more) = Len(wire) + Len(more)
      BY <3>3, <3>4, ConcatProperties
    <3> QED BY <2>1, <3>3, <3>5 DEF more
  <2>7. unacked' <= Len(wire')
    BY <2>1, <2>2, <2>3, <2>6, LenProperties DEF TypeOK
  <2>8. sentSize' \in 0 .. SNDBUF /\ timer' = TRUE
    BY <1>4, LimitAssumption DEF SendWrite
  <2> QED BY <1>4, <2>1, <2>4, <2>5, <2>6, <2>7, <2>8 DEF SendWrite, TypeOK
<1>5. CASE SendWait(c)
  <2>1. cpu' \in Contexts \cup {NoId} /\ call' \in [Contexts -> Calls]
    BY <1>5, MovesTyped DEF SendWait
  <2>2. waiter' \in [{"connect", "recv", "send"} -> Contexts \cup {NoId}]
    BY <1>5 DEF SendWait, Register, TypeOK
  <2> QED BY <1>5, <2>1, <2>2 DEF SendWait, TypeOK
<1> QED BY <1>1, <1>2, <1>3, <1>4, <1>5

----------------------------------------------------------------------------
(***************************************************************************)
(* The receive buffer.                                                     *)
(***************************************************************************)
LEMMA PbufFacts ==
  ASSUME TypeOK
  PROVE  /\ buf \in Seq(Pbufs) /\ Len(buf) \in Nat
         /\ \A k \in 1 .. Len(buf) :
              /\ buf[k] \in Seq(1 .. BYTES) /\ Len(buf[k]) \in Nat \ {0}
              /\ buf[k][1] \in 1 .. BYTES
         /\ buf # <<>> => 1 \in 1 .. Len(buf)
         /\ offset \in Nat /\ credit \in Nat /\ arrived \in Nat /\ BYTES \in Nat
<1>1. buf \in Seq(Pbufs) /\ Len(buf) \in Nat
  BY LenProperties DEF TypeOK, Pbufs
<1>2. ASSUME NEW k \in 1 .. Len(buf)
      PROVE  /\ buf[k] \in Seq(1 .. BYTES) /\ Len(buf[k]) \in Nat \ {0}
             /\ buf[k][1] \in 1 .. BYTES
  <2>1. buf[k] \in Seq(1 .. BYTES) /\ buf[k] # <<>>
    BY <1>1, ElementOfSeq DEF Pbufs
  <2>2. Len(buf[k]) \in Nat \ {0}
    BY <2>1, EmptySeq, LenProperties
  <2>3. 1 \in 1 .. Len(buf[k])
    BY <2>2
  <2>4. buf[k][1] \in 1 .. BYTES
    BY <2>1, <2>3, ElementOfSeq
  <2> QED BY <2>1, <2>2, <2>4
<1>3. buf # <<>> => 1 \in 1 .. Len(buf)
  BY <1>1, EmptySeq, LenProperties
<1>4. offset \in Nat /\ credit \in Nat /\ arrived \in Nat /\ BYTES \in Nat
  BY LimitAssumption DEF TypeOK
<1> QED BY <1>1, <1>2, <1>3, <1>4

LEMMA CopiedFacts ==
  ASSUME TypeOK, Placed
  PROVE  /\ Released \in 0 .. BYTES /\ Copied \in Nat
         /\ Released <= Copied /\ Copied <= arrived
         /\ buf # <<>> => Copied < arrived
<1>1. CASE buf = <<>>
  BY <1>1 DEF Released, Copied, TypeOK
<1>2. CASE buf # <<>>
  <2>1. /\ buf[1][1] \in 1 .. BYTES /\ offset \in Nat /\ Len(buf[1]) \in Nat
        /\ offset < Len(buf[1]) /\ buf[1][1] + Len(buf[1]) <= arrived + 1 /\ arrived \in Nat
    BY <1>2, PbufFacts DEF TypeOK, Placed
  <2> QED BY <1>2, <2>1, LimitAssumption DEF Released, Copied
<1> QED BY <1>1, <1>2

\* Consuming moves the reading position by as much as was read.
LEMMA ConsumeMoves ==
  ASSUME TypeOK, Placed, buf # <<>>, NEW size \in Nat, 0 < size,
         size <= Len(buf[1]) - offset, Consume(size), arrived' = arrived, sock' = sock,
         sock \in {"open", "invalid"}
  PROVE  /\ buf' \in Seq(Pbufs)
         /\ offset' \in Nat /\ (buf' = <<>> => offset' = 0) /\ (buf' # <<>> => offset' < Len(buf'[1]))
         /\ Placed'
         /\ Copied' = Copied + size
         /\ credit' \in 0 .. BYTES
<1>1. /\ buf[1][1] \in 1 .. BYTES /\ offset \in Nat /\ Len(buf[1]) \in Nat \ {0}
      /\ offset < Len(buf[1]) /\ credit \in Nat /\ arrived \in 0 .. BYTES
      /\ 1 \in 1 .. Len(buf) /\ Len(buf) \in Nat /\ buf \in Seq(Pbufs)
  BY PbufFacts DEF TypeOK
<1>2. Released = buf[1][1] - 1 /\ Copied = buf[1][1] - 1 + offset
  BY DEF Released, Copied
<1>3. CASE ~Emptied(size)
  <2>1. buf' = buf /\ credit' = credit /\ offset' = offset + size
    BY <1>3 DEF Consume
  <2>2. offset + size < Len(buf[1])
    BY <1>1, <1>3 DEF Emptied
  <2>3. Released' = Released /\ Copied' = Copied + size
    BY <1>1, <1>2, <2>1 DEF Released, Copied
  <2>4. Placed'
    BY <2>1, <2>3 DEF Placed
  <2> QED BY <1>1, <2>1, <2>2, <2>3, <2>4, CopiedFacts DEF Placed, TypeOK
<1>4. CASE Emptied(size)
  <2>1. buf' = Tail(buf) /\ offset' = 0 /\ credit' = credit + Credit
    BY <1>4 DEF Consume, FreeHead
  <2>2. size = Len(buf[1]) - offset
    BY <1>1, <1>4 DEF Emptied
  <2>3. /\ buf' \in Seq(Pbufs) /\ Len(buf') = Len(buf) - 1
        /\ \A k \in 1 .. Len(buf) - 1 : buf'[k] = buf[k + 1]
    BY <1>1, <2>1, HeadTailProperties
  <2>4. Released' = buf[1][1] + Len(buf[1]) - 1
    <3>1. CASE Len(buf) = 1
      <4>1. buf' = <<>>
        BY <2>3, <3>1, EmptySeq
      <4>2. buf[1][1] + Len(buf[1]) = arrived + 1
        BY <1>1, <3>1 DEF Placed
      <4> QED BY <1>1, <4>1, <4>2 DEF Released
    <3>2. CASE Len(buf) # 1
      <4>1. buf' # <<>> /\ buf'[1] = buf[2]
        BY <1>1, <2>3, <3>2, EmptySeq
      <4>2. buf[1][1] + Len(buf[1]) = IF 1 = Len(buf) THEN arrived + 1 ELSE buf[1 + 1][1]
        BY <1>1 DEF Placed
      <4>3. buf[1][1] + Len(buf[1]) = buf[2][1]
        BY <3>2, <4>2
      <4> QED BY <1>1, <4>1, <4>3 DEF Released
    <3> QED BY <3>1, <3>2
  <2>5. Copied' = Copied + size
    BY <1>1, <1>2, <2>1, <2>2, <2>4 DEF Copied
  <2>6. credit' <= Released' /\ (sock # "invalid" => credit' = Released') /\ credit' \in Nat
    <3>0. credit <= Released /\ (sock # "invalid" => credit = Released)
      BY DEF Placed
    <3>1. CASE sock = "open"
      <4>1. credit' = credit + Len(buf[1])
        BY <2>1, <3>1 DEF Credit
      <4>2. credit = buf[1][1] - 1
        BY <1>2, <3>0, <3>1
      <4>3. credit' = Released' /\ credit' \in Nat
        BY <1>1, <2>4, <4>1, <4>2
      <4> QED BY <4>3
    <3>2. CASE sock = "invalid"
      <4>1. credit' = credit + 0
        BY <2>1, <3>2 DEF Credit
      <4> QED BY <1>1, <1>2, <2>4, <3>0, <3>2, <4>1
    <3> QED BY <3>1, <3>2
  <2>7. ASSUME NEW k \in 1 .. Len(buf')
        PROVE  /\ \A j \in 1 .. Len(buf'[k]) : buf'[k][j] = buf'[k][1] + j - 1
               /\ buf'[k][1] + Len(buf'[k]) = IF k = Len(buf') THEN arrived + 1 ELSE buf'[k + 1][1]
               /\ buf'[k][1] + Len(buf'[k]) <= arrived + 1
    <3>1. k + 1 \in 1 .. Len(buf) /\ k \in 1 .. Len(buf) - 1
      BY <1>1, <2>3
    <3>2. buf'[k] = buf[k + 1] /\ (k # Len(buf') => buf'[k + 1] = buf[(k + 1) + 1])
      BY <1>1, <2>3, <3>1
    <3>3. k = Len(buf') <=> k + 1 = Len(buf)
      BY <1>1, <2>3, <3>1
    <3> QED BY <3>1, <3>2, <3>3 DEF Placed
  <2>8. Placed'
    BY <2>6, <2>7 DEF Placed
  <2>9. Released' <= arrived
    BY <1>1, <2>4 DEF Placed
  <2>10. buf' # <<>> => 0 < Len(buf'[1])
    <3>1. buf' # <<>> => buf'[1] \in Pbufs
      BY <2>3, EmptySeq, ElementOfSeq, LenProperties
    <3> QED BY <3>1, EmptySeq, LenProperties DEF Pbufs
  <2>11. credit' \in 0 .. BYTES
    BY <1>1, <2>4, <2>6, <2>9, LimitAssumption
  <2> QED BY <2>1, <2>3, <2>5, <2>8, <2>10, <2>11
<1> QED BY <1>3, <1>4

\* What a copy of CopySize bytes moves, and appends to the block.
LEMMA CopySizeFits ==
  ASSUME TypeOK, NEW c \in Contexts, buf # <<>>
  PROVE  /\ CopySize(c) \in Nat
         /\ CopySize(c) <= call[c].left /\ CopySize(c) <= Len(buf[1]) - offset
         /\ call[c].left > 0 => CopySize(c) > 0
<1>1. offset < Len(buf[1]) /\ offset \in Nat /\ Len(buf[1]) \in Nat
  BY PbufFacts DEF TypeOK
<1>2. call[c].left \in Nat
  BY LimitAssumption DEF TypeOK, Calls
<1>3. Len(buf[1]) - offset \in Nat /\ Len(buf[1]) - offset > 0
  BY <1>1
<1> HIDE DEF CopySize
<1> QED BY <1>2, <1>3, MinOfTwo DEF CopySize

LEMMA CopiedBytes ==
  ASSUME TypeOK, Placed, buf # <<>>, NEW size \in Nat, size <= Len(buf[1]) - offset,
         NEW got \in Seq(1 .. BYTES),
         \A k \in 1 .. Len(got) : got[k] = Copied - Len(got) + k
  PROVE  LET more == got \o SubSeq(buf[1], offset + 1, offset + size)
         IN  /\ more \in Seq(1 .. BYTES)
             /\ Len(more) = Len(got) + size
             /\ \A k \in 1 .. Len(more) : more[k] = Copied - Len(got) + k
<1> DEFINE part == SubSeq(buf[1], offset + 1, offset + size)
           more == got \o part
<1>1. /\ buf[1] \in Seq(1 .. BYTES) /\ Len(buf[1]) \in Nat /\ offset \in Nat
      /\ buf[1][1] \in 1 .. BYTES /\ Len(got) \in Nat
      /\ \A j \in 1 .. Len(buf[1]) : buf[1][j] \in 1 .. BYTES /\ buf[1][j] = buf[1][1] + j - 1
  BY PbufFacts, ElementOfSeq, LenProperties DEF Placed
<1>2. Copied = buf[1][1] - 1 + offset
  BY DEF Copied, Released
<1>3. /\ part \in Seq(1 .. BYTES) /\ Len(part) = size
      /\ \A i \in 1 .. size : part[i] = buf[1][offset + i]
  <2>1. /\ offset + 1 \in Int /\ offset + size \in Int
        /\ \A i \in offset + 1 .. offset + size : buf[1][i] \in 1 .. BYTES
    BY <1>1
  <2>2. /\ part \in Seq(1 .. BYTES)
        /\ Len(part) = IF offset + 1 <= offset + size THEN (offset + size) - (offset + 1) + 1 ELSE 0
        /\ \A i \in 1 .. (offset + size) - (offset + 1) + 1 : part[i] = buf[1][(offset + 1) + i - 1]
    <3> HIDE DEF part
    <3> QED BY <2>1, SubSeqProperties DEF part
  <2> HIDE DEF part
  <2> QED BY <1>1, <2>2
<1> HIDE DEF part
<1>4. /\ more \in Seq(1 .. BYTES) /\ Len(more) = Len(got) + size
      /\ \A i \in 1 .. Len(got) + size :
           more[i] = IF i <= Len(got) THEN got[i] ELSE part[i - Len(got)]
  BY <1>3, ConcatProperties
<1>5. ASSUME NEW k \in 1 .. Len(got) + size
      PROVE  more[k] = Copied - Len(got) + k
  <2>0. k \in Nat /\ k > 0 /\ k <= Len(got) + size
    BY <1>1
  <2>1. CASE k <= Len(got)
    <3>1. k \in 1 .. Len(got) /\ more[k] = got[k]
      BY <1>1, <1>4, <2>0, <2>1
    <3> QED BY <3>1
  <2>2. CASE ~(k <= Len(got))
    <3>1. k - Len(got) \in 1 .. size /\ offset + (k - Len(got)) \in 1 .. Len(buf[1])
      BY <1>1, <2>2
    <3>2. more[k] = buf[1][offset + (k - Len(got))]
      BY <1>1, <1>3, <1>4, <2>2, <3>1
    <3>3. buf[1][offset + (k - Len(got))] = buf[1][1] + (offset + (k - Len(got))) - 1
      BY <1>1, <3>1
    <3> QED BY <1>1, <1>2, <3>2, <3>3
  <2> QED BY <1>1, <2>1, <2>2
<1> QED BY <1>4, <1>5 DEF part

\* A segment that arrives goes behind the others.
LEMMA SegmentPlaced ==
  ASSUME TypeOK, Placed, NEW n \in 1 .. BYTES, arrived + n <= BYTES, arrived' = arrived + n,
         buf' = Append(buf, [k \in 1 .. n |-> arrived + k]),
         offset' = offset, credit' = credit, sock' = sock
  PROVE  /\ buf' \in Seq(Pbufs)
         /\ offset' \in Nat /\ (buf' = <<>> => offset' = 0) /\ (buf' # <<>> => offset' < Len(buf'[1]))
         /\ Placed' /\ Copied' = Copied /\ buf' # <<>>
<1> DEFINE x == [k \in 1 .. n |-> arrived + k]
<1>1. n \in Nat \ {0} /\ arrived \in Nat /\ offset \in Nat /\ Len(buf) \in Nat /\ buf \in Seq(Pbufs)
  BY PbufFacts, LimitAssumption
<1>2. /\ x \in Seq(1 .. BYTES) /\ Len(x) = n /\ x[1] = arrived + 1
      /\ \A j \in 1 .. n : x[j] = arrived + j
  <2>1. \A k \in 1 .. n : arrived + k \in 1 .. BYTES
    BY <1>1, LimitAssumption
  <2> QED BY <1>1, <2>1, IsASeq, LenProperties
<1> HIDE DEF x
<1>3. x \in Pbufs
  BY <1>1, <1>2, EmptySeq DEF Pbufs
<1>4. /\ buf' \in Seq(Pbufs) /\ Len(buf') = Len(buf) + 1
      /\ \A k \in 1 .. Len(buf) : buf'[k] = buf[k]
      /\ buf'[Len(buf) + 1] = x
  BY <1>1, <1>3, AppendProperties DEF x
<1>5. buf' # <<>>
  BY <1>1, <1>4, EmptySeq
<1>6. Released' = Released /\ offset' < Len(buf'[1])
  <2>1. CASE buf = <<>>
    <3>1. Len(buf) = 0 /\ buf'[1] = x /\ offset = 0
      BY <1>4, <2>1, EmptySeq DEF TypeOK
    <3> QED BY <1>1, <1>2, <1>5, <2>1, <3>1 DEF Released
  <2>2. CASE buf # <<>>
    <3>1. buf'[1] = buf[1] /\ offset < Len(buf[1])
      BY <1>4, <2>2, PbufFacts DEF TypeOK
    <3> QED BY <1>5, <2>2, <3>1 DEF Released
  <2> QED BY <2>1, <2>2
<1>7. Copied' = Copied
  BY <1>6 DEF Copied
<1>8. ASSUME NEW k \in 1 .. Len(buf')
      PROVE  /\ \A j \in 1 .. Len(buf'[k]) : buf'[k][j] = buf'[k][1] + j - 1
             /\ buf'[k][1] + Len(buf'[k]) = IF k = Len(buf') THEN arrived' + 1 ELSE buf'[k + 1][1]
             /\ buf'[k][1] + Len(buf'[k]) <= arrived' + 1
  <2>1. CASE k = Len(buf) + 1
    BY <1>1, <1>2, <1>4, <2>1
  <2>2. CASE k # Len(buf) + 1
    <3>1. k \in 1 .. Len(buf) /\ buf'[k] = buf[k]
      BY <1>1, <1>4, <2>2
    <3>2. /\ \A j \in 1 .. Len(buf[k]) : buf[k][j] = buf[k][1] + j - 1
          /\ buf[k][1] + Len(buf[k]) = IF k = Len(buf) THEN arrived + 1 ELSE buf[k + 1][1]
          /\ buf[k][1] + Len(buf[k]) <= arrived + 1
      BY <3>1 DEF Placed
    <3>3. buf'[k + 1][1] = IF k = Len(buf) THEN arrived + 1 ELSE buf[k + 1][1]
      <4>1. CASE k = Len(buf)
        BY <1>2, <1>4, <4>1
      <4>2. CASE k # Len(buf)
        <5>1. k + 1 \in 1 .. Len(buf)
          BY <1>1, <3>1, <4>2
        <5> QED BY <1>4, <4>2, <5>1
      <4> QED BY <4>1, <4>2
    <3>4. buf[k][1] + Len(buf[k]) <= arrived' + 1
      <4>1. buf[k][1] \in Nat /\ Len(buf[k]) \in Nat
        BY <3>1, PbufFacts
      <4> QED BY <1>1, <3>2, <4>1
    <3> QED BY <1>1, <1>4, <3>1, <3>2, <3>3, <3>4, <2>2
  <2> QED BY <2>1, <2>2
<1>9. Placed'
  BY <1>6, <1>8 DEF Placed
<1> QED BY <1>1, <1>4, <1>5, <1>6, <1>7, <1>9

\* What RecvCopy does to the call and the buffer when there is something to copy.
LEMMA CopyFacts ==
  ASSUME TypeOK, Placed, Blocks, NEW c \in Contexts, RecvCopy(c), buf # <<>>
  PROVE  /\ buf' \in Seq(Pbufs)
         /\ offset' \in Nat /\ (buf' = <<>> => offset' = 0) /\ (buf' # <<>> => offset' < Len(buf'[1]))
         /\ credit' \in 0 .. BYTES /\ Placed'
         /\ \E size \in Nat, got \in Seq(1 .. BYTES) :
              /\ 0 < size /\ size <= call[c].left
              /\ call' = [call EXCEPT ![c] = [call[c] EXCEPT !.at = "recv",
                                                !.left = call[c].left - size, !.got = got]]
              /\ Len(got) = Len(call[c].got) + size
              /\ \A k \in 1 .. Len(got) : got[k] = Copied - Len(call[c].got) + k
              /\ Copied' = Copied + size
<1> DEFINE size == CopySize(c)
           got == call[c].got \o SubSeq(buf[1], offset + 1, offset + size)
<1>1. /\ call[c].at = "copy" /\ Receiving(c) /\ Consume(size)
      /\ call' = [call EXCEPT ![c].at = "recv", ![c].left = @ - size, ![c].got = got]
      /\ arrived' = arrived /\ sock' = sock
  BY DEF RecvCopy, At, Receiving, sockVars, lwipVars
<1>2. /\ call[c].left > 0 /\ sock \in {"open", "invalid"}
      /\ \A k \in 1 .. Len(call[c].got) : call[c].got[k] = Copied - Len(call[c].got) + k
  BY <1>1 DEF Blocks, Block
<1>3. size \in Nat /\ 0 < size /\ size <= call[c].left /\ size <= Len(buf[1]) - offset
  BY <1>2, CopySizeFits
<1>4. call[c] \in Calls /\ call[c].got \in Seq(1 .. BYTES)
  BY DEF TypeOK, Calls
<1> HIDE DEF size
<1>5. /\ buf' \in Seq(Pbufs)
      /\ offset' \in Nat /\ (buf' = <<>> => offset' = 0) /\ (buf' # <<>> => offset' < Len(buf'[1]))
      /\ credit' \in 0 .. BYTES /\ Placed' /\ Copied' = Copied + size
  BY <1>1, <1>2, <1>3, ConsumeMoves
<1>6. /\ got \in Seq(1 .. BYTES) /\ Len(got) = Len(call[c].got) + size
      /\ \A k \in 1 .. Len(got) : got[k] = Copied - Len(call[c].got) + k
  BY <1>2, <1>3, <1>4, CopiedBytes
<1> HIDE DEF got
<1>7. call' = [call EXCEPT ![c] = [call[c] EXCEPT !.at = "recv", !.left = call[c].left - size,
                                                   !.got = got]]
  BY <1>1, <1>4 DEF TypeOK
<1> QED BY <1>3, <1>5, <1>6, <1>7

LEMMA RecvTyped ==
  ASSUME TypeOK, Placed, Blocks, NEW c \in Contexts,
         \/ \E n \in 1 .. MAXLEN : Recv(c, n)
         \/ RecvDone(c) \/ RecvFails(c) \/ RecvWait(c) \/ RecvCopy(c)
  PROVE  TypeOK'
<1> USE DEF vars, sockVars, bufVars, userVars, lwipVars
<1>0. call[c] \in Calls /\ call[c].got \in Seq(1 .. BYTES) /\ call[c].left \in Nat
      /\ outcome \in [block : Seq(1 .. BYTES), failed : BOOLEAN]
  <2>1. call[c] \in Calls /\ outcome \in [block : Seq(1 .. BYTES), failed : BOOLEAN]
    BY DEF TypeOK
  <2> QED BY <2>1, LimitAssumption DEF Calls
<1>1. ASSUME NEW n \in 1 .. MAXLEN, Recv(c, n) PROVE TypeOK'
  <2>1. cpu' = c /\ call' \in [Contexts -> Calls]
    <3>1. Enter(c, "recv", n) /\ n \in 0 .. MAXLEN
      BY <1>1, LimitAssumption DEF Recv
    <3> QED BY <3>1, EnterTyped
  <2> QED BY <1>1, <2>1 DEF Recv, TypeOK
<1>2. CASE RecvDone(c)
  <2>1. cpu' \in Contexts \cup {NoId} /\ call' \in [Contexts -> Calls]
    BY <1>2, MovesTyped DEF RecvDone
  <2>2. outcome' \in [block : Seq(1 .. BYTES), failed : BOOLEAN]
    BY <1>0, <1>2 DEF RecvDone
  <2> QED BY <1>2, <2>1, <2>2 DEF RecvDone, TypeOK
<1>3. CASE RecvFails(c)
  <2>1. cpu' \in Contexts \cup {NoId} /\ call' \in [Contexts -> Calls]
    BY <1>3, MovesTyped DEF RecvFails
  <2>2. outcome' \in [block : Seq(1 .. BYTES), failed : BOOLEAN]
    BY <1>3 DEF RecvFails
  <2> QED BY <1>3, <2>1, <2>2 DEF RecvFails, TypeOK
<1>4. CASE RecvWait(c)
  <2>1. cpu' \in Contexts \cup {NoId} /\ call' \in [Contexts -> Calls]
    BY <1>4, MovesTyped DEF RecvWait
  <2>2. waiter' \in [{"connect", "recv", "send"} -> Contexts \cup {NoId}]
    BY <1>4 DEF RecvWait, Register, TypeOK
  <2> QED BY <1>4, <2>1, <2>2 DEF RecvWait, TypeOK
<1>5. CASE RecvCopy(c) /\ buf = <<>>
  <2>1. cpu' \in Contexts \cup {NoId} /\ call' \in [Contexts -> Calls]
    BY <1>5, MovesTyped DEF RecvCopy
  <2> QED BY <1>5, <2>1 DEF RecvCopy, TypeOK
<1>6. CASE RecvCopy(c) /\ buf # <<>>
  <2>1. /\ buf' \in Seq(Pbufs)
        /\ offset' \in Nat /\ (buf' = <<>> => offset' = 0) /\ (buf' # <<>> => offset' < Len(buf'[1]))
        /\ credit' \in 0 .. BYTES
    BY <1>6, CopyFacts
  <2>2. PICK size \in Nat, got \in Seq(1 .. BYTES) :
          /\ 0 < size /\ size <= call[c].left
          /\ call' = [call EXCEPT ![c] = [call[c] EXCEPT !.at = "recv",
                                            !.left = call[c].left - size, !.got = got]]
          /\ Len(got) = Len(call[c].got) + size
          /\ \A k \in 1 .. Len(got) : got[k] = Copied - Len(call[c].got) + k
          /\ Copied' = Copied + size
    BY <1>6, CopyFacts
  <2>3. call[c].left - size \in 0 .. MAXLEN
    <3>1. call[c].left \in 0 .. MAXLEN
      BY <1>0 DEF Calls
    <3>2. \A l \in 0 .. MAXLEN, s \in Nat : s <= l => l - s \in 0 .. MAXLEN
      BY LimitAssumption
    <3>3. size <= call[c].left
      BY <2>2
    <3> QED BY <3>1, <3>2, <3>3
  <2>4. [call[c] EXCEPT !.at = "recv", !.left = call[c].left - size, !.got = got] \in Calls
    <3>1. \A r \in Calls, l \in 0 .. MAXLEN, g \in Seq(1 .. BYTES) :
            [r EXCEPT !.at = "recv", !.left = l, !.got = g] \in Calls
      BY DEF Calls
    <3> QED BY <1>0, <2>3, <3>1
  <2>5. call' \in [Contexts -> Calls]
    BY <2>2, <2>4 DEF TypeOK
  <2> QED BY <1>6, <2>1, <2>5 DEF RecvCopy, TypeOK, Pbufs
<1> QED BY <1>1, <1>2, <1>3, <1>4, <1>5, <1>6

\* ... and so do lwIP's.
LEMMA ResumeFirstTyped ==
  ASSUME TypeOK, ResumeFirst
  PROVE  waiter' \in [{"connect", "recv", "send"} -> Contexts \cup {NoId}] /\ woken' \subseteq Contexts
BY ResumeTyped DEF ResumeFirst

LEMMA LwipTyped ==
  ASSUME TypeOK, Placed, LwipStep
  PROVE  TypeOK'
<1> USE DEF vars, sockVars, bufVars, userVars, lwipVars
<1>1. ASSUME NEW l \in lookups, DnsFound(l) PROVE TypeOK'
  BY <1>1 DEF DnsFound, TypeOK
<1>2. CASE OnConnect
  BY <1>2, ResumeTyped DEF OnConnect, TypeOK
<1>3. ASSUME NEW n \in 1 .. SNDBUF, OnTCPSent(n) PROVE TypeOK'
  <2>1. unacked - n \in 0 .. SNDBUF /\ unacked - n <= Len(wire) /\ n \in 0 .. SNDBUF
    <3>1. wire \in Seq(Senders \X (1 .. SENDS)) /\ unacked \in 0 .. SNDBUF /\ unacked <= Len(wire)
      BY DEF TypeOK
    <3>2. Len(wire) \in Nat
      BY <3>1, LenProperties
    <3>3. n <= unacked
      BY <1>3 DEF OnTCPSent
    <3> QED BY <3>1, <3>2, <3>3, LimitAssumption
  <2> QED BY <1>3, <2>1, ResumeTyped DEF OnTCPSent, TypeOK
<1>4. ASSUME NEW n \in 1 .. BYTES, OnTCPRecv(n) PROVE TypeOK'
  <2>1. /\ buf' \in Seq(Pbufs)
        /\ offset' \in Nat /\ (buf' = <<>> => offset' = 0) /\ (buf' # <<>> => offset' < Len(buf'[1]))
    BY <1>4, SegmentPlaced DEF OnTCPRecv
  <2>2. arrived' \in 0 .. BYTES
    BY <1>4, LimitAssumption DEF OnTCPRecv, TypeOK
  <2> QED BY <1>4, <2>1, <2>2, ResumeTyped DEF OnTCPRecv, TypeOK, Pbufs
<1>5. CASE OnTCPFin
  BY <1>5, ResumeTyped DEF OnTCPFin, TypeOK
<1>6. CASE OnError
  BY <1>6, ResumeFirstTyped DEF OnError, TypeOK
<1>7. CASE OnSendError
  BY <1>7, ResumeFirstTyped DEF OnSendError, TypeOK
<1>8. CASE Close
  BY <1>8 DEF Close, TypeOK
<1> QED BY <1>1, <1>2, <1>3, <1>4, <1>5, <1>6, <1>7, <1>8 DEF LwipStep

----------------------------------------------------------------------------
(***************************************************************************)
(* One context moves at a time, lwIP only while none does.                 *)
(***************************************************************************)
LEMMA OneMoves ==
  ASSUME TypeOK, NEW c \in Contexts, UserStep(c)
  PROVE  /\ cpu \in {c, NoId} /\ cpu' \in {c, NoId}
         /\ \A d \in Contexts \ {c} : call'[d] = call[d] /\ tally'[d] = tally[d]
<1> USE DEF vars, sockVars, bufVars, userVars, lwipVars
<1> DEFINE Alone == /\ cpu \in {c, NoId} /\ cpu' \in {c, NoId}
                    /\ \A d \in Contexts \ {c} : call'[d] = call[d] /\ tally'[d] = tally[d]
<1>0. call \in [Contexts -> Calls] /\ tally \in [Contexts -> [calls : 0 .. SENDS, told : Nat]]
  BY DEF TypeOK
<1>1. CASE Run(c) \/ Bind(c) \/ Connect(c)
  BY <1>0, <1>1 DEF Run, Bind, Connect, Enter, Park, Lwip
<1>2. CASE Resolve(c) \/ Dial(c) \/ Bound(c) \/ Dialled(c)
  BY <1>0, <1>2 DEF Resolve, Dial, Bound, Dialled, At, Goto, Park, Return
<1>3. CASE SendTurn(c) \/ SendDone(c) \/ SendFails(c) \/ SendWait(c)
  BY <1>0, <1>3 DEF SendTurn, SendDone, SendFails, SendWait, At, Goto, Park, Return, Tell
<1>4. CASE SendWrite(c)
  <2>1. \E x : call' = [call EXCEPT ![c] = x]
    BY <1>4 DEF SendWrite
  <2> QED BY <1>0, <1>4, <2>1 DEF SendWrite, At
<1>5. CASE RecvDone(c) \/ RecvFails(c) \/ RecvWait(c)
  BY <1>0, <1>5 DEF RecvDone, RecvFails, RecvWait, At, Goto, Park, Return
<1>6. CASE RecvCopy(c)
  <2>1. \E x : call' = [call EXCEPT ![c] = x]
    BY <1>6 DEF RecvCopy, Goto
  <2> QED BY <1>0, <1>6, <2>1 DEF RecvCopy, At, Goto
<1>7. ASSUME NEW n \in 1 .. MAXLEN, Send(c, n) \/ Recv(c, n) PROVE Alone
  BY <1>0, <1>7 DEF Send, Recv, Enter, Lwip
<1> QED BY <1>1, <1>2, <1>3, <1>4, <1>5, <1>6, <1>7 DEF UserStep

LEMMA LwipMoves ==
  ASSUME LwipStep
  PROVE  cpu = NoId /\ UNCHANGED <<call, cpu, tally, outcome, offset, credit>>
<1> USE DEF vars, sockVars, bufVars, userVars, lwipVars
<1> QED BY DEF LwipStep, DnsFound, OnConnect, OnTCPSent, OnTCPRecv, OnTCPFin, OnError,
               OnSendError, Close, Lwip

\* Where a step leaves its context's call.
Stays(c, p) ==
  /\ call'[c].at = p /\ call'[c].len = call[c].len /\ call'[c].left = call[c].left
  /\ call'[c].chunk = call[c].chunk /\ call'[c].got = call[c].got

LEMMA AfterMove ==
  ASSUME TypeOK, NEW c \in Contexts
  PROVE  /\ \A p : Goto(c, p) => Stays(c, p) /\ cpu' = cpu
         /\ \A p : Park(c, p) => Stays(c, p) /\ cpu' = NoId
         /\ Return(c) => call'[c] = Idle /\ cpu' = NoId
<1>1. call \in [Contexts -> Calls] /\ call[c] \in Calls
  BY DEF TypeOK
<1>2. \A p : call' = [call EXCEPT ![c].at = p] => Stays(c, p)
  BY <1>1 DEF Stays, Calls
<1> QED BY <1>1, <1>2 DEF Goto, Park, Return

LEMMA AfterEnter ==
  ASSUME TypeOK, NEW c \in Contexts, NEW p, NEW n, Enter(c, p, n)
  PROVE  /\ call[c].at = "idle" /\ cpu = NoId /\ cpu' = c
         /\ call'[c].at = p /\ call'[c].len = n /\ call'[c].left = n /\ call'[c].got = <<>>
BY DEF Enter, TypeOK, Lwip

LEMMA RolesKept ==
  ASSUME TypeOK, Roles, Next
  PROVE  Roles'
<1> USE DEF vars, sockVars, bufVars, userVars, lwipVars
<1>1. CASE LwipStep
  <2>1. ASSUME NEW d \in Contexts PROVE Role(d)'
    <3>1. Role(d) /\ cpu # d
      BY <1>1, LwipMoves, ContextAssumption DEF Roles
    <3> QED BY <1>1, <3>1, LwipMoves DEF Role, Receiving
  <2> QED BY <2>1 DEF Roles
<1>2. ASSUME NEW c \in Contexts, UserStep(c) PROVE Roles'
  <2>0. /\ call \in [Contexts -> Calls] /\ call[c] \in Calls
        /\ tally \in [Contexts -> [calls : 0 .. SENDS, told : Nat]] /\ tally[c].calls \in Nat
        /\ Role(c)
    BY DEF TypeOK, Roles
  <2>1. ASSUME NEW d \in Contexts \ {c} PROVE Role(d)'
    <3>1. Role(d) /\ cpu # d
      BY <1>2, OneMoves, ContextAssumption DEF Roles
    <3>2. call'[d] = call[d] /\ tally'[d] = tally[d]
      BY <1>2, OneMoves
    <3> QED BY <3>1, <3>2 DEF Role, Receiving
  <2>2. Role(c)'
    <3> USE DEF Role, Receiving, Stays
    <3>1. CASE Run(c)
      BY <2>0, <3>1 DEF Run
    <3>2. CASE Bind(c)
      <4>1. call'[c].at = "bound" /\ c \in Dialers
        BY <3>2, AfterMove DEF Bind
      <4> QED BY <4>1
    <3>10. CASE Connect(c)
      <4>1. Enter(c, "connect", 0) /\ c \in Dialers /\ sock' = "new"
        BY <3>10 DEF Connect
      <4> QED BY <4>1, AfterEnter
    <3>3. CASE Resolve(c) \/ Dial(c) \/ Bound(c) \/ Dialled(c)
      BY <2>0, <3>3, AfterMove DEF Resolve, Dial, Bound, Dialled, At, Idle
    <3>4. CASE SendTurn(c) \/ SendDone(c) \/ SendFails(c) \/ SendWait(c)
      <4>1. call[c].at \in {"turn", "write", "sent"} /\ cpu = c /\ tally'[c].calls = tally[c].calls
        BY <2>0, <3>4 DEF SendTurn, SendDone, SendFails, SendWait, At, Tell
      <4> QED BY <2>0, <3>4, <4>1, AfterMove DEF SendTurn, SendDone, SendFails, SendWait, Idle
    <3>5. CASE SendWrite(c)
      <4>1. call'[c].at = "sent"
        BY <2>0, <3>5 DEF SendWrite, Calls
      <4> QED BY <2>0, <3>5, <4>1 DEF SendWrite, At
    <3>6. CASE RecvDone(c) \/ RecvFails(c) \/ RecvWait(c)
      BY <2>0, <3>6, AfterMove DEF RecvDone, RecvFails, RecvWait, At, Idle
    <3>7. CASE RecvCopy(c)
      <4>1. call'[c].at = "recv"
        BY <2>0, <3>7, AfterMove DEF RecvCopy, Calls
      <4> QED BY <2>0, <3>7, <4>1 DEF RecvCopy, At
    <3>8. ASSUME NEW n \in 1 .. MAXLEN, Send(c, n) PROVE Role(c)'
      <4>1. Enter(c, "turn", n) /\ c \in Senders /\ tally'[c].calls = tally[c].calls + 1
        BY <2>0, <3>8 DEF Send
      <4>2. call'[c].at = "turn"
        BY <4>1, AfterEnter
      <4> QED BY <2>0, <4>1, <4>2
    <3>9. ASSUME NEW n \in 1 .. MAXLEN, Recv(c, n) PROVE Role(c)'
      <4>1. Enter(c, "recv", n) /\ c \in Readers
        BY <3>9 DEF Recv
      <4>2. call'[c].at = "recv"
        BY <4>1, AfterEnter
      <4> QED BY <4>1, <4>2
    <3> QED BY <1>2, <3>1, <3>2, <3>10, <3>3, <3>4, <3>5, <3>6, <3>7, <3>8, <3>9 DEF UserStep
  <2> QED BY <2>1, <2>2 DEF Roles
<1> QED BY <1>1, <1>2 DEF Next

LEMMA RoomsKept ==
  ASSUME TypeOK, Roles, Rooms, Next
  PROVE  Rooms'
<1> USE DEF vars, sockVars, bufVars, userVars, lwipVars
<1>0. /\ unacked \in Nat /\ unacked <= SNDBUF /\ SNDBUF \in Nat /\ SNDBUF > 0 /\ sentSize \in Nat
      /\ sock \in {"new", "connecting", "open", "invalid"}
      /\ waiter \in [{"connect", "recv", "send"} -> Contexts \cup {NoId}]
  BY LimitAssumption DEF TypeOK
<1>1. CASE LwipStep
  <2>1. cpu = NoId /\ cpu' = NoId /\ call' = call /\ \A d \in Contexts : call[d].at # "write"
    BY <1>1, LwipMoves, ContextAssumption DEF Roles, Role
  <2>2. sock = "open" => unacked < SNDBUF \/ (sentSize = 0 /\ waiter.send # NoId)
    BY <1>0, <2>1, ContextAssumption DEF Rooms
  <2>3. \A d \in Contexts : call'[d].at = "sent" => call'[d].chunk > 0
    BY <2>1 DEF Rooms
  <2>4. ASSUME NEW n \in 1 .. SNDBUF, OnTCPSent(n) PROVE Rooms'
    <3>1. unacked' < SNDBUF /\ sock' = "open"
      BY <1>0, <2>4 DEF OnTCPSent
    <3> QED BY <2>1, <2>3, <3>1 DEF Rooms
  <2>5. CASE OnConnect
    <3>1. unacked' < SNDBUF /\ sock' = "open"
      BY <1>0, <2>5 DEF OnConnect, Rooms
    <3> QED BY <2>1, <2>3, <3>1 DEF Rooms
  <2>6. ASSUME NEW n \in 1 .. BYTES, OnTCPRecv(n) PROVE Rooms'
    <3>1. UNCHANGED <<sock, unacked, sentSize>> /\ waiter'.send = waiter.send
      BY <1>0, <2>6 DEF OnTCPRecv, Resume, Register
    <3> QED BY <2>1, <2>2, <2>3, <3>1 DEF Rooms
  <2>7. ASSUME sock' = "invalid" \/ UNCHANGED <<sock, unacked, sentSize, waiter>> PROVE Rooms'
    BY <2>1, <2>2, <2>3, <2>7 DEF Rooms
  <2>8. CASE OnTCPFin \/ OnError \/ OnSendError \/ Close
    BY <2>7, <2>8 DEF OnTCPFin, OnError, OnSendError, Close
  <2>9. ASSUME NEW l \in lookups, DnsFound(l) PROVE Rooms'
    BY <2>7, <2>9 DEF DnsFound
  <2> QED BY <1>1, <2>4, <2>5, <2>6, <2>8, <2>9 DEF LwipStep
<1>2. ASSUME NEW c \in Contexts, UserStep(c) PROVE Rooms'
  <2>0. call \in [Contexts -> Calls] /\ call[c] \in Calls /\ Role(c)
    BY DEF TypeOK, Roles
  <2>1. \A d \in Contexts \ {c} : call'[d] = call[d] /\ call[d].at # "write" /\ cpu # d
    BY <1>2, OneMoves, ContextAssumption DEF Roles, Role
  <2>2. \A d \in Contexts \ {c} :
          /\ call'[d].at = "write" /\ sock' = "open" /\ call'[d].left > 0 => unacked' < SNDBUF
          /\ call'[d].at = "sent" => call'[d].chunk > 0
    BY <2>1 DEF Rooms
  <2>3. CASE SendWrite(c)
    <3>1. /\ sentSize' = 0 /\ cpu' = c /\ call'[c].at = "sent" /\ sock' = "open"
          /\ call'[c].chunk = Min({Room, call[c].left})
      <4>1. call' = [call EXCEPT ![c] = [call[c] EXCEPT !.at = "sent",
                       !.chunk = Min({Room, call[c].left}),
                       !.left = call[c].left - Min({Room, call[c].left})]]
        BY <2>0, <2>3 DEF SendWrite
      <4>2. call'[c] = [call[c] EXCEPT !.at = "sent",
                       !.chunk = Min({Room, call[c].left}),
                       !.left = call[c].left - Min({Room, call[c].left})]
        BY <2>0, <4>1
      <4> HIDE DEF Room
      <4>3. call'[c].at = "sent" /\ call'[c].chunk = Min({Room, call[c].left})
        BY <2>0, <4>2 DEF Calls
      <4> QED BY <2>3, <4>3 DEF SendWrite, At
    <3>2. call[c].at = "write" /\ call[c].left > 0 /\ sock = "open"
      BY <2>3 DEF SendWrite, At
    <3>3. call'[c].chunk > 0
      BY <3>1, <3>2, ChunkFits DEF Rooms
    <3> QED BY <2>2, <3>1, <3>3 DEF Rooms
  <2>4. CASE SendWait(c)
    <3>1. /\ call[c].at = "sent" /\ call[c].chunk > 0 /\ call[c].chunk \in Nat
          /\ UNCHANGED <<sock, unacked, sentSize>>
      BY <2>0, <2>4, LimitAssumption DEF SendWait, At, Rooms, Calls
    <3>2. CASE sentSize # call[c].chunk /\ sock = "open"
      <4>1. Stays(c, "sent") /\ waiter'.send = c
        BY <1>0, <2>4, <3>2, AfterMove DEF SendWait, Register
      <4> QED BY <2>2, <3>1, <3>2, <4>1, ContextAssumption DEF Rooms, Stays
    <3>3. CASE ~(sentSize # call[c].chunk /\ sock = "open")
      <4>1. Stays(c, "write") /\ (sock = "open" => unacked < SNDBUF) /\ waiter' = waiter
        BY <2>4, <3>1, <3>3, AfterMove DEF SendWait, Rooms
      <4> QED BY <1>0, <2>2, <3>1, <4>1 DEF Rooms, Stays
    <3> QED BY <3>2, <3>3
  <2>5. CASE SendTurn(c)
    <3>1. /\ call[c].at = "turn" /\ UNCHANGED <<sock, unacked, sentSize, waiter>>
          /\ call'[c].at \in {"turn", "write"}
          /\ call'[c].at = "write" => waiter.send = NoId \/ sock # "open"
      BY <2>5, AfterMove DEF SendTurn, At, OthersTurn, Stays
    <3>2. sock = "open" /\ waiter.send = NoId => unacked < SNDBUF
      BY <1>0, <2>1, <3>1 DEF Rooms
    <3> QED BY <2>2, <3>1, <3>2 DEF Rooms
  <2>6. ASSUME call[c].at # "sent" \/ cpu # c, call'[c].at \notin {"write", "sent"},
               UNCHANGED <<unacked, sentSize>>, waiter'.send = waiter.send,
               sock' = sock \/ (sock' = "connecting" /\ sock = "new")
        PROVE  Rooms'
    <3>1. sock = "open" /\ sentSize = 0 /\ waiter.send = NoId => unacked < SNDBUF
      BY <2>1, <2>6 DEF Rooms
    <3> QED BY <2>2, <2>6, <3>1 DEF Rooms
  <2>7. CASE Run(c)
    <3>1. cpu = NoId /\ call' = call /\ UNCHANGED <<sock, unacked, sentSize, waiter>>
      BY <2>7 DEF Run, Lwip
    <3>2. call[c].at # "write"
      BY <2>0, <3>1, ContextAssumption DEF Role
    <3>3. sock = "open" /\ sentSize = 0 /\ waiter.send = NoId => unacked < SNDBUF
      BY <3>1, ContextAssumption DEF Rooms
    <3> QED BY <2>2, <3>1, <3>2, <3>3 DEF Rooms
  <2>8. CASE Bind(c) \/ Resolve(c) \/ Dial(c) \/ Bound(c) \/ Dialled(c)
    <3>1. call[c].at # "sent" /\ UNCHANGED <<unacked, sentSize>>
          /\ (sock' = sock \/ (sock' = "connecting" /\ sock = "new"))
      BY <2>8 DEF Bind, Resolve, Dial, Bound, Dialled, At
    <3>2. waiter'.send = waiter.send
      BY <1>0, <2>8 DEF Bind, Resolve, Dial, Bound, Dialled, Register
    <3>3. call'[c].at \notin {"write", "sent"}
      <4>1. CASE Dial(c) \/ Bound(c)
        BY <4>1, AfterMove DEF Dial, Bound, At, Stays, Idle
      <4> QED BY <2>8, <4>1, AfterMove DEF Bind, Resolve, Dialled, Stays, Idle
    <3> QED BY <2>6, <3>1, <3>2, <3>3
  <2>9. CASE SendDone(c) \/ SendFails(c) \/ RecvDone(c) \/ RecvFails(c)
    <3>1. call[c].at # "sent" /\ UNCHANGED <<unacked, sentSize, waiter, sock>> /\ Return(c)
      BY <2>9 DEF SendDone, SendFails, RecvDone, RecvFails, At
    <3> QED BY <2>6, <3>1, AfterMove DEF Idle
  <2>10. CASE RecvWait(c)
    <3>1. call[c].at # "sent" /\ UNCHANGED <<unacked, sentSize, sock>> /\ Stays(c, "copy")
          /\ waiter'.send = waiter.send
      BY <1>0, <2>10, AfterMove DEF RecvWait, At, Register
    <3> QED BY <2>6, <3>1 DEF Stays
  <2>11. CASE RecvCopy(c)
    <3>1. call[c].at # "sent" /\ UNCHANGED <<unacked, sentSize, waiter, sock>>
      BY <2>11 DEF RecvCopy, At
    <3>2. call'[c].at = "recv"
      BY <2>0, <2>11, AfterMove DEF RecvCopy, Calls, Stays
    <3> QED BY <2>6, <3>1, <3>2
  <2>12. ASSUME NEW p \in {"connect", "turn", "recv"}, NEW n, Enter(c, p, n),
                UNCHANGED <<sock, unacked, sentSize, waiter>>
         PROVE  Rooms'
    BY <2>6, <2>12, AfterEnter
  <2>13. CASE Connect(c)
    BY <2>12, <2>13 DEF Connect
  <2>14. ASSUME NEW n \in 1 .. MAXLEN, Send(c, n) \/ Recv(c, n) PROVE Rooms'
    <3>1. (Enter(c, "turn", n) \/ Enter(c, "recv", n)) /\ UNCHANGED <<sock, unacked, sentSize, waiter>>
      BY <2>14 DEF Send, Recv
    <3> QED BY <2>12, <3>1
  <2> QED BY <1>2, <2>3, <2>4, <2>5, <2>7, <2>8, <2>9, <2>10, <2>11, <2>13, <2>14 DEF UserStep
<1> QED BY <1>1, <1>2 DEF Next

----------------------------------------------------------------------------
(***************************************************************************)
(* Receiving.                                                              *)
(***************************************************************************)

\* Only OnTCPRecv and RecvCopy touch the buffer; a socket that is gone stays so.
LEMMA BufferStays ==
  ASSUME Next
  PROVE  /\ \/ UNCHANGED <<buf, offset, credit, arrived>>
            \/ \E n \in 1 .. BYTES : OnTCPRecv(n)
            \/ \E c \in Contexts : RecvCopy(c) /\ buf # <<>>
         /\ sock = "invalid" => sock' = "invalid"
<1> USE DEF vars, sockVars, bufVars, userVars, lwipVars
<1>1. CASE LwipStep
  BY <1>1 DEF LwipStep, DnsFound, OnConnect, OnTCPSent, OnTCPRecv, OnTCPFin, OnError, OnSendError, Close
<1>2. ASSUME NEW c \in Contexts, UserStep(c), ~(RecvCopy(c) /\ buf # <<>>)
      PROVE  UNCHANGED <<buf, offset, credit, arrived>> /\ (sock = "invalid" => sock' = "invalid")
  BY <1>2 DEF UserStep, Run, Bind, Connect, Resolve, Dial, Bound, Dialled, SendTurn, SendDone,
              SendFails, SendWrite, SendWait, RecvDone, RecvFails, RecvWait, RecvCopy, Send, Recv
<1>3. ASSUME NEW c \in Contexts, RecvCopy(c) PROVE sock' = sock
  BY <1>3 DEF RecvCopy
<1> QED BY <1>1, <1>2, <1>3 DEF Next

LEMMA PlacedKept ==
  ASSUME TypeOK, Placed, Blocks, Next
  PROVE  Placed'
<1>1. CASE UNCHANGED <<buf, offset, credit, arrived>>
  <2>1. Released' = Released
    BY <1>1 DEF Released
  <2> QED BY <1>1, <2>1, BufferStays DEF Placed
<1>2. ASSUME NEW n \in 1 .. BYTES, OnTCPRecv(n) PROVE Placed'
  BY <1>2, SegmentPlaced DEF OnTCPRecv
<1>3. ASSUME NEW c \in Contexts, RecvCopy(c), buf # <<>> PROVE Placed'
  BY <1>3, CopyFacts
<1> QED BY <1>1, <1>2, <1>3, BufferStays

LEMMA CopiedStays ==
  ASSUME TypeOK, Placed, Next, ~ \E c \in Contexts : RecvCopy(c) /\ buf # <<>>
  PROVE  Copied' = Copied
<1>1. CASE UNCHANGED <<buf, offset, credit, arrived>>
  BY <1>1 DEF Copied, Released
<1>2. ASSUME NEW n \in 1 .. BYTES, OnTCPRecv(n) PROVE Copied' = Copied
  BY <1>2, SegmentPlaced DEF OnTCPRecv
<1> QED BY <1>1, <1>2, BufferStays

LEMMA BlocksStart == Init => Blocks
BY DEF Init, Blocks, Block, Receiving, Idle

LEMMA PlacedStart == Init => Placed
BY DEF Init, Placed, Released

LEMMA BlocksKept ==
  ASSUME TypeOK, Roles, Placed, Blocks, Next
  PROVE  Blocks'
<1> USE DEF vars, sockVars, bufVars, userVars, lwipVars
<1>1. CASE LwipStep
  <2>1. call' = call /\ outcome' = outcome /\ Copied' = Copied
    <3>1. ~ \E c \in Contexts : RecvCopy(c)
      BY <1>1, LwipMoves, ContextAssumption DEF RecvCopy, At
    <3> QED BY <1>1, <3>1, LwipMoves, CopiedStays
  <2>2. sock \in {"open", "invalid"} => sock' \in {"open", "invalid"}
    BY <1>1 DEF LwipStep, DnsFound, OnConnect, OnTCPSent, OnTCPRecv, OnTCPFin, OnError,
                OnSendError, Close
  <2>3. ASSUME NEW c \in Contexts PROVE Block(c)'
    <3>1. Block(c)
      BY DEF Blocks
    <3> QED BY <2>1, <2>2, <3>1 DEF Block, Receiving
  <2>4. sock = "invalid" => sock' = "invalid"
    BY BufferStays
  <2> QED BY <2>1, <2>3, <2>4 DEF Blocks
<1>2. ASSUME NEW c \in Contexts, UserStep(c) PROVE Blocks'
  <2>0. /\ call \in [Contexts -> Calls] /\ call[c] \in Calls /\ Role(c) /\ Block(c)
        /\ sock = "invalid" => sock' = "invalid"
    BY BufferStays DEF TypeOK, Roles, Blocks
  <2>1. sock \in {"open", "invalid"} => sock' = sock
    BY <1>2 DEF UserStep, Run, Bind, Connect, Resolve, Dial, Bound, Dialled, SendTurn, SendDone,
                SendFails, SendWrite, SendWait, RecvDone, RecvFails, RecvWait, RecvCopy, Send, Recv
  <2>2. outcome'.failed = outcome.failed \/ RecvFails(c)
    <3>1. RecvDone(c) => outcome'.failed = outcome.failed
      BY DEF RecvDone, TypeOK
    <3> QED BY <1>2, <3>1 DEF UserStep, Run, Bind, Connect, Resolve, Dial, Bound, Dialled, SendTurn,
                  SendDone, SendFails, SendWrite, SendWait, RecvWait, RecvCopy, Send, Recv
  <2>3. ~RecvCopy(c) \/ buf = <<>> => Copied' = Copied
    <3>1. ASSUME NEW d \in Contexts, RecvCopy(d) PROVE d = c
      BY <1>2, <3>1, OneMoves, ContextAssumption DEF RecvCopy, At
    <3> QED BY <3>1, CopiedStays
  <2>4. ASSUME NEW d \in Contexts \ {c} PROVE Block(d)'
    <3>1. call'[d] = call[d] /\ Block(d) /\ Role(d)
      BY <1>2, OneMoves DEF Roles, Blocks
    <3>2. CASE Receiving(d)
      <4>1. ~Receiving(c)
        BY <2>0, <3>1, <3>2, RoleAssumption DEF Role
      <4>2. ~RecvCopy(c) /\ ~RecvFails(c)
        BY <4>1 DEF RecvCopy, RecvFails, At, Receiving
      <4> QED BY <2>1, <2>2, <2>3, <3>1, <3>2, <4>2 DEF Block, Receiving
    <3>3. CASE ~Receiving(d)
      BY <3>1, <3>3 DEF Block, Receiving
    <3> QED BY <3>2, <3>3
  <2>5. (outcome.failed => sock = "invalid")'
    <3>1. CASE RecvFails(c)
      BY <2>0, <3>1 DEF RecvFails
    <3>2. CASE ~RecvFails(c)
      BY <2>0, <2>2, <3>2 DEF Blocks
    <3> QED BY <3>1, <3>2
  <2>6. ASSUME call'[c].at \notin {"recv", "copy"} PROVE Block(c)'
    BY <2>6 DEF Block, Receiving
  <2>7. Block(c)'
    <3>1. CASE Run(c)
      <4>1. UNCHANGED <<call, sock, outcome>> /\ Copied' = Copied
        <5>1. cpu = NoId
          BY <3>1 DEF Run, Lwip
        <5>2. ~RecvCopy(c)
          BY <5>1, ContextAssumption DEF RecvCopy, At
        <5> QED BY <2>3, <3>1, <5>2 DEF Run
      <4> QED BY <2>0, <4>1 DEF Block, Receiving
    <3>2. CASE Bind(c) \/ Resolve(c) \/ Dialled(c)
      BY <2>6, <3>2, AfterMove DEF Bind, Resolve, Dialled, Stays, Idle
    <3>3. CASE Dial(c) \/ Bound(c)
      BY <2>6, <3>3, AfterMove DEF Dial, Bound, At, Stays, Idle
    <3>4. CASE Connect(c)
      <4>1. Enter(c, "connect", 0)
        BY <3>4 DEF Connect
      <4> QED BY <2>6, <4>1, AfterEnter
    <3>5. CASE SendTurn(c) \/ SendDone(c) \/ SendFails(c) \/ SendWait(c)
      BY <2>6, <3>5, AfterMove DEF SendTurn, SendDone, SendFails, SendWait, Stays, Idle
    <3>6. CASE SendWrite(c)
      <4>1. call'[c].at = "sent"
        BY <2>0, <3>6 DEF SendWrite, Calls
      <4> QED BY <2>6, <4>1
    <3>7. ASSUME NEW n \in 1 .. MAXLEN, Send(c, n) PROVE Block(c)'
      <4>1. Enter(c, "turn", n)
        BY <3>7 DEF Send
      <4> QED BY <2>6, <4>1, AfterEnter
    <3>8. CASE RecvDone(c) \/ RecvFails(c)
      BY <2>6, <3>8, AfterMove DEF RecvDone, RecvFails, Idle
    <3>9. ASSUME NEW n \in 1 .. MAXLEN, Recv(c, n) PROVE Block(c)'
      <4>1. Enter(c, "recv", n) /\ sock' \in {"open", "invalid"}
        BY <3>9 DEF Recv
      <4>2. /\ call'[c].at = "recv" /\ call'[c].len = n /\ call'[c].left = n
            /\ call'[c].got = <<>> /\ n \in Nat /\ n > 0
        BY <4>1, AfterEnter, LimitAssumption
      <4>3. Len(call'[c].got) = 0
        BY <4>2
      <4> QED BY <4>1, <4>2, <4>3 DEF Block, Receiving
    <3>10. CASE RecvWait(c)
      <4>1. /\ Stays(c, "copy") /\ call[c].left > 0 /\ sock = "open" /\ sock' = "open"
            /\ call[c].at = "recv" /\ ~RecvFails(c) /\ ~RecvCopy(c)
        BY <3>10, AfterMove DEF RecvWait, At, RecvFails, RecvCopy
      <4>2. ~outcome'.failed
        BY <2>5, <4>1
      <4> QED BY <2>0, <2>3, <4>1, <4>2 DEF Block, Receiving, Stays
    <3>11. CASE RecvCopy(c) /\ buf = <<>>
      <4>1. Stays(c, "recv") /\ call[c].at = "copy" /\ UNCHANGED <<sock, outcome>>
        BY <3>11, AfterMove DEF RecvCopy, At
      <4> QED BY <2>0, <2>3, <3>11, <4>1 DEF Block, Receiving, Stays
    <3>12. CASE RecvCopy(c) /\ buf # <<>>
      <4>1. PICK size \in Nat, got \in Seq(1 .. BYTES) :
              /\ 0 < size /\ size <= call[c].left
              /\ call' = [call EXCEPT ![c] = [call[c] EXCEPT !.at = "recv",
                                                !.left = call[c].left - size, !.got = got]]
              /\ Len(got) = Len(call[c].got) + size
              /\ \A k \in 1 .. Len(got) : got[k] = Copied - Len(call[c].got) + k
              /\ Copied' = Copied + size
        BY <3>12, CopyFacts
      <4>2. /\ call'[c].at = "recv" /\ call'[c].left = call[c].left - size
            /\ call'[c].got = got /\ call'[c].len = call[c].len
        BY <2>0, <4>1 DEF Calls
      <4>3. call[c].at = "copy" /\ Receiving(c) /\ UNCHANGED <<sock, outcome>>
        BY <3>12 DEF RecvCopy, At, Receiving
      <4>4. /\ Copied \in Nat /\ Len(call[c].got) \in Nat /\ call[c].left \in Nat
            /\ call[c].len \in Nat
        BY <2>0, CopiedFacts, LenProperties, LimitAssumption DEF Calls
      <4>5. /\ call'[c].left + Len(got) = call[c].len
            /\ \A k \in 1 .. Len(got) : got[k] = Copied' - Len(got) + k
        BY <2>0, <4>1, <4>2, <4>3, <4>4 DEF Block
      <4> QED BY <2>0, <4>2, <4>3, <4>5 DEF Block, Receiving
    <3> QED BY <1>2, <3>1, <3>2, <3>3, <3>4, <3>5, <3>6, <3>7, <3>8, <3>9, <3>10, <3>11, <3>12
            DEF UserStep
  <2> QED BY <2>4, <2>5, <2>7 DEF Blocks
<1> QED BY <1>1, <1>2 DEF Next

----------------------------------------------------------------------------
(***************************************************************************)
(* The invariant, and the byte stream that Recv implements.                *)
(***************************************************************************)
SockInv == TypeOK /\ Roles /\ Rooms /\ Placed /\ Blocks

LEMMA SockInvKept ==
  ASSUME SockInv, [Next]_vars
  PROVE  SockInv'
<1>1. CASE UNCHANGED vars
  BY <1>1 DEF SockInv, TypeOK, Roles, Role, Rooms, Placed, Released, Blocks, Block, Receiving, Copied,
              vars, sockVars, bufVars, userVars, lwipVars
<1>2. CASE Next
  <2>1. TypeOK'
    <3>1. CASE LwipStep
      BY <3>1, LwipTyped DEF SockInv
    <3>2. ASSUME NEW c \in Contexts, UserStep(c) PROVE TypeOK'
      BY <3>2, DialTyped, SendTyped, RecvTyped DEF UserStep, SockInv
    <3> QED BY <1>2, <3>1, <3>2 DEF Next
  <2>2. Roles' /\ Rooms' /\ Placed' /\ Blocks'
    BY <1>2, RolesKept, RoomsKept, PlacedKept, BlocksKept DEF SockInv
  <2> QED BY <2>1, <2>2 DEF SockInv
<1> QED BY <1>1, <1>2

\* The invariant holds in every reachable state.
THEOREM SockInvAlways == Spec => []SockInv
<1>1. Init => SockInv
  BY TypesStart, RolesStart, RoomsStart, PlacedStart, BlocksStart DEF SockInv
<1> QED BY <1>1, SockInvKept, PTL DEF Spec

\* There is at most one call of Recv.
LEMMA ReaderCallIs ==
  ASSUME Roles
  PROVE  /\ \A c \in Contexts : Receiving(c) => ReaderCall = call[c]
         /\ (\A c \in Contexts : ~Receiving(c)) => ReaderCall = Idle
<1>1. Readers \subseteq Contexts
  BY DEF Contexts
<1>2. ASSUME NEW c \in Contexts, Receiving(c) PROVE ReaderCall = call[c]
  <2>1. c \in Readers
    BY <1>2 DEF Roles, Role
  <2>2. (CHOOSE d \in Readers : Receiving(d)) = c
    BY <1>2, <2>1, RoleAssumption
  <2> QED BY <1>2, <2>1, <2>2 DEF ReaderCall
<1> QED BY <1>1, <1>2 DEF ReaderCall

LEMMA ReaderCallNext ==
  ASSUME Roles'
  PROVE  /\ \A c \in Contexts : Receiving(c)' => ReaderCall' = call'[c]
         /\ (\A c \in Contexts : ~Receiving(c)') => ReaderCall' = Idle
<1>1. Readers \subseteq Contexts
  BY DEF Contexts
<1>2. ASSUME NEW c \in Contexts, Receiving(c)' PROVE ReaderCall' = call'[c]
  <2>1. c \in Readers
    BY <1>2 DEF Roles, Role
  <2>2. (CHOOSE d \in Readers : Receiving(d)') = c
    BY <1>2, <2>1, RoleAssumption
  <2> QED BY <1>2, <2>1, <2>2 DEF ReaderCall
<1> QED BY <1>1, <1>2 DEF ReaderCall

\* What the contexts' other steps do to a call of Recv: nothing.
LEMMA OthersSteps ==
  ASSUME TypeOK, Roles, NEW c \in Contexts, UserStep(c),
         ~(RecvDone(c) \/ RecvFails(c) \/ RecvCopy(c)), ~ \E n \in 1 .. MAXLEN : Recv(c, n)
  PROVE  /\ UNCHANGED outcome
         /\ \A d \in Contexts : /\ Receiving(d)' <=> Receiving(d)
                                /\ Receiving(d) => /\ call'[d].len = call[d].len
                                                   /\ call'[d].got = call[d].got
<1> USE DEF vars, sockVars, bufVars, userVars, lwipVars
<1> DEFINE Same(d) == /\ Receiving(d)' <=> Receiving(d)
                      /\ Receiving(d) => /\ call'[d].len = call[d].len
                                         /\ call'[d].got = call[d].got
<1>0. call \in [Contexts -> Calls] /\ call[c] \in Calls
  BY DEF TypeOK
<1>1. UNCHANGED outcome
  BY DEF UserStep, Run, Bind, Connect, Resolve, Dial, Bound, Dialled, SendTurn,
         SendDone, SendFails, SendWrite, SendWait, RecvWait, Send
<1>2. \A d \in Contexts \ {c} : Same(d)
  BY OneMoves DEF Receiving
<1>3. Same(c)
  <2>1. CASE Run(c)
    BY <2>1 DEF Run, Receiving
  <2>2. CASE Bind(c) \/ Resolve(c) \/ Dialled(c)
    BY <2>2, AfterMove DEF Bind, Resolve, Dialled, Lwip, At, Stays, Idle, Receiving
  <2>3. CASE Dial(c) \/ Bound(c)
    BY <2>3, AfterMove DEF Dial, Bound, At, Stays, Idle, Receiving
  <2>4. CASE Connect(c)
    <3>1. Enter(c, "connect", 0)
      BY <2>4 DEF Connect
    <3> QED BY <3>1, AfterEnter DEF Receiving
  <2>5. CASE SendTurn(c) \/ SendDone(c) \/ SendFails(c) \/ SendWait(c)
    BY <2>5, AfterMove DEF SendTurn, SendDone, SendFails, SendWait, At, Stays, Idle, Receiving
  <2>6. CASE SendWrite(c)
    <3>1. call'[c].at = "sent" /\ call[c].at = "write"
      BY <1>0, <2>6 DEF SendWrite, At, Calls
    <3> QED BY <3>1 DEF Receiving
  <2>7. ASSUME NEW n \in 1 .. MAXLEN, Send(c, n) PROVE Same(c)
    <3>1. Enter(c, "turn", n)
      BY <2>7 DEF Send
    <3> QED BY <3>1, AfterEnter DEF Receiving
  <2>8. CASE RecvWait(c)
    BY <2>8, AfterMove DEF RecvWait, At, Stays, Receiving
  <2> QED BY <2>1, <2>2, <2>3, <2>4, <2>5, <2>6, <2>7, <2>8 DEF UserStep
<1> QED BY <1>1, <1>2, <1>3

LEMMA SameReaderCall ==
  ASSUME Roles, Roles',
         \A d \in Contexts : /\ Receiving(d)' <=> Receiving(d)
                             /\ Receiving(d) => /\ call'[d].len = call[d].len
                                                /\ call'[d].got = call[d].got
  PROVE  ReaderCall'.len = ReaderCall.len /\ ReaderCall'.got = ReaderCall.got
<1>1. CASE \E d \in Contexts : Receiving(d)
  BY <1>1, ReaderCallIs, ReaderCallNext
<1>2. CASE \A d \in Contexts : ~Receiving(d)
  BY <1>2, ReaderCallIs, ReaderCallNext
<1> QED BY <1>1, <1>2

LEMMA StreamStarts == Init => Stream!StreamInit
<1> SUFFICES ASSUME Init PROVE Stream!StreamInit
  OBVIOUS
<1>1. ReaderCall = Idle
  <2>1. \A c \in Contexts : ~Receiving(c)
    BY DEF Init, Receiving, Idle
  <2> QED BY <2>1, RolesStart, ReaderCallIs
<1>2. Len(ReaderCall.got) = 0 /\ ReaderCall.len = 0
  BY <1>1 DEF Idle
<1>3. Copied = 0
  BY DEF Init, Copied, Released
<1> QED BY <1>2, <1>3 DEF Init, Stream!StreamInit

LEMMA StreamSteps ==
  ASSUME SockInv, SockInv', [Next]_vars
  PROVE  [Stream!StreamNext]_(Stream!streamVars)
<1> USE DEF vars, sockVars, bufVars, userVars, lwipVars
<1> DEFINE Taken == Copied - Len(ReaderCall.got)
           Goal == [Stream!StreamNext]_(Stream!streamVars)
<1>0. /\ TypeOK /\ Roles /\ Roles' /\ Placed /\ Blocks /\ TypeOK' /\ Placed'
      /\ arrived \in Nat /\ BYTES \in Nat /\ Copied \in Nat /\ Copied <= arrived
  BY CopiedFacts, PbufFacts DEF SockInv
\* Steps that leave the stream alone.
<1>1. ASSUME arrived' = arrived, outcome' = outcome, Taken' = Taken, ReaderCall'.len = ReaderCall.len
      PROVE  Goal
  BY <1>1 DEF Stream!streamVars
<1>2. CASE UNCHANGED vars
  <2>1. ReaderCall' = ReaderCall /\ Copied' = Copied
    BY <1>2 DEF ReaderCall, Receiving, Copied, Released
  <2> QED BY <1>1, <1>2, <2>1
<1>3. CASE LwipStep
  <2>1. call' = call /\ outcome' = outcome
    BY <1>3, LwipMoves
  <2>2. ReaderCall' = ReaderCall
    BY <2>1 DEF ReaderCall, Receiving
  <2>3. Copied' = Copied
    <3>1. ~ \E c \in Contexts : RecvCopy(c)
      BY <1>3, LwipMoves, ContextAssumption DEF RecvCopy, At
    <3> QED BY <1>0, <1>3, <3>1, CopiedStays DEF Next
  <2>4. CASE arrived' = arrived
    BY <1>1, <2>1, <2>2, <2>3, <2>4
  <2>5. ASSUME NEW n \in 1 .. BYTES, OnTCPRecv(n) PROVE Goal
    <3>1. arrived' \in (arrived + 1) .. BYTES
      BY <1>0, <2>5 DEF OnTCPRecv
    <3> QED BY <2>1, <2>2, <2>3, <3>1 DEF Stream!StreamNext, Stream!Arrive
  <2> QED BY <1>3, <2>4, <2>5 DEF LwipStep, DnsFound, OnConnect, OnTCPSent, OnTCPFin, OnError,
                                  OnSendError, Close
<1>4. ASSUME NEW c \in Contexts, UserStep(c) PROVE Goal
  <2>0. /\ call \in [Contexts -> Calls] /\ call[c] \in Calls
        /\ outcome \in [block : Seq(1 .. BYTES), failed : BOOLEAN]
    BY <1>0 DEF TypeOK
  <2>1. Next
    BY <1>4 DEF Next
  <2>2. arrived' = arrived
    BY <1>4 DEF UserStep, Run, Bind, Connect, Resolve, Dial, Bound, Dialled, SendTurn, SendDone,
                SendFails, SendWrite, SendWait, RecvDone, RecvFails, RecvWait, RecvCopy, Send, Recv
  <2>3. \A d \in Contexts \ {c} : call'[d] = call[d] /\ ~RecvCopy(d)
    BY <1>0, <1>4, OneMoves, ContextAssumption DEF RecvCopy, At
  <2>4. ~RecvCopy(c) \/ buf = <<>> => Copied' = Copied
    BY <1>0, <2>1, <2>3, CopiedStays
  \* Somebody who receives is the only one.
  <2>5. ASSUME c \in Readers PROVE \A d \in Contexts \ {c} : ~Receiving(d) /\ ~Receiving(d)'
    <3>1. \A d \in Contexts \ {c} : ~Receiving(d)
      BY <1>0, <2>5, RoleAssumption DEF Roles, Role
    <3> QED BY <2>3, <3>1 DEF Receiving
  <2>6. Receiving(c) => c \in Readers /\ Block(c)
    BY <1>0 DEF Roles, Role, Blocks
  <2>7. ASSUME NEW n \in 1 .. MAXLEN, Recv(c, n) PROVE Goal
    <3>1. Enter(c, "recv", n) /\ c \in Readers /\ outcome' = outcome
      BY <2>7 DEF Recv
    <3>2. /\ call[c].at = "idle" /\ call'[c].at = "recv" /\ call'[c].len = n
          /\ call'[c].got = <<>> /\ cpu = NoId
      BY <1>0, <3>1, AfterEnter
    <3>3. ReaderCall = Idle /\ ReaderCall' = call'[c]
      <4>1. \A d \in Contexts : ~Receiving(d)
        BY <2>5, <3>1, <3>2 DEF Receiving
      <4>2. Receiving(c)'
        BY <3>2 DEF Receiving
      <4> QED BY <1>0, <4>1, <4>2, ReaderCallIs, ReaderCallNext
    <3>4. Copied' = Copied
      BY <2>4, <3>2 DEF RecvCopy, At
    <3>5. ReaderCall.len = 0 /\ Taken = Copied - 0 /\ Taken' = Copied - 0 /\ ReaderCall'.len = n
      BY <3>2, <3>3, <3>4 DEF Idle
    <3> QED BY <2>2, <3>1, <3>5 DEF Stream!StreamNext, Stream!Ask
  <2>8. CASE RecvDone(c)
    <3>1. /\ call[c].at = "recv" /\ call[c].left = 0 /\ Receiving(c)
          /\ outcome'.block = call[c].got /\ outcome'.failed = outcome.failed /\ ~RecvCopy(c)
      BY <2>0, <2>8 DEF RecvDone, At, Receiving, RecvCopy
    <3>2. call'[c] = Idle
      BY <1>0, <2>8, AfterMove DEF RecvDone
    <3>3. ReaderCall = call[c] /\ ReaderCall' = Idle
      <4>1. \A d \in Contexts : ~Receiving(d)'
        BY <2>5, <2>6, <3>1, <3>2 DEF Receiving, Idle
      <4> QED BY <1>0, <3>1, <4>1, ReaderCallIs, ReaderCallNext
    <3>4. /\ call[c].got \in Seq(1 .. BYTES) /\ Len(call[c].got) \in Nat /\ call[c].len \in Nat
      BY <2>0, LenProperties, LimitAssumption DEF Calls
    <3>5. /\ Len(call[c].got) = call[c].len /\ call[c].len > 0 /\ ~outcome.failed
          /\ \A k \in 1 .. call[c].len : call[c].got[k] = Copied - call[c].len + k
      BY <2>6, <3>1, <3>4 DEF Block
    <3>6. call[c].got = [k \in 1 .. call[c].len |-> Taken + k]
      <4>1. \A k \in 1 .. call[c].len : call[c].got[k] = Taken + k
        BY <3>3, <3>5
      <4>2. call[c].got = [k \in 1 .. call[c].len |-> call[c].got[k]]
        BY <3>4, <3>5, LenProperties
      <4> QED BY <4>1, <4>2
    <3>7. Copied' = Copied
      BY <2>4, <3>1
    <3>8. Taken = Copied - call[c].len /\ Taken' = Copied - 0 /\ ReaderCall'.len = 0
      BY <3>2, <3>3, <3>5, <3>7 DEF Idle
    <3>9. Taken' = Taken + call[c].len /\ Taken + call[c].len <= arrived
      BY <1>0, <3>4, <3>8
    <3> HIDE DEF Taken
    <3> QED BY <2>2, <3>1, <3>3, <3>5, <3>6, <3>8, <3>9 DEF Stream!StreamNext, Stream!Take, Taken
  <2>9. CASE RecvFails(c)
    <3>1. /\ call[c].at = "recv" /\ Receiving(c) /\ outcome'.block = <<>>
          /\ outcome'.failed = TRUE /\ ~RecvCopy(c)
      BY <2>9 DEF RecvFails, At, Receiving, RecvCopy
    <3>2. call'[c] = Idle
      BY <1>0, <2>9, AfterMove DEF RecvFails
    <3>3. ReaderCall = call[c] /\ ReaderCall' = Idle
      <4>1. \A d \in Contexts : ~Receiving(d)'
        BY <2>5, <2>6, <3>1, <3>2 DEF Receiving, Idle
      <4> QED BY <1>0, <3>1, <4>1, ReaderCallIs, ReaderCallNext
    <3>4. Len(call[c].got) \in Nat /\ call[c].len > 0
      BY <2>0, <2>6, <3>1, LenProperties DEF Calls, Block
    <3>5. Copied' = Copied
      BY <2>4, <3>1
    <3>6. Taken = Copied - Len(call[c].got) /\ Taken' = Copied - 0 /\ ReaderCall'.len = 0
      BY <3>2, <3>3, <3>5 DEF Idle
    <3>7. Taken' \in Taken .. arrived
      BY <1>0, <3>4, <3>6
    <3> QED BY <2>2, <3>1, <3>3, <3>4, <3>6, <3>7 DEF Stream!StreamNext, Stream!Fail
  <2>10. CASE RecvCopy(c)
    <3>1. call[c].at = "copy" /\ Receiving(c) /\ outcome' = outcome
      BY <2>10 DEF RecvCopy, At, Receiving
    <3>2. CASE buf = <<>>
      <4>1. Stays(c, "recv")
        BY <1>0, <2>10, <3>2, AfterMove DEF RecvCopy
      <4>2. ReaderCall = call[c] /\ ReaderCall' = call'[c]
        BY <1>0, <3>1, <4>1, ReaderCallIs, ReaderCallNext DEF Receiving, Stays
      <4> QED BY <1>1, <2>2, <2>4, <3>1, <3>2, <4>1, <4>2 DEF Stays
    <3>3. CASE buf # <<>>
      <4>1. PICK size \in Nat, got \in Seq(1 .. BYTES) :
              /\ 0 < size /\ size <= call[c].left
              /\ call' = [call EXCEPT ![c] = [call[c] EXCEPT !.at = "recv",
                                                !.left = call[c].left - size, !.got = got]]
              /\ Len(got) = Len(call[c].got) + size
              /\ \A k \in 1 .. Len(got) : got[k] = Copied - Len(call[c].got) + k
              /\ Copied' = Copied + size
        BY <1>0, <2>10, <3>3, CopyFacts
      <4>2. call'[c].at = "recv" /\ call'[c].got = got /\ call'[c].len = call[c].len
        BY <2>0, <4>1 DEF Calls
      <4>3. ReaderCall = call[c] /\ ReaderCall' = call'[c]
        BY <1>0, <3>1, <4>2, ReaderCallIs, ReaderCallNext DEF Receiving
      <4>4. Len(call[c].got) \in Nat
        BY <2>0, LenProperties DEF Calls
      <4>5. Taken' = Taken
        <5>1. Len(ReaderCall.got) = Len(call[c].got)
          BY <4>3
        <5>2. Len(ReaderCall'.got) = Len(call[c].got) + size
          BY <4>1, <4>2, <4>3
        <5>3. Copied' = Copied + size
          BY <4>1
        <5>4. \A x, y, z \in Nat : x + z - (y + z) = x - y
          OBVIOUS
        <5> QED BY <1>0, <4>4, <5>1, <5>2, <5>3, <5>4
      <4> HIDE DEF Taken
      <4> QED BY <1>1, <2>2, <3>1, <4>2, <4>3, <4>5
    <3> QED BY <3>2, <3>3
  <2>11. ASSUME ~(RecvDone(c) \/ RecvFails(c) \/ RecvCopy(c)), ~ \E n \in 1 .. MAXLEN : Recv(c, n)
         PROVE  Goal
    <3>1. ReaderCall'.len = ReaderCall.len /\ ReaderCall'.got = ReaderCall.got
      BY <1>0, <1>4, <2>11, OthersSteps, SameReaderCall
    <3> QED BY <1>0, <1>1, <1>4, <2>2, <2>4, <2>11, <3>1, OthersSteps
  <2> QED BY <2>7, <2>8, <2>9, <2>10, <2>11
<1> QED BY <1>2, <1>3, <1>4 DEF Next

\* Recv implements the byte stream, whatever the segments, the lengths asked for,
\* the interleaving and the moment at which the connection ends: what it returns is
\* the peer's bytes in order, without gap or repetition.
THEOREM RecvImplementsStream == Spec => RecvIsStream
<1>1. SockInv /\ SockInv' /\ [Next]_vars => [Stream!StreamNext]_(Stream!streamVars)
  BY StreamSteps
<1> QED BY <1>1, StreamStarts, SockInvAlways, PTL DEF Spec, RecvIsStream, Stream!StreamSpec

----------------------------------------------------------------------------
(***************************************************************************)
(* Who waits, and who will wake them.                                      *)
(***************************************************************************)
Asleep(c, p) == Parked(c, p) /\ c \notin woken

\* A reader sleeps on an empty buffer only, registered as long as the socket lives;
\* nobody waits for the connection of a socket that is open.
Waits ==
  /\ sock = "open" => waiter["connect"] = NoId
  /\ \A c \in Contexts : Asleep(c, "copy") =>
       buf = <<>> /\ (sock = "open" => waiter["recv"] = c)

\* A socket that nobody else closes does not end while they sleep.
Hopes ==
  /\ \A c \in Contexts : Asleep(c, "copy") => sock = "open" /\ waiter["recv"] = c
  /\ \A c \in Contexts : Asleep(c, "dialled") => sock = "connecting" /\ waiter["connect"] = c

LEMMA ResumeDoes ==
  ASSUME TypeOK, NEW f \in {"connect", "recv", "send"}, Resume(f)
  PROVE  /\ waiter'[f] = NoId
         /\ \A g \in {"connect", "recv", "send"} \ {f} : waiter'[g] = waiter[g]
         /\ woken \subseteq woken' /\ (waiter[f] # NoId => waiter[f] \in woken')
BY DEF Resume, Register, TypeOK

\* Sleep begins in RecvWait and in Dial.
LEMMA UserSleep ==
  ASSUME TypeOK, NEW c \in Contexts, UserStep(c), NEW d \in Contexts,
         NEW p \in {"copy", "dialled"}, Asleep(d, p)'
  PROVE  \/ d # c /\ Asleep(d, p)
         \/ /\ d = c /\ p = "copy"
            /\ buf' = <<>> /\ sock' = "open" /\ waiter'["recv"] = c
         \/ /\ d = c /\ p = "dialled"
            /\ sock' = "connecting" /\ waiter'["connect"] = c
<1> USE DEF vars, sockVars, bufVars, userVars, lwipVars
<1>0. /\ waiter \in [{"connect", "recv", "send"} -> Contexts \cup {NoId}]
      /\ call \in [Contexts -> Calls] /\ call[c] \in Calls
  BY DEF TypeOK
<1>1. CASE d # c
  <2>1. call'[d] = call[d] /\ cpu # d
    BY <1>1, OneMoves, ContextAssumption
  <2>2. woken' = woken \/ woken' = woken \ {c}
    BY DEF UserStep, Run, Bind, Connect, Resolve, Dial, Bound, Dialled, SendTurn, SendDone,
           SendFails, SendWrite, SendWait, RecvDone, RecvFails, RecvWait, RecvCopy, Send, Recv
  <2> QED BY <1>1, <2>1, <2>2 DEF Asleep, Parked
<1>2. CASE d = c
  <2>0. call'[c].at = p /\ cpu' # c
    BY <1>2 DEF Asleep, Parked
  <2>1. ~Run(c) /\ ~Connect(c)
    BY <2>0 DEF Run, Connect, Enter
  <2>2. \A n : ~Send(c, n) /\ ~Recv(c, n)
    BY <2>0 DEF Send, Recv, Enter
  <2>3. ~Bind(c) /\ ~Resolve(c) /\ ~Bound(c) /\ ~Dialled(c)
    <3>1. ~Bind(c) /\ ~Dialled(c)
      BY <2>0, AfterMove DEF Bind, Dialled, Stays, Idle
    <3>2. ~Resolve(c) /\ ~Bound(c)
      BY <2>0, AfterMove DEF Resolve, Bound, At, Stays, Idle
    <3> QED BY <3>1, <3>2
  <2>4. ~SendTurn(c) /\ ~SendDone(c) /\ ~SendFails(c) /\ ~SendWait(c) /\ ~SendWrite(c)
    <3>1. ~SendTurn(c) /\ ~SendDone(c) /\ ~SendFails(c) /\ ~SendWait(c)
      BY <2>0, AfterMove DEF SendTurn, SendDone, SendFails, SendWait, Stays, Idle
    <3>2. ~SendWrite(c)
      BY <2>0 DEF SendWrite, At
    <3> QED BY <3>1, <3>2
  <2>5. ~RecvDone(c) /\ ~RecvFails(c) /\ ~RecvCopy(c)
    <3>1. ~RecvDone(c) /\ ~RecvFails(c)
      BY <2>0, AfterMove DEF RecvDone, RecvFails, Stays, Idle
    <3>2. ~RecvCopy(c)
      BY <2>0 DEF RecvCopy, At, Goto
    <3> QED BY <3>1, <3>2
  <2>6. CASE RecvWait(c)
    <3>1. p = "copy" /\ buf = <<>> /\ Register("recv", c) /\ sock = "open" /\ UNCHANGED <<sock, buf>>
      BY <2>0, <2>6, AfterMove DEF RecvWait, At, Stays
    <3> QED BY <1>0, <1>2, <3>1 DEF Register
  <2>7. CASE Dial(c)
    <3>1. p = "dialled" /\ Register("connect", c) /\ sock' = "connecting"
      BY <2>0, <2>7, AfterMove DEF Dial, At, Stays
    <3> QED BY <1>0, <1>2, <3>1 DEF Register
  <2> QED BY <2>1, <2>2, <2>3, <2>4, <2>5, <2>6, <2>7 DEF UserStep
<1> QED BY <1>1, <1>2

LEMMA LwipSleep ==
  ASSUME TypeOK, LwipStep, NEW d \in Contexts, NEW p \in {"copy", "dialled"}, Asleep(d, p)'
  PROVE  Asleep(d, p)
<1>1. woken \subseteq woken'
  BY ResumeDoes DEF LwipStep, DnsFound, OnConnect, OnTCPSent, OnTCPRecv, OnTCPFin, OnError,
                    OnSendError, Close, ResumeFirst
<1> QED BY <1>1, LwipMoves DEF Asleep, Parked

\* What a context can do to the others' waits.
LEMMA WaitersStay ==
  ASSUME TypeOK, Roles, NEW c \in Contexts, UserStep(c)
  PROVE  /\ waiter'["recv"] = waiter["recv"] \/ c \in Readers
         /\ waiter'["connect"] = waiter["connect"] \/ (c \in Dialers /\ sock = "new")
         /\ buf' = buf \/ c \in Readers
         /\ sock' = sock \/ (c \in Dialers /\ sock = "new" /\ sock' = "connecting")
<1> USE DEF vars, sockVars, bufVars, userVars, lwipVars
<1>0. waiter \in [{"connect", "recv", "send"} -> Contexts \cup {NoId}] /\ Role(c)
  BY DEF TypeOK, Roles
<1>1. CASE Resolve(c)
  BY <1>0, <1>1 DEF Resolve, At, Register, Role
<1>2. CASE Dial(c)
  BY <1>0, <1>2 DEF Dial, At, Register, Role
<1>3. CASE SendWait(c)
  BY <1>0, <1>3 DEF SendWait, Register
<1>4. CASE RecvWait(c) \/ RecvCopy(c)
  <2>1. c \in Readers /\ sock' = sock
    BY <1>0, <1>4 DEF RecvWait, RecvCopy, At, Role, Receiving
  <2>2. waiter'["connect"] = waiter["connect"]
    BY <1>0, <1>4 DEF RecvWait, RecvCopy, Register
  <2> QED BY <2>1, <2>2
<1>5. CASE UNCHANGED <<waiter, buf, sock>>
  BY <1>5
<1> QED BY <1>1, <1>2, <1>3, <1>4, <1>5 DEF UserStep, Run, Bind, Connect, Bound, Dialled, SendTurn,
           SendDone, SendFails, SendWrite, RecvDone, RecvFails, Send, Recv

LEMMA WaitsKept ==
  ASSUME TypeOK, Roles, Blocks, Waits, Next
  PROVE  Waits'
<1> USE DEF vars, sockVars, bufVars, userVars, lwipVars
<1>1. ASSUME NEW c \in Contexts, UserStep(c) PROVE Waits'
  <2>1. (sock = "open" => waiter["connect"] = NoId)'
    BY <1>1, WaitersStay DEF Waits
  <2>2. ASSUME NEW d \in Contexts, Asleep(d, "copy")'
        PROVE  buf' = <<>> /\ (sock' = "open" => waiter'["recv"] = d)
    <3>1. CASE d # c /\ Asleep(d, "copy")
      <4>1. d \in Readers
        BY <3>1 DEF Asleep, Parked, Roles, Role, Receiving
      <4>2. c \notin Readers
        BY <3>1, <4>1, RoleAssumption
      <4> QED BY <1>1, <3>1, <4>2, WaitersStay DEF Waits
    <3>2. CASE d = c /\ buf' = <<>> /\ waiter'["recv"] = c
      BY <3>2
    <3> QED BY <1>1, <2>2, <3>1, <3>2, UserSleep
  <2> QED BY <2>1, <2>2 DEF Waits
<1>2. CASE LwipStep
  <2>0. ASSUME NEW d \in Contexts, Asleep(d, "copy")'
        PROVE  /\ Asleep(d, "copy") /\ d \notin woken'
               /\ buf = <<>> /\ (sock = "open" => waiter["recv"] = d)
               /\ sock \in {"open", "invalid"}
    <3>1. Asleep(d, "copy")
      BY <1>2, <2>0, LwipSleep
    <3> QED BY <2>0, <3>1 DEF Waits, Asleep, Parked, Blocks, Block, Receiving
  <2>1. ASSUME NEW l \in lookups, DnsFound(l) PROVE Waits'
    BY <2>0, <2>1 DEF DnsFound, Waits
  <2>2. CASE OnConnect
    BY <2>0, <2>2, ResumeDoes DEF OnConnect, Waits
  <2>3. ASSUME NEW n \in 1 .. SNDBUF, OnTCPSent(n) PROVE Waits'
    <3>1. waiter'["recv"] = waiter["recv"] /\ waiter'["connect"] = waiter["connect"]
      BY <2>3, ResumeDoes DEF OnTCPSent
    <3> QED BY <2>0, <2>3, <3>1 DEF OnTCPSent, Waits
  <2>4. ASSUME NEW n \in 1 .. BYTES, OnTCPRecv(n) PROVE Waits'
    <3>1. waiter'["connect"] = waiter["connect"] /\ (waiter["recv"] # NoId => waiter["recv"] \in woken')
      BY <2>4, ResumeDoes DEF OnTCPRecv
    <3>2. \A d \in Contexts : ~Asleep(d, "copy")'
      BY <2>0, <2>4, <3>1, ContextAssumption DEF OnTCPRecv
    <3> QED BY <2>4, <3>1, <3>2 DEF OnTCPRecv, Waits
  <2>5. CASE OnTCPFin \/ OnError \/ OnSendError \/ Close
    <3>1. buf' = buf /\ sock' = "invalid"
      BY <2>5 DEF OnTCPFin, OnError, OnSendError, Close
    <3> QED BY <2>0, <3>1 DEF Waits
  <2> QED BY <1>2, <2>1, <2>2, <2>3, <2>4, <2>5 DEF LwipStep
<1> QED BY <1>1, <1>2 DEF Next

LEMMA HopesKept ==
  ASSUME ~CLOSES, TypeOK, Roles, Blocks, Waits, Hopes, Next
  PROVE  Hopes'
<1> USE DEF vars, sockVars, bufVars, userVars, lwipVars
<1>1. ASSUME NEW c \in Contexts, UserStep(c) PROVE Hopes'
  <2>1. ASSUME NEW d \in Contexts, Asleep(d, "copy")'
        PROVE  sock' = "open" /\ waiter'["recv"] = d
    <3>1. CASE d # c /\ Asleep(d, "copy")
      <4>1. d \in Readers
        BY <3>1 DEF Asleep, Parked, Roles, Role, Receiving
      <4>2. c \notin Readers
        BY <3>1, <4>1, RoleAssumption
      <4> QED BY <1>1, <3>1, <4>2, WaitersStay DEF Hopes
    <3> QED BY <1>1, <2>1, <3>1, UserSleep
  <2>2. ASSUME NEW d \in Contexts, Asleep(d, "dialled")'
        PROVE  sock' = "connecting" /\ waiter'["connect"] = d
    <3>1. CASE d # c /\ Asleep(d, "dialled")
      <4>1. d \in Dialers
        BY <3>1 DEF Asleep, Parked, Roles, Role
      <4>2. c \notin Dialers
        BY <3>1, <4>1, RoleAssumption
      <4> QED BY <1>1, <3>1, <4>2, WaitersStay DEF Hopes
    <3> QED BY <1>1, <2>2, <3>1, UserSleep
  <2> QED BY <2>1, <2>2 DEF Hopes
<1>2. CASE LwipStep
  <2>0. ASSUME NEW d \in Contexts, NEW p \in {"copy", "dialled"}, Asleep(d, p)'
        PROVE  /\ d \notin woken' /\ d # NoId
               /\ p = "copy" => sock = "open" /\ waiter["recv"] = d /\ waiter["connect"] = NoId
               /\ p = "dialled" => sock = "connecting" /\ waiter["connect"] = d
    <3>1. Asleep(d, p)
      BY <1>2, <2>0, LwipSleep
    <3> QED BY <2>0, <3>1, ContextAssumption DEF Hopes, Waits, Asleep
  <2>1. ASSUME NEW l \in lookups, DnsFound(l) PROVE Hopes'
    BY <2>0, <2>1 DEF DnsFound, Hopes
  <2>2. CASE OnConnect
    BY <2>0, <2>2, ResumeDoes DEF OnConnect, Hopes
  <2>3. ASSUME NEW n \in 1 .. SNDBUF, OnTCPSent(n) PROVE Hopes'
    <3>1. waiter'["recv"] = waiter["recv"] /\ waiter'["connect"] = waiter["connect"]
      BY <2>3, ResumeDoes DEF OnTCPSent
    <3> QED BY <2>0, <2>3, <3>1 DEF OnTCPSent, Hopes
  <2>4. ASSUME NEW n \in 1 .. BYTES, OnTCPRecv(n) PROVE Hopes'
    <3>1. waiter["recv"] # NoId => waiter["recv"] \in woken'
      BY <2>4, ResumeDoes DEF OnTCPRecv
    <3> QED BY <2>0, <2>4, <3>1 DEF OnTCPRecv, Hopes
  <2>5. CASE OnTCPFin
    <3>1. sock = "open" /\ (waiter["recv"] # NoId => waiter["recv"] \in woken')
      BY <2>5, ResumeDoes DEF OnTCPFin
    <3> QED BY <2>0, <3>1 DEF Hopes
  <2>6. ASSUME ResumeFirst PROVE Hopes'
    <3>1. waiter["connect"] # NoId => waiter["connect"] \in woken'
      BY <2>6, ResumeDoes DEF ResumeFirst
    <3>2. waiter["connect"] = NoId /\ waiter["recv"] # NoId => waiter["recv"] \in woken'
      BY <2>6, ResumeDoes DEF ResumeFirst
    <3> QED BY <2>0, <3>1, <3>2 DEF Hopes
  <2>7. CASE OnError \/ (OnSendError /\ ResumeFirst)
    BY <2>6, <2>7 DEF OnError
  <2>8. CASE OnSendError /\ UNCHANGED <<sock, waiter>>
    BY <2>0, <2>8 DEF Hopes
  <2>9. ~Close
    BY DEF Close
  <2> QED BY <1>2, <2>1, <2>2, <2>3, <2>4, <2>5, <2>7, <2>8, <2>9 DEF LwipStep, OnSendError
<1> QED BY <1>1, <1>2 DEF Next

----------------------------------------------------------------------------
\* Nothing keeps a parked reader from its data, and the window is given back
\* exactly, whoever runs when, wakes spuriously, or closes the socket.
THEOREM ReadersAreServed == Spec => []ReaderServed
<1> DEFINE Inv == SockInv /\ Waits
<1>1. Init => Inv
  <2>1. Init => Waits
    BY DEF Init, Waits, Asleep, Parked, Idle
  <2> QED BY <2>1, TypesStart, RolesStart, RoomsStart, PlacedStart, BlocksStart DEF SockInv
<1>2. Inv /\ [Next]_vars => Inv'
  <2>1. CASE UNCHANGED vars
    <3>1. Waits => Waits'
      BY <2>1 DEF Waits, Asleep, Parked, vars, sockVars, bufVars
    <3> QED BY <2>1, <3>1, SockInvKept
  <2>2. CASE Next
    BY <2>2, SockInvKept, WaitsKept DEF SockInv
  <2> QED BY <2>1, <2>2
<1>3. Inv => ReaderServed
  BY DEF SockInv, Placed, Waits, Asleep, ReaderServed, Contexts
<1> QED BY <1>1, <1>2, <1>3, PTL DEF Spec

\* If no other context closes the socket, nobody is left behind: however the ACKs
\* cut what was sent, whoever runs unasked, and wherever the connection fails.
THEOREM NobodyLeftBehind ==
  ASSUME ~CLOSES
  PROVE  Spec => []NobodyForgotten
<1> DEFINE Inv == SockInv /\ Waits /\ Hopes
<1>1. Init => Inv
  <2>1. Init => Waits /\ Hopes
    BY DEF Init, Waits, Hopes, Asleep, Parked, Idle
  <2> QED BY <2>1, TypesStart, RolesStart, RoomsStart, PlacedStart, BlocksStart DEF SockInv
<1>2. Inv /\ [Next]_vars => Inv'
  <2>1. CASE UNCHANGED vars
    <3>1. Waits /\ Hopes => Waits' /\ Hopes'
      BY <2>1 DEF Waits, Hopes, Asleep, Parked, vars, sockVars, bufVars
    <3> QED BY <2>1, <3>1, SockInvKept
  <2>2. CASE Next
    BY <2>2, SockInvKept, WaitsKept, HopesKept DEF SockInv
  <2> QED BY <2>1, <2>2
<1>3. Inv => NobodyForgotten
  <2> SUFFICES ASSUME Inv PROVE NobodyForgotten
    OBVIOUS
  <2>1. ReaderNotForgotten /\ DialerNotForgotten
    BY DEF Hopes, Asleep, ReaderNotForgotten, DialerNotForgotten, Contexts
  <2>2. TurnHasRoom
    BY DEF SockInv, Rooms, TurnHasRoom, Contexts
  <2> QED BY <2>1, <2>2 DEF SockInv, NobodyForgotten
<1> QED BY <1>1, <1>2, <1>3, PTL DEF Spec
----------------------------------------------------------------------------
(***************************************************************************)
(* What was acknowledged.                                                  *)
(***************************************************************************)
\* How many of the first n bytes are c's.
Theirs(w, c, n) == {k \in 1 .. n : w[k][1] = c}

LEMMA TheirsCounted ==
  ASSUME NEW w, NEW c, NEW n \in Nat
  PROVE  IsFiniteSet(Theirs(w, c, n)) /\ Cardinality(Theirs(w, c, n)) \in Nat
<1>1. IsFiniteSet(1 .. n)
  BY FS_Interval
<1>2. Theirs(w, c, n) \in SUBSET (1 .. n)
  BY DEF Theirs
<1> QED BY <1>1, <1>2, FS_Subset, FS_CardinalityType

LEMMA TheirsGrow ==
  ASSUME NEW w, NEW c, NEW m \in Nat, NEW n \in Nat, m <= n
  PROVE  Cardinality(Theirs(w, c, m)) <= Cardinality(Theirs(w, c, n))
<1>1. Theirs(w, c, m) \in SUBSET Theirs(w, c, n)
  BY DEF Theirs
<1> QED BY <1>1, TheirsCounted, FS_Subset

LEMMA TheirsStay ==
  ASSUME NEW w, NEW v, NEW c, NEW n \in Nat, \A k \in 1 .. n : v[k] = w[k]
  PROVE  Theirs(v, c, n) = Theirs(w, c, n)
BY DEF Theirs

LEMMA TheirsAdded ==
  ASSUME NEW c, NEW n \in Nat, NEW m \in Nat, n <= m,
         \A k \in 1 .. n : wire'[k] = wire[k],
         \A k \in n + 1 .. m : wire'[k][1] = c
  PROVE  Cardinality(Theirs(wire', c, m)) = Cardinality(Theirs(wire, c, n)) + (m - n)
<1> DEFINE Old == Theirs(wire, c, n)
           New == n + 1 .. m
<1>1. Theirs(wire', c, m) = Old \cup New /\ Old \cap New = {}
  BY DEF Theirs
<1>2. IsFiniteSet(New) /\ Cardinality(New) = m - n
  <2>1. n + 1 \in Int /\ m \in Int
    OBVIOUS
  <2>2. IsFiniteSet(n + 1 .. m) /\ Cardinality(n + 1 .. m) = IF n + 1 > m THEN 0 ELSE m - (n + 1) + 1
    BY <2>1, FS_Interval
  <2> QED BY <2>2
<1>3. IsFiniteSet(Old) /\ Cardinality(Old) \in Nat
  BY TheirsCounted
<1> HIDE DEF Old, New
<1>4. Cardinality(Old \cup New) = Cardinality(Old) + Cardinality(New) - Cardinality({})
  BY <1>1, <1>2, <1>3, FS_Union
<1>5. Cardinality(Old \cup New) = Cardinality(Old) + (m - n)
  BY <1>2, <1>3, <1>4, FS_EmptySet
<1> QED BY <1>1, <1>5 DEF Old

\* What c's calls of Send have put behind them, and how much of the wire that is.
Sending(c) == call[c].at \in {"turn", "write", "sent"}
Behind(c) == IF Sending(c) THEN tally[c].told + call[c].len - call[c].left ELSE tally[c].told
Reached(c) == IF call[c].at = "sent" THEN Len(wire) ELSE Len(wire) - unacked

\* An ACK covers all that is in flight, and who waits for one is told by its size:
\* m_sentSize is that of a chunk only after all were acknowledged.
Covered(c) == Behind(c) <= Cardinality(Theirs(wire, c, Reached(c)))

Acks ==
  /\ sock = "open" /\ sentSize > 0 => unacked = 0
  /\ \A c \in Contexts : /\ call[c].left <= call[c].len
                         /\ call[c].at = "idle" => call[c].left = call[c].len
  /\ sock # "invalid" => \A c \in Contexts : Covered(c)

LEMMA AckFacts ==
  ASSUME TypeOK, NEW c \in Contexts
  PROVE  /\ Len(wire) \in Nat /\ unacked \in Nat /\ Len(wire) - unacked \in Nat /\ sentSize \in Nat
         /\ Reached(c) \in Nat /\ Len(wire) - unacked <= Reached(c) /\ Reached(c) <= Len(wire)
         /\ tally[c].told \in Nat /\ call[c].len \in Nat /\ call[c].left \in Nat
         /\ tally \in [Contexts -> [calls : 0 .. SENDS, told : Nat]] /\ call \in [Contexts -> Calls]
         /\ call[c].chunk \in Nat /\ call[c] \in Calls
<1>1. Len(wire) \in Nat
  BY LenProperties DEF TypeOK
<1>2. unacked \in Nat /\ unacked <= Len(wire) /\ sentSize \in Nat
  BY LimitAssumption DEF TypeOK
<1>3. /\ tally \in [Contexts -> [calls : 0 .. SENDS, told : Nat]] /\ call \in [Contexts -> Calls]
  BY DEF TypeOK
<1>4. call[c].len \in Nat /\ call[c].left \in Nat /\ call[c].chunk \in Nat
  BY <1>3, LimitAssumption DEF Calls
<1> QED BY <1>1, <1>2, <1>3, <1>4 DEF Reached

LEMMA AcksStart == Init => Acks
<1> SUFFICES ASSUME Init PROVE Acks
  OBVIOUS
<1>1. ASSUME NEW c \in Contexts PROVE Covered(c)
  <2>1. Behind(c) = 0
    BY DEF Init, Behind, Sending, Idle
  <2>2. Reached(c) = 0
    BY DEF Init, Reached, Idle
  <2> QED BY <2>1, <2>2, TheirsCounted DEF Covered
<1> QED BY <1>1 DEF Init, Acks, Idle

\* Nothing was written or acknowledged, and c has at most come from the wait for its
\* ACK to what it does next.
LEMMA AcksStay ==
  ASSUME TypeOK, TypeOK', Acks, NEW c \in Contexts, UNCHANGED <<wire, unacked, sentSize>>,
         sock' # "invalid" => sock # "invalid",
         sock' = "open" => sock = "open" \/ unacked = 0,
         \A d \in Contexts \ {c} : call'[d] = call[d] /\ tally'[d] = tally[d],
         call'[c].left <= call'[c].len,
         call'[c].at = "idle" => call'[c].left = call'[c].len,
         sock' # "invalid" => Behind(c)' <= Behind(c),
         sock' # "invalid" => call[c].at # "sent" \/ call'[c].at = "sent" \/ unacked = 0
  PROVE  Acks'
<1>1. ASSUME NEW d \in Contexts, sock' # "invalid" PROVE Covered(d)'
  <2>0. Covered(d)
    BY <1>1 DEF Acks
  <2>1. CASE d # c
    BY <2>0, <2>1 DEF Covered, Behind, Sending, Reached
  <2>2. CASE d = c
    <3>1. Reached(c) <= Reached(c)' /\ Reached(c) \in Nat /\ Reached(c)' \in Nat
      BY <1>1, <2>2, AckFacts DEF Reached
    <3>2. Cardinality(Theirs(wire, c, Reached(c))) <= Cardinality(Theirs(wire, c, Reached(c)'))
      BY <3>1, TheirsGrow
    <3>3. /\ Cardinality(Theirs(wire, c, Reached(c))) \in Nat
          /\ Cardinality(Theirs(wire, c, Reached(c)')) \in Nat
      BY <3>1, TheirsCounted
    <3>4. Behind(c) \in Int
      BY AckFacts DEF Behind
    <3>5. Behind(c)' \in Int
      <4>1. tally'[c].told \in Nat /\ call'[c].len \in Nat /\ call'[c].left \in Nat
        <5>1. /\ tally' \in [Contexts -> [calls : 0 .. SENDS, told : Nat]]
              /\ call' \in [Contexts -> Calls]
          BY DEF TypeOK
        <5> QED BY <5>1, LimitAssumption DEF Calls
      <4> QED BY <4>1 DEF Behind, Sending
    <3> QED BY <1>1, <2>0, <2>2, <3>2, <3>3, <3>4, <3>5 DEF Covered
  <2> QED BY <2>1, <2>2
<1>2. \A d \in Contexts : (/\ call[d].left <= call[d].len
                           /\ call[d].at = "idle" => call[d].left = call[d].len)'
  BY DEF Acks
<1>3. (sock = "open" /\ sentSize > 0 => unacked = 0)'
  BY DEF Acks
<1> QED BY <1>1, <1>2, <1>3 DEF Acks

LEMMA CopyMoves ==
  ASSUME TypeOK, NEW c \in Contexts, RecvCopy(c)
  PROVE  /\ call[c].at = "copy" /\ call'[c].at = "recv" /\ call'[c].len = call[c].len
         /\ buf # <<>> => call'[c].left = call[c].left - CopySize(c)
<1>1. call \in [Contexts -> Calls] /\ call[c] \in Calls
  BY AckFacts
<1>2. call[c].at = "copy"
  BY DEF RecvCopy, At
<1>3. CASE buf = <<>>
  BY <1>2, <1>3, AfterMove DEF RecvCopy, Stays
<1>4. CASE buf # <<>>
  <2>1. PICK more \in {SubSeq(buf[1], offset + 1, offset + CopySize(c))} :
          call' = [call EXCEPT ![c].at = "recv", ![c].left = @ - CopySize(c), ![c].got = @ \o more]
    BY <1>4 DEF RecvCopy
  <2>2. call'[c] = [call[c] EXCEPT !.at = "recv", !.left = @ - CopySize(c), !.got = @ \o more]
    BY <1>1, <2>1
  <2> QED BY <1>1, <1>2, <1>4, <2>2 DEF Calls
<1> QED BY <1>3, <1>4

\* A step of a context that sends nothing.
LEMMA OthersAcks ==
  ASSUME TypeOK, TypeOK', Roles, Acks, NEW c \in Contexts,
         \/ Run(c) \/ Bind(c) \/ Connect(c) \/ Resolve(c) \/ Dial(c) \/ Bound(c) \/ Dialled(c)
         \/ RecvDone(c) \/ RecvFails(c) \/ RecvWait(c) \/ RecvCopy(c)
         \/ \E n \in 1 .. MAXLEN : Recv(c, n)
  PROVE  Acks'
<1> USE DEF vars, sockVars, bufVars, userVars, lwipVars
<1>1. /\ UNCHANGED <<wire, unacked, sentSize, tally>>
      /\ \/ sock' = sock
         \/ sock' = "connecting" /\ sock = "new"
  BY DEF Run, Bind, Connect, Resolve, Dial, Bound, Dialled, RecvDone, RecvFails, RecvWait, RecvCopy, Recv
<1>2. UserStep(c)
  BY DEF UserStep
<1>3. \/ call' = call
      \/ ~Sending(c) /\ call[c].at # "sent" /\ ~Sending(c)'
  <2>1. CASE Run(c) \/ Bind(c) \/ Resolve(c) \/ Dial(c) \/ Bound(c) \/ Dialled(c)
    BY <2>1, AfterMove DEF Run, Bind, Resolve, Dial, Bound, Dialled, At, Stays, Sending, Idle
  <2>2. CASE RecvDone(c) \/ RecvFails(c) \/ RecvWait(c)
    BY <2>2, AfterMove DEF RecvDone, RecvFails, RecvWait, At, Stays, Sending, Idle
  <2>3. CASE RecvCopy(c)
    <3>1. call[c].at = "copy" /\ call'[c].at = "recv"
      BY <2>3, CopyMoves
    <3> QED BY <3>1 DEF Sending
  <2>4. CASE Connect(c) \/ \E n \in 1 .. MAXLEN : Recv(c, n)
    BY <2>4, AfterEnter DEF Connect, Recv, Sending
  <2> QED BY <2>1, <2>2, <2>3, <2>4
<1>4. Behind(c)' = Behind(c)
  BY <1>1, <1>3 DEF Behind, Sending
<1>5. /\ call'[c].left <= call'[c].len
      /\ call'[c].at = "idle" => call'[c].left = call'[c].len
  <2>1. CASE Run(c) \/ Bind(c) \/ Resolve(c) \/ Dial(c) \/ Bound(c) \/ Dialled(c)
    BY <2>1, AfterMove DEF Run, Bind, Resolve, Dial, Bound, Dialled, At, Stays, Idle, Acks
  <2>2. CASE RecvDone(c) \/ RecvFails(c) \/ RecvWait(c)
    BY <2>2, AfterMove DEF RecvDone, RecvFails, RecvWait, At, Stays, Idle, Acks
  <2>3. CASE RecvCopy(c)
    <3>1. CASE buf = <<>>
      BY <2>3, <3>1, AfterMove DEF RecvCopy, At, Stays, Acks
    <3>2. CASE buf # <<>>
      <4>1. CopySize(c) \in Nat /\ CopySize(c) <= call[c].left
        BY <3>2, CopySizeFits
      <4>2. call'[c].at = "recv" /\ call'[c].len = call[c].len /\ call'[c].left = call[c].left - CopySize(c)
        BY <2>3, <3>2, CopyMoves
      <4>3. call[c].left \in Nat /\ call[c].len \in Nat /\ call[c].left <= call[c].len
        BY AckFacts DEF Acks
      <4> QED BY <4>1, <4>2, <4>3
    <3> QED BY <3>1, <3>2
  <2>4. CASE Connect(c) \/ \E n \in 1 .. MAXLEN : Recv(c, n)
    BY <2>4, AfterEnter DEF Connect, Recv
  <2> QED BY <2>1, <2>2, <2>3, <2>4
<1>6. Behind(c)' <= Behind(c)
  <2>1. Behind(c) \in Int
    BY AckFacts DEF Behind
  <2> QED BY <1>4, <2>1
<1>7. \A d \in Contexts \ {c} : call'[d] = call[d] /\ tally'[d] = tally[d]
  BY <1>2, OneMoves
<1> QED BY <1>1, <1>3, <1>5, <1>6, <1>7, AcksStay

\* Steps of a call of Send that write nothing.
LEMMA SendAcks ==
  ASSUME TypeOK, TypeOK', Roles, Rooms, Acks, NEW c \in Contexts,
         \/ \E n \in 1 .. MAXLEN : Send(c, n)
         \/ SendTurn(c) \/ SendDone(c) \/ SendFails(c) \/ SendWait(c)
  PROVE  Acks'
<1> USE DEF vars, sockVars, bufVars, userVars, lwipVars
<1>1. UNCHANGED <<wire, unacked, sentSize, sock>>
  BY DEF Send, SendTurn, SendDone, SendFails, SendWait
<1>2. UserStep(c)
  BY DEF UserStep
<1>0. /\ tally[c].told \in Nat /\ call[c].len \in Nat /\ call[c].left \in Nat /\ call[c].chunk \in Nat
      /\ tally \in [Contexts -> [calls : 0 .. SENDS, told : Nat]] /\ unacked \in Nat /\ sentSize \in Nat
  BY AckFacts
<1>3. \A d \in Contexts \ {c} : call'[d] = call[d] /\ tally'[d] = tally[d]
  BY <1>2, OneMoves
<1>4. /\ call'[c].left <= call'[c].len
      /\ call'[c].at = "idle" => call'[c].left = call'[c].len
      /\ sock # "invalid" => Behind(c)' <= Behind(c)
      /\ sock # "invalid" => call[c].at # "sent" \/ call'[c].at = "sent" \/ unacked = 0
  <2>1. ASSUME NEW n \in 1 .. MAXLEN, Send(c, n)
        PROVE  /\ call'[c].at = "turn" /\ call[c].at = "idle" /\ Behind(c)' <= Behind(c)
               /\ call'[c].left <= call'[c].len
    <3>1. /\ call[c].at = "idle" /\ call'[c].at = "turn" /\ call'[c].len = n /\ call'[c].left = n
      BY <2>1, AfterEnter DEF Send
    <3>2. tally'[c].told = tally[c].told
      BY <1>0, <2>1 DEF Send
    <3> QED BY <1>0, <3>1, <3>2, LimitAssumption DEF Behind, Sending
  <2>2. CASE SendTurn(c)
    <3>1. Stays(c, call'[c].at) /\ call'[c].at \in {"turn", "write"} /\ call[c].at = "turn" /\ tally' = tally
      BY <2>2, AfterMove DEF SendTurn, At, Stays
    <3> QED BY <1>0, <3>1 DEF Behind, Sending, Stays, Acks
  <2>3. CASE SendDone(c)
    <3>1. call[c].at = "write" /\ call[c].left = 0 /\ call'[c] = Idle
      BY <2>3, AfterMove DEF SendDone, At
    <3>2. tally'[c].told = tally[c].told + call[c].len
      BY <1>0, <2>3 DEF SendDone, Tell
    <3> QED BY <1>0, <3>1, <3>2 DEF Behind, Sending, Idle
  <2>4. CASE SendFails(c)
    <3>1. call[c].at = "write" /\ call'[c] = Idle /\ tally' = tally
      BY <2>4, AfterMove DEF SendFails, At
    <3>2. call[c].left <= call[c].len
      BY DEF Acks
    <3> QED BY <1>0, <3>1, <3>2 DEF Behind, Sending, Idle
  <2>5. CASE SendWait(c)
    <3>1. /\ call[c].at = "sent" /\ tally' = tally
          /\ Stays(c, call'[c].at) /\ call'[c].at \in {"sent", "write"}
      BY <2>5, AfterMove DEF SendWait, At, Stays
    <3>2. Behind(c)' = Behind(c)
      BY <3>1 DEF Behind, Sending, Stays
    <3>3. sock # "invalid" => call'[c].at = "sent" \/ unacked = 0
      <4>1. CASE sock \in {"new", "connecting"}
        BY <4>1 DEF Rooms
      <4>2. CASE sock = "open" /\ call'[c].at # "sent"
        <5>1. sentSize = call[c].chunk
          BY <2>5, <4>2, AfterMove DEF SendWait, Stays
        <5>2. call[c].chunk > 0
          BY <3>1 DEF Rooms
        <5> QED BY <4>2, <5>1, <5>2 DEF Acks
      <4>3. sock \in {"new", "connecting", "open", "invalid"}
        BY DEF TypeOK
      <4> QED BY <4>1, <4>2, <4>3
    <3>4. Behind(c) \in Int
      BY <1>0 DEF Behind
    <3>5. Behind(c)' <= Behind(c)
      BY <3>2, <3>4
    <3>6. call'[c].left <= call'[c].len
      BY <3>1 DEF Stays, Acks
    <3>7. call'[c].at # "idle"
      BY <3>1
    <3> QED BY <3>3, <3>5, <3>6, <3>7
  <2> QED BY <2>1, <2>2, <2>3, <2>4, <2>5
<1> QED BY <1>1, <1>3, <1>4, AcksStay

\* A chunk is written after what was there.
LEMMA ChunkAcks ==
  ASSUME TypeOK, Acks, NEW c \in Contexts, NEW chunk \in Nat, chunk <= call[c].left,
         sentSize' = 0 /\ tally' = tally /\ sock = "open",
         call[c].at = "write",
         /\ call'[c].at = "sent" /\ call'[c].len = call[c].len
         /\ call'[c].left = call[c].left - chunk
         /\ \A d \in Contexts \ {c} : call'[d] = call[d],
         unacked' = unacked + chunk,
         Len(wire') = Len(wire) + chunk,
         \A k \in 1 .. Len(wire) : wire'[k] = wire[k],
         \A k \in Len(wire) + 1 .. Len(wire) + chunk : wire'[k][1] = c
  PROVE  Acks'
<1>4. /\ Len(wire) \in Nat /\ unacked \in Nat /\ Len(wire) - unacked \in Nat
      /\ tally[c].told \in Nat /\ call[c].len \in Nat /\ call[c].left \in Nat
  BY AckFacts
<1>7. Len(wire') - unacked' = Len(wire) - unacked
  BY <1>4
<1>8. ASSUME NEW d \in Contexts PROVE Covered(d)'
  <2>0. Covered(d)
    BY DEF Acks
  <2>1. CASE d = c
    <3>1. Reached(c) = Len(wire) - unacked /\ Reached(c)' = Len(wire) + chunk
      BY DEF Reached
    <3>2. Behind(c) = tally[c].told + call[c].len - call[c].left
      BY DEF Behind, Sending
    <3>3. Behind(c)' = tally[c].told + call[c].len - (call[c].left - chunk)
      BY DEF Behind, Sending
    <3>4. Cardinality(Theirs(wire', c, Len(wire) + chunk)) = Cardinality(Theirs(wire, c, Len(wire))) + chunk
      <4>1. Len(wire) + chunk \in Nat /\ Len(wire) <= Len(wire) + chunk /\ Len(wire) + chunk - Len(wire) = chunk
        BY <1>4
      <4>2. Cardinality(Theirs(wire', c, Len(wire) + chunk))
              = Cardinality(Theirs(wire, c, Len(wire))) + (Len(wire) + chunk - Len(wire))
        <5> DEFINE m == Len(wire) + chunk
        <5>1. m \in Nat /\ Len(wire) <= m /\ \A k \in Len(wire) + 1 .. m : wire'[k][1] = c
          BY <4>1
        <5> HIDE DEF m
        <5>2. Cardinality(Theirs(wire', c, m)) = Cardinality(Theirs(wire, c, Len(wire))) + (m - Len(wire))
          BY <1>4, <5>1, TheirsAdded
        <5> QED BY <5>2 DEF m
      <4> QED BY <4>1, <4>2
    <3>5. Cardinality(Theirs(wire, c, Len(wire) - unacked)) <= Cardinality(Theirs(wire, c, Len(wire)))
      BY <1>4, TheirsGrow
    <3>6. /\ Cardinality(Theirs(wire, c, Len(wire))) \in Nat
          /\ Cardinality(Theirs(wire, c, Len(wire) - unacked)) \in Nat
      BY <1>4, TheirsCounted
    <3>7. tally[c].told + call[c].len - call[c].left <= Cardinality(Theirs(wire, c, Len(wire) - unacked))
      BY <2>0, <2>1, <3>1, <3>2 DEF Covered
    <3>8. Behind(c)' <= Cardinality(Theirs(wire', c, Len(wire) + chunk))
      <4> DEFINE b == tally[c].told + call[c].len - call[c].left
                 p == Cardinality(Theirs(wire, c, Len(wire) - unacked))
                 q == Cardinality(Theirs(wire, c, Len(wire)))
      <4>1. b \in Int /\ Behind(c)' = b + chunk
        <5>1. /\ tally[c].told + call[c].len - (call[c].left - chunk) = b + chunk
              /\ b \in Int
          <6>1. PICK t, f, l \in Nat : t = tally[c].told /\ f = call[c].len /\ l = call[c].left
            BY <1>4
          <6>2. t + f - (l - chunk) = (t + f - l) + chunk /\ t + f - l \in Int
            OBVIOUS
          <6> QED BY <6>1, <6>2
        <5> QED BY <3>3, <5>1
      <4>2. p \in Nat /\ q \in Nat /\ b <= p /\ p <= q
        BY <3>5, <3>6, <3>7
      <4>3. Cardinality(Theirs(wire', c, Len(wire) + chunk)) = q + chunk
        BY <3>4
      <4> HIDE DEF b, p, q
      <4>4. b + chunk <= q + chunk
        BY <4>1, <4>2
      <4> QED BY <4>1, <4>3, <4>4
    <3> QED BY <2>1, <3>1, <3>8 DEF Covered
  <2>2. CASE d # c
    <3>1. Behind(d)' = Behind(d)
      BY <2>2 DEF Behind, Sending
    <3>2. Behind(d) \in Int /\ Reached(d) \in Nat /\ Reached(d) <= Len(wire)
      <4>1. tally[d].told \in Nat /\ call[d].len \in Nat /\ call[d].left \in Nat
        BY AckFacts
      <4>2. Behind(d) \in Int
        BY <4>1 DEF Behind
      <4> QED BY <4>2, AckFacts
    <3>3. Reached(d)' \in Nat /\ Reached(d) <= Reached(d)'
      BY <1>4, <1>7, <2>2 DEF Reached
    <3>4. Theirs(wire', d, Reached(d)) = Theirs(wire, d, Reached(d))
      <4>1. \A k \in 1 .. Reached(d) : wire'[k] = wire[k]
        <5>1. \A k \in 1 .. Reached(d) : k \in 1 .. Len(wire)
          BY <1>4, <3>2
        <5>2. \A k \in 1 .. Len(wire) : wire'[k] = wire[k]
          OBVIOUS
        <5> QED BY <5>1, <5>2
      <4> QED BY <3>2, <4>1, TheirsStay
    <3>5. Cardinality(Theirs(wire', d, Reached(d))) <= Cardinality(Theirs(wire', d, Reached(d)'))
      BY <3>2, <3>3, TheirsGrow
    <3>6. /\ Cardinality(Theirs(wire', d, Reached(d))) \in Nat
          /\ Cardinality(Theirs(wire', d, Reached(d)')) \in Nat
      BY <3>2, <3>3, TheirsCounted
    <3>7. Behind(d) <= Cardinality(Theirs(wire', d, Reached(d)))
      BY <2>0, <3>4 DEF Covered
    <3>8. Behind(d)' <= Cardinality(Theirs(wire', d, Reached(d)'))
      BY <3>1, <3>2, <3>5, <3>6, <3>7
    <3> QED BY <3>8 DEF Covered
  <2> QED BY <2>1, <2>2
<1>9. \A d \in Contexts : (/\ call[d].left <= call[d].len
                           /\ call[d].at = "idle" => call[d].left = call[d].len)'
  <2> SUFFICES ASSUME NEW d \in Contexts
               PROVE  /\ call'[d].left <= call'[d].len
                      /\ call'[d].at = "idle" => call'[d].left = call'[d].len
    OBVIOUS
  <2>1. /\ call[d].left <= call[d].len
        /\ call[d].at = "idle" => call[d].left = call[d].len
    BY DEF Acks
  <2>2. CASE d = c
    <3>1. call[c].left - chunk <= call[c].len
      BY <1>4, <2>1, <2>2
    <3>2. call'[c].at # "idle"
      OBVIOUS
    <3> QED BY <2>2, <3>1, <3>2
  <2> QED BY <2>1, <2>2
<1> QED BY <1>8, <1>9 DEF Acks

LEMMA WriteAcks ==
  ASSUME TypeOK, TypeOK', Roles, Rooms, Acks, NEW c \in Contexts, SendWrite(c)
  PROVE  Acks'
<1> USE DEF vars, sockVars, bufVars, userVars, lwipVars
<1>1. PICK chunk \in {Min({Room, call[c].left})} :
        /\ wire' = wire \o [k \in 1 .. chunk |-> <<c, tally[c].calls>>]
        /\ unacked' = unacked + chunk
        /\ call' = [call EXCEPT ![c].at = "sent", ![c].chunk = chunk, ![c].left = @ - chunk]
  BY DEF SendWrite
<1>2. /\ sentSize' = 0 /\ tally' = tally /\ sock' = sock /\ sock = "open"
      /\ call[c].at = "write" /\ call[c].left > 0
  BY DEF SendWrite, At
<1>3. chunk \in Nat /\ chunk <= SNDBUF - unacked /\ chunk <= call[c].left
  BY ChunkFits
<1>4. /\ Len(wire) \in Nat /\ unacked \in Nat /\ Len(wire) - unacked \in Nat
      /\ tally[c].told \in Nat /\ call[c].len \in Nat /\ call[c].left \in Nat
      /\ call \in [Contexts -> Calls] /\ call[c] \in Calls
  BY AckFacts
<1>5. /\ call'[c].at = "sent" /\ call'[c].len = call[c].len
      /\ call'[c].left = call[c].left - chunk
      /\ \A d \in Contexts \ {c} : call'[d] = call[d]
  <2>1. call'[c] = [call[c] EXCEPT !.at = "sent", !.chunk = chunk, !.left = @ - chunk]
    BY <1>1, <1>4
  <2> QED BY <1>1, <1>4, <2>1 DEF Calls
<1>6. /\ Len(wire') = Len(wire) + chunk
      /\ \A k \in 1 .. Len(wire) : wire'[k] = wire[k]
      /\ \A k \in Len(wire) + 1 .. Len(wire) + chunk : wire'[k] = <<c, tally[c].calls>>
  <2> DEFINE more == [k \in 1 .. chunk |-> <<c, tally[c].calls>>]
             Pairs == Seq({<<c, tally[c].calls>>} \cup Senders \X (1 .. SENDS))
  <2>1. more \in Pairs /\ Len(more) = chunk /\ \A k \in 1 .. chunk : more[k] = <<c, tally[c].calls>>
    <3>1. <<c, tally[c].calls>> \in {<<c, tally[c].calls>>} \cup Senders \X (1 .. SENDS)
      OBVIOUS
    <3>2. more \in Pairs
      BY <1>3, <3>1, IsASeq
    <3>3. Len(more) = chunk
      BY <1>3, <3>2, LenProperties
    <3> QED BY <3>2, <3>3
  <2>2. wire \in Pairs
    BY DEF TypeOK
  <2> HIDE DEF more
  <2>3. /\ Len(wire \o more) = Len(wire) + Len(more)
        /\ \A k \in 1 .. Len(wire) + Len(more) :
             (wire \o more)[k] = IF k <= Len(wire) THEN wire[k] ELSE more[k - Len(wire)]
    BY <2>1, <2>2, ConcatProperties
  <2>4. wire' = wire \o more
    BY <1>1 DEF more
  <2>5. \A k \in Len(wire) + 1 .. Len(wire) + chunk :
          /\ k \in 1 .. Len(wire) + Len(more) /\ ~(k <= Len(wire)) /\ k - Len(wire) \in 1 .. chunk
    BY <1>3, <1>4, <2>1
  <2>6. \A k \in 1 .. Len(wire) : k \in 1 .. Len(wire) + Len(more) /\ k <= Len(wire)
    BY <1>3, <1>4, <2>1
  <2> QED BY <2>1, <2>3, <2>4, <2>5, <2>6
<1> QED
  <2>1. <<c, tally[c].calls>>[1] = c
    OBVIOUS
  <2>2. \A k \in Len(wire) + 1 .. Len(wire) + chunk : wire'[k][1] = c
    BY <1>6, <2>1
  <2> QED BY <1>1, <1>2, <1>3, <1>5, <1>6, <2>2, ChunkAcks

\* An ACK covers all that is in flight.
LEMMA SentAcks ==
  ASSUME ~PARTIAL, TypeOK, TypeOK', Acks, NEW n \in 1 .. SNDBUF, OnTCPSent(n)
  PROVE  Acks'
<1> USE DEF vars, sockVars, bufVars, userVars, lwipVars
<1>1. /\ unacked' = 0 /\ sentSize' = n /\ sock = "open"
      /\ UNCHANGED <<sock, call, tally, wire>>
  <2>1. unacked' = unacked - n /\ n = unacked
    BY DEF OnTCPSent
  <2>2. n \in Nat
    BY LimitAssumption
  <2> QED BY <2>1, <2>2 DEF OnTCPSent
<1>2. ASSUME NEW d \in Contexts PROVE Covered(d)'
  <2>0. Covered(d)
    BY <1>1 DEF Acks
  <2>1. Behind(d)' = Behind(d) /\ Behind(d) \in Int
    BY <1>1, AckFacts DEF Behind, Sending
  <2>2. /\ Reached(d)' = Len(wire) /\ Len(wire) \in Nat
        /\ Reached(d) \in Nat /\ Reached(d) <= Len(wire)
    BY <1>1, AckFacts DEF Reached
  <2>3. Cardinality(Theirs(wire, d, Reached(d))) <= Cardinality(Theirs(wire, d, Len(wire)))
    BY <2>2, TheirsGrow
  <2>4. /\ Cardinality(Theirs(wire, d, Reached(d))) \in Nat
        /\ Cardinality(Theirs(wire, d, Len(wire))) \in Nat
    BY <2>2, TheirsCounted
  <2>5. Behind(d) <= Cardinality(Theirs(wire, d, Reached(d)))
    BY <2>0 DEF Covered
  <2>6. Behind(d)' <= Cardinality(Theirs(wire, d, Len(wire)))
    BY <2>1, <2>3, <2>4, <2>5
  <2> QED BY <1>1, <2>2, <2>6 DEF Covered
<1> QED BY <1>1, <1>2 DEF Acks

\* All else that lwIP does leaves what was sent.
LEMMA LwipAcks ==
  ASSUME TypeOK, TypeOK', Rooms, Acks, LwipStep, ~ \E n \in 1 .. SNDBUF : OnTCPSent(n)
  PROVE  Acks'
<1> USE DEF vars, sockVars, bufVars, userVars, lwipVars
<1>1. UNCHANGED <<call, tally>>
  BY LwipMoves
<1>2. UNCHANGED <<wire, unacked, sentSize>>
  BY DEF LwipStep, DnsFound, OnConnect, OnTCPRecv, OnTCPFin, OnError, OnSendError, Close
<1>3. \/ sock' = sock
      \/ sock' = "invalid"
      \/ sock = "connecting" /\ sock' = "open"
  BY DEF LwipStep, DnsFound, OnConnect, OnTCPRecv, OnTCPFin, OnError, OnSendError, Close
<1>4. ASSUME NEW d \in Contexts, sock' # "invalid" PROVE Covered(d)'
  <2>1. Covered(d)
    BY <1>3, <1>4 DEF Acks
  <2> QED BY <1>1, <1>2, <2>1 DEF Covered, Behind, Sending, Reached
<1>5. sock' = "open" /\ sentSize > 0 => unacked = 0
  BY <1>3 DEF Acks, Rooms
<1> QED BY <1>1, <1>2, <1>4, <1>5 DEF Acks

LEMMA AcksKept ==
  ASSUME ~PARTIAL, SockInv, SockInv', Acks, [Next]_vars
  PROVE  Acks'
<1>0. TypeOK /\ TypeOK' /\ Roles /\ Rooms
  BY DEF SockInv
<1>1. CASE UNCHANGED vars
  BY <1>1 DEF Acks, Covered, Behind, Sending, Reached, vars, sockVars, bufVars, userVars, lwipVars
<1>2. CASE LwipStep
  BY <1>0, <1>2, SentAcks, LwipAcks
<1>3. ASSUME NEW c \in Contexts, UserStep(c) PROVE Acks'
  BY <1>0, <1>3, OthersAcks, SendAcks, WriteAcks DEF UserStep
<1> QED BY <1>1, <1>2, <1>3 DEF Next

\* If every ACK covers all that is in flight, then as long as the socket lives a
\* Send writes its next chunk, and says true, only after all it wrote was
\* acknowledged, however many senders share the socket and whoever wakes unasked.
THEOREM SentIsAcked ==
  ASSUME ~PARTIAL
  PROVE  Spec => []AckedWhileOpen
<1>1. Init => Acks
  BY AcksStart
<1>2. SockInv /\ SockInv' /\ Acks /\ [Next]_vars => Acks'
  BY AcksKept
<1>3. SockInv /\ Acks => AckedWhileOpen
  <2> SUFFICES ASSUME SockInv, Acks, sock = "open", NEW c \in Senders,
                      call[c].at \in {"idle", "turn", "write"}
               PROVE  tally[c].told + call[c].len - call[c].left <= AckedBy(c)
    BY DEF AckedWhileOpen
  <2>1. c \in Contexts /\ TypeOK
    BY DEF Contexts, SockInv
  <2>2. Covered(c) /\ (call[c].at = "idle" => call[c].left = call[c].len)
    BY <2>1 DEF Acks
  <2>3. tally[c].told \in Nat /\ call[c].len \in Nat /\ call[c].left \in Nat
    BY <2>1, AckFacts
  <2>4. Behind(c) = tally[c].told + call[c].len - call[c].left
    BY <2>2, <2>3 DEF Behind, Sending
  <2>5. Reached(c) = Len(wire) - unacked
    BY DEF Reached
  <2>6. AckedBy(c) = Cardinality(Theirs(wire, c, Len(wire) - unacked))
    BY DEF AckedBy, SentBy, Theirs
  <2> QED BY <2>2, <2>4, <2>5, <2>6 DEF Covered
<1> QED BY <1>1, <1>2, <1>3, SockInvAlways, PTL DEF Spec
=============================================================================
