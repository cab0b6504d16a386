----------------------------- MODULE TcpSocket -----------------------------
(***************************************************************************)
(* communication/tcp_socket.cpp: blocking Connect, Send and Recv on top of *)
(* lwIP's callbacks.  A context (the loop or a thread) runs until it parks *)
(* itself in SuspendThread or DelayThread; callbacks, and the calls of     *)
(* other contexts, come in between.                                        *)
(*                                                                         *)
(* Which context runs next is left open.  With SPURIOUS even one that      *)
(* nobody resumed may: ThreadManager's ResumeThread has that effect.       *)
(***************************************************************************)
EXTENDS Naturals, Sequences, FiniteSets, FiniteSetsExt

CONSTANTS
  LOOP,       \* thread id 0; an empty IPAddress converts to it
  NoId,       \* -1 in m_suspended*Thread
  Dialers,    \* the contexts that connect
  Readers,    \* the contexts that receive
  Senders,    \* the contexts that send
  SNDBUF,     \* lwIP's send buffer, in bytes
  MAXLEN,     \* the longest block sent or asked for
  BYTES,      \* how much the peer sends in all
  SENDS,      \* how often each sender calls Send
  PARTIAL,    \* an ACK may cover part of what is in flight
  SPURIOUS,   \* parked contexts may run without having been resumed
  DROPS,      \* the connection may fail or be closed by the peer
  CLOSES      \* another context may close it

Contexts == {LOOP} \cup Dialers \cup Readers \cup Senders

ASSUME LimitAssumption ==
  SNDBUF \in Nat \ {0} /\ MAXLEN \in Nat /\ BYTES \in Nat /\ SENDS \in Nat
ASSUME ContextAssumption == NoId \notin Contexts

\* One thread connects a socket, one receives from it (a connector's).
ASSUME RoleAssumption ==
  (\A c, d \in Dialers : c = d) /\ (\A c, d \in Readers : c = d)

VARIABLES
  sock,       \* m_socket: "new", "connecting", "open", "invalid" (null)
  lastError,  \* m_lastError; the constructor leaves it "unset"
  waiter,     \* m_suspendedThread, m_suspendedRecvThread, m_suspendedSendThread
  sentSize,   \* m_sentSize
  timer,      \* m_sendErrorTimer is armed
  buf,        \* m_buf: the chain of pbufs, each a sequence of bytes
  offset,     \* m_buf_offset
  call,       \* call[c]: where context c is in its call, and the call's locals
  cpu,        \* the context that runs, NoId while lwIP does
  woken,      \* contexts that were resumed and have not run since
  lookups,    \* pending name lookups: who asked, whom the answer resumes
  wire,       \* lwIP: the bytes written, each as <<sender, number of its call>>
  unacked,    \* lwIP: how many of them are not acknowledged yet
  arrived,    \* lwIP: how many bytes the peer has sent
  credit,     \* lwIP: how much of the receive window was given back
  tally,      \* tally[c]: c's calls of Send, and the bytes they reported sent
  outcome,    \* the block Recv returned last, and whether a Recv has failed
  up          \* FALSE once lwIP was called with a null pcb

sockVars == <<sock, lastError, waiter, sentSize, timer>>
bufVars == <<buf, offset, credit>>
userVars == <<tally, outcome>>
lwipVars == <<lookups, wire, unacked, arrived>>
vars == <<sockVars, bufVars, userVars, lwipVars, call, cpu, woken, up>>

Calls == [at : {"idle", "bound", "connect", "dial", "dialled", "turn", "write", "sent",
                "recv", "copy"},
          len : 0 .. MAXLEN, left : 0 .. MAXLEN, chunk : 0 .. SNDBUF,
          got : Seq(1 .. BYTES)]

Idle == [at |-> "idle", len |-> 0, left |-> 0, chunk |-> 0, got |-> <<>>]

TypeOK ==
  /\ sock \in {"new", "connecting", "open", "invalid"}
  /\ lastError \in {"unset", "ok", "error"}
  /\ waiter \in [{"connect", "recv", "send"} -> Contexts \cup {NoId}]
  /\ sentSize \in 0 .. SNDBUF
  /\ timer \in BOOLEAN
  /\ buf \in Seq(Seq(1 .. BYTES) \ {<<>>})
  /\ offset \in Nat /\ (buf = <<>> => offset = 0) /\ (buf # <<>> => offset < Len(buf[1]))
  /\ call \in [Contexts -> Calls]
  /\ cpu \in Contexts \cup {NoId}
  /\ woken \subseteq Contexts
  /\ lookups \subseteq [by : Contexts, resumes : Contexts]
  /\ wire \in Seq(Senders \X (1 .. SENDS))
  /\ unacked \in 0 .. SNDBUF /\ unacked <= Len(wire)
  /\ arrived \in 0 .. BYTES
  /\ credit \in 0 .. BYTES
  /\ tally \in [Contexts -> [calls : 0 .. SENDS, told : Nat]]
  /\ outcome \in [block : Seq(1 .. BYTES), failed : BOOLEAN]
  /\ up \in BOOLEAN

\* Without anybody to connect it the socket is one that ConnectThread has
\* handed to a connector.
Init ==
  /\ sock = IF Dialers = {} THEN "open" ELSE "new"
  /\ lastError = IF Dialers = {} THEN "ok" ELSE "unset"
  /\ waiter = [f \in {"connect", "recv", "send"} |-> NoId]
  /\ sentSize = 0
  /\ timer = FALSE
  /\ buf = <<>>
  /\ offset = 0
  /\ call = [c \in Contexts |-> Idle]
  /\ cpu = NoId
  /\ woken = {}
  /\ lookups = {}
  /\ wire = <<>>
  /\ unacked = 0
  /\ arrived = 0
  /\ credit = 0
  /\ tally = [c \in Contexts |-> [calls |-> 0, told |-> 0]]
  /\ outcome = [block |-> <<>>, failed |-> FALSE]
  /\ up = TRUE

----------------------------------------------------------------------------
(***************************************************************************)
(* Contexts: running, parking, being resumed.                              *)
(***************************************************************************)

Lwip == up /\ cpu = NoId

At(c, place) == up /\ cpu = c /\ call[c].at = place

Goto(c, place) == call' = [call EXCEPT ![c].at = place] /\ UNCHANGED cpu

Park(c, place) == call' = [call EXCEPT ![c].at = place] /\ cpu' = NoId

Return(c) == call' = [call EXCEPT ![c] = Idle] /\ cpu' = NoId

Enter(c, place, n) ==
  /\ Lwip
  /\ call[c].at = "idle"
  /\ call' = [call EXCEPT ![c] = [at |-> place, len |-> n, left |-> n, chunk |-> 0,
                                  got |-> <<>>]]
  /\ cpu' = c

\* A parked context goes on once it was resumed; the wait for a turn to send
\* is a poll (DelayThread) that ends by itself.
Run(c) ==
  /\ Lwip
  /\ call[c].at # "idle"
  /\ c \in woken \/ SPURIOUS \/ call[c].at = "turn"
  /\ cpu' = c
  /\ woken' = woken \ {c}
  /\ UNCHANGED <<sockVars, bufVars, userVars, call, lwipVars, up>>

Register(f, c) == waiter' = [waiter EXCEPT ![f] = c]

\* Whoever is registered under f is resumed, once.
ResumeDropped(f) ==                            \* variant: no ets_post
  Register(f, NoId) /\ UNCHANGED woken
Resume(f) ==
  IF waiter[f] = NoId
  THEN UNCHANGED <<waiter, woken>>
  ELSE woken' = woken \cup {waiter[f]} /\ Register(f, NoId)

----------------------------------------------------------------------------
(***************************************************************************)
(* Bind and Connect.                                                       *)
(***************************************************************************)

\* A name makes Bind wait for its lookup; the address object carries the
\* caller's thread id to the answer.  Without a name Bind just returns.
Bind(c) ==
  /\ Lwip /\ c \in Dialers /\ sock = "new"
  /\ call[c].at = "idle"
  /\ Park(c, "bound")
  /\ lookups' = lookups \cup {[by |-> c, resumes |-> c]}
  /\ UNCHANGED <<sockVars, bufVars, userVars, woken, wire, unacked, arrived, up>>

Connect(c) ==
  /\ c \in Dialers /\ sock = "new"
  /\ Enter(c, "connect", 0)
  /\ UNCHANGED <<sockVars, bufVars, userVars, woken, lwipVars, up>>

\* The host is an address, a name lwIP knows, or one to look up.  Here nobody
\* puts a thread id into the address object.
LookupFor(c) == [by |-> c, resumes |-> LOOP]

Resolve(c) ==
  /\ At(c, "connect")
  /\ \/ Goto(c, "dial") /\ UNCHANGED <<waiter, lookups>>
     \/ Return(c) /\ UNCHANGED <<waiter, lookups>>
     \/ /\ Register("connect", c)
        /\ lookups' = lookups \cup {LookupFor(c)}
        /\ Park(c, "dial")
  /\ UNCHANGED <<sock, lastError, sentSize, timer, bufVars, userVars, woken, wire, unacked,
                 arrived, up>>

\* tcp_connect starts, refuses, or is called on the null pcb of a socket that
\* was closed meanwhile.
Dial(c) ==
  /\ At(c, "dial")
  /\ \/ /\ sock = "new"
        /\ sock' = "connecting"
        /\ Register("connect", c)
        /\ Park(c, "dialled")
        /\ UNCHANGED up
     \/ sock = "new" /\ Goto(c, "dialled") /\ UNCHANGED <<sock, waiter, up>>
     \/ sock = "invalid" /\ up' = FALSE /\ UNCHANGED <<sock, waiter, call, cpu>>
  /\ UNCHANGED <<lastError, sentSize, timer, bufVars, userVars, woken, lwipVars>>

\* tcp_bind, which a socket closed meanwhile hands a null pcb as well.
Bound(c) ==
  /\ At(c, "bound")
  /\ \/ sock # "invalid" /\ Return(c) /\ UNCHANGED up
     \/ sock = "invalid" /\ up' = FALSE /\ UNCHANGED <<call, cpu>>
  /\ UNCHANGED <<sockVars, bufVars, userVars, woken, lwipVars>>

\* Connect's result is m_lastError = ERR_OK, whatever an unset m_lastError
\* holds; nothing here depends on it.
Dialled(c) ==
  /\ At(c, "dialled")
  /\ Return(c)
  /\ UNCHANGED <<sockVars, bufVars, userVars, woken, lwipVars, up>>

----------------------------------------------------------------------------
(***************************************************************************)
(* Send.                                                                   *)
(***************************************************************************)

Send(c, n) ==
  /\ c \in Senders /\ sock \in {"open", "invalid"}
  /\ tally[c].calls < SENDS
  /\ Enter(c, "turn", n)
  /\ tally' = [tally EXCEPT ![c].calls = @ + 1]
  /\ UNCHANGED <<sockVars, bufVars, outcome, woken, lwipVars, up>>

\* Another sender has its turn as long as it is registered.
OthersTurn == waiter.send # NoId /\ sock = "open"

SendTurn(c) ==
  /\ At(c, "turn")
  /\ IF OthersTurn THEN Park(c, "turn") ELSE Goto(c, "write")
  /\ UNCHANGED <<sockVars, bufVars, userVars, woken, lwipVars, up>>

\* Room: what tcp_sndbuf reports.
Room == SNDBUF - unacked

Tell(c, n) == tally' = [tally EXCEPT ![c].told = @ + n]

\* All of the block was written: Send returns true.
SendDone(c) ==
  /\ At(c, "write") /\ call[c].left = 0
  /\ Return(c)
  /\ Tell(c, call[c].len)
  /\ UNCHANGED <<sockVars, bufVars, outcome, woken, lwipVars, up>>

\* The socket is gone, or tcp_write refuses: Send returns false.
SendFails(c) ==
  /\ At(c, "write") /\ call[c].left > 0
  /\ Return(c)
  /\ UNCHANGED <<sockVars, bufVars, userVars, woken, lwipVars, up>>

SendWriteStale(c) ==                           \* variant: m_sentSize kept
  LET chunk == Min({Room, call[c].left}) IN
  /\ At(c, "write") /\ call[c].left > 0 /\ sock = "open"
  /\ wire' = wire \o [k \in 1 .. chunk |-> <<c, tally[c].calls>>]
  /\ unacked' = unacked + chunk
  /\ timer' = TRUE
  /\ call' = [call EXCEPT ![c].at = "sent", ![c].chunk = chunk, ![c].left = @ - chunk]
  /\ UNCHANGED <<sock, lastError, waiter, sentSize, bufVars, userVars, cpu, woken, lookups,
                 arrived, up>>

SendWrite(c) ==
  LET chunk == Min({Room, call[c].left}) IN
  /\ At(c, "write") /\ call[c].left > 0 /\ sock = "open"
  /\ wire' = wire \o [k \in 1 .. chunk |-> <<c, tally[c].calls>>]
  /\ unacked' = unacked + chunk
  /\ sentSize' = 0
  /\ timer' = TRUE
  /\ call' = [call EXCEPT ![c].at = "sent", ![c].chunk = chunk, ![c].left = @ - chunk]
  /\ UNCHANGED <<sock, lastError, waiter, bufVars, userVars, cpu, woken, lookups, arrived, up>>

SendWait(c) ==
  /\ At(c, "sent")
  /\ IF sentSize # call[c].chunk /\ sock = "open"
     THEN Park(c, "sent") /\ Register("send", c)
     ELSE Goto(c, "write") /\ UNCHANGED waiter
  /\ UNCHANGED <<sock, lastError, sentSize, timer, bufVars, userVars, woken, lwipVars, up>>

----------------------------------------------------------------------------
(***************************************************************************)
(* Recv.                                                                   *)
(***************************************************************************)

Recv(c, n) ==
  /\ c \in Readers /\ sock \in {"open", "invalid"}
  /\ Enter(c, "recv", n)
  /\ UNCHANGED <<sockVars, bufVars, userVars, woken, lwipVars, up>>

RecvDone(c) ==
  /\ At(c, "recv") /\ call[c].left = 0
  /\ Return(c)
  /\ outcome' = [outcome EXCEPT !.block = call[c].got]
  /\ UNCHANGED <<sockVars, bufVars, tally, woken, lwipVars, up>>

RecvFails(c) ==
  /\ At(c, "recv") /\ call[c].left > 0 /\ sock = "invalid"
  /\ Return(c)
  /\ outcome' = [block |-> <<>>, failed |-> TRUE]
  /\ UNCHANGED <<sockVars, bufVars, tally, woken, lwipVars, up>>

RecvWait(c) ==
  /\ At(c, "recv") /\ call[c].left > 0 /\ sock = "open"
  /\ IF buf = <<>>
     THEN Park(c, "copy") /\ Register("recv", c)
     ELSE Goto(c, "copy") /\ UNCHANGED waiter
  /\ UNCHANGED <<sock, lastError, sentSize, timer, bufVars, userVars, woken, lwipVars, up>>

\* pbuf_free drops the head and every further pbuf that only its predecessor
\* refers to; the next one survives because Consume takes a reference.
FreeChain(b) == <<>>                           \* variant: no pbuf_ref
FreeHead(b) == Tail(b)

Emptied(size) == Len(buf[1]) - offset <= size

\* The window is given back pbuf by pbuf, as long as the socket is valid.
NoCredit == 0                                  \* variant: no tcp_recved
Credit == IF sock = "open" THEN Len(buf[1]) ELSE 0

Consume(size) ==
  IF Emptied(size)
  THEN buf' = FreeHead(buf) /\ offset' = 0 /\ credit' = credit + Credit
  ELSE offset' = offset + size /\ UNCHANGED <<buf, credit>>

\* The rest of the block or of the first pbuf, whichever is less.  The rest of the
\* chain, which the code asks for as well, is never less than its first pbuf's.
CopySize(c) == Min({call[c].left, Len(buf[1]) - offset})

RecvCopy(c) ==
  /\ At(c, "copy")
  /\ IF buf = <<>>
     THEN Goto(c, "recv") /\ UNCHANGED bufVars
     ELSE LET size == CopySize(c) IN
          /\ call' = [call EXCEPT ![c].at = "recv",
                                  ![c].left = @ - size,
                                  ![c].got = @ \o SubSeq(buf[1], offset + 1, offset + size)]
          /\ Consume(size)
          /\ UNCHANGED cpu
  /\ UNCHANGED <<sockVars, userVars, woken, lwipVars, up>>

----------------------------------------------------------------------------
(***************************************************************************)
(* lwIP's callbacks, the timer, and Close by another context.              *)
(***************************************************************************)

\* The answer resumes the id in the address object, registered or not.
DnsFound(l) ==
  /\ Lwip /\ l \in lookups
  /\ lookups' = lookups \ {l}
  /\ woken' = woken \cup {l.resumes}
  /\ UNCHANGED <<sockVars, bufVars, userVars, call, cpu, wire, unacked, arrived, up>>

OnConnect ==
  /\ Lwip /\ sock = "connecting"
  /\ sock' = "open"
  /\ lastError' = "ok"
  /\ Resume("connect")
  /\ UNCHANGED <<sentSize, timer, bufVars, userVars, call, cpu, lwipVars, up>>

\* m_sentSize is what this ACK covers, not what all of them do.
OnTCPSent(n) ==
  /\ Lwip /\ sock = "open"
  /\ n <= unacked /\ (PARTIAL \/ n = unacked)
  /\ unacked' = unacked - n
  /\ lastError' = "ok"
  /\ sentSize' = n
  /\ timer' = FALSE
  /\ Resume("send")
  /\ UNCHANGED <<sock, bufVars, userVars, call, cpu, lookups, wire, arrived, up>>

OnTCPRecv(n) ==
  /\ Lwip /\ sock = "open"
  /\ arrived + n <= BYTES
  /\ arrived' = arrived + n
  /\ buf' = Append(buf, [k \in 1 .. n |-> arrived + k])
  /\ lastError' = "ok"
  /\ Resume("recv")
  /\ UNCHANGED <<sock, sentSize, timer, offset, credit, userVars, call, cpu, lookups, wire,
                 unacked, up>>

\* OnTCPRecv without data: the peer has closed, the socket aborts.
OnTCPFin ==
  /\ Lwip /\ DROPS /\ sock = "open"
  /\ sock' = "invalid"
  /\ Resume("recv")
  /\ UNCHANGED <<lastError, sentSize, timer, bufVars, userVars, call, cpu, lwipVars, up>>

\* Of those who wait only one is resumed: who connects, then who receives,
\* then who sends.
ResumeFirst ==
  IF waiter.connect # NoId THEN Resume("connect")
  ELSE IF waiter.recv # NoId THEN Resume("recv") ELSE Resume("send")

OnError ==
  /\ Lwip /\ DROPS /\ sock # "invalid"
  /\ sock' = "invalid"
  /\ lastError' = "error"
  /\ ResumeFirst
  /\ UNCHANGED <<sentSize, timer, bufVars, userVars, call, cpu, lwipVars, up>>

\* One second without an ACK.  Nobody disarms the timer of a socket that is
\* gone; what lwIP makes of the null pcb then depends on its version.
OnSendError ==
  /\ Lwip /\ DROPS /\ timer
  /\ timer' = FALSE
  /\ \/ /\ sock' = "invalid"
        /\ lastError' = "error"
        /\ ResumeFirst
        /\ UNCHANGED up
     \/ /\ sock = "invalid"
        /\ up' = FALSE
        /\ UNCHANGED <<sock, lastError, waiter, woken>>
  /\ UNCHANGED <<sentSize, bufVars, userVars, call, cpu, lwipVars>>

\* Close wakes nobody.
Close ==
  /\ Lwip /\ CLOSES /\ sock # "invalid"
  /\ sock' = "invalid"
  /\ UNCHANGED <<lastError, waiter, sentSize, timer, bufVars, userVars, call, cpu, woken,
                 lwipVars, up>>

----------------------------------------------------------------------------
UserStep(c) ==
  \/ Run(c)
  \/ Bind(c) \/ Connect(c) \/ Resolve(c) \/ Dial(c) \/ Bound(c) \/ Dialled(c)
  \/ SendTurn(c) \/ SendDone(c) \/ SendFails(c) \/ SendWrite(c) \/ SendWait(c)
  \/ RecvDone(c) \/ RecvFails(c) \/ RecvWait(c) \/ RecvCopy(c)
  \/ \E n \in 1 .. MAXLEN : Send(c, n) \/ Recv(c, n)

LwipStep ==
  \/ \E l \in lookups : DnsFound(l)
  \/ OnConnect
  \/ \E n \in 1 .. SNDBUF : OnTCPSent(n)
  \/ \E n \in 1 .. BYTES : OnTCPRecv(n)
  \/ OnTCPFin \/ OnError \/ OnSendError \/ Close

Next == LwipStep \/ \E c \in Contexts : UserStep(c)

Spec == Init /\ [][Next]_vars

\* A resumed context gets the CPU (ThreadManager) and runs until it parks; an
\* armed timer expires unless an ACK disarms it.
Fairness ==
  /\ \A c \in Senders :
       WF_vars(Run(c) \/ SendTurn(c) \/ SendDone(c) \/ SendFails(c) \/ SendWrite(c)
               \/ SendWait(c))
  /\ WF_vars(OnSendError \/ \E n \in 1 .. SNDBUF : OnTCPSent(n))

FairSpec == Spec /\ Fairness

----------------------------------------------------------------------------
(***************************************************************************)
(* Properties of sending.                                                  *)
(***************************************************************************)

Parked(c, place) == call[c].at = place /\ cpu # c

\* A sender that has its turn has room to write: it never spins on a full
\* buffer without yielding.
TurnHasRoom ==
  \A c \in Senders : call[c].at = "sent" => call[c].chunk > 0

\* A Send that was begun returns, if nobody else uses the socket and every ACK
\* covers all that is in flight.
SendReturns ==
  \A c \in Senders : (call[c].at # "idle") ~> (call[c].at = "idle" \/ ~up)

\* As long as the socket lives, whatever a Send has put behind it was acknowledged,
\* if every ACK covers all that is in flight: it writes the next chunk, and says
\* true, only then.
SentBy(c, n) == Cardinality({k \in 1 .. n : wire[k][1] = c})
AckedBy(c) == SentBy(c, Len(wire) - unacked)

AckedWhileOpen ==
  sock = "open" =>
    \A c \in Senders :
      call[c].at \in {"idle", "turn", "write"} =>
        tally[c].told + call[c].len - call[c].left <= AckedBy(c)

(***************************************************************************)
(* Properties of receiving.                                                *)
(***************************************************************************)

\* A byte is its place in the peer's stream, so the buffer tells how many bytes
\* were released before its first pbuf, and how many were copied.
Released == IF buf = <<>> THEN arrived ELSE buf[1][1] - 1
Copied == Released + offset

\* Nothing keeps a parked reader from its data: what is in the buffer has resumed
\* it, and for what was used up the window was given back, exactly, so that the
\* peer can send the rest.
ReaderServed ==
  /\ sock = "open" => credit = Released
  /\ \A c \in Readers : Parked(c, "copy") /\ buf # <<>> => c \in woken

\* A parked reader is going to run: it was resumed, or it is registered with a
\* socket that is alive.  OnError resumes only one of those who wait: the
\* reader, unless somebody still waits for the connection.
ReaderNotForgotten ==
  \A c \in Readers : Parked(c, "copy") =>
    \/ c \in woken
    \/ waiter.recv = c /\ sock = "open"

\* Recv implements the byte stream: what it returns is the peer's bytes in
\* order, without gap or repetition, as many as were asked for.
Receiving(c) == call[c].at \in {"recv", "copy"}

ReaderCall ==
  IF \E c \in Readers : Receiving(c)
  THEN call[CHOOSE c \in Readers : Receiving(c)]
  ELSE Idle

Stream == INSTANCE ByteStream WITH
  taken <- Copied - Len(ReaderCall.got),
  want <- ReaderCall.len,
  last <- outcome.block,
  broken <- outcome.failed

RecvIsStream == Stream!StreamSpec

\* Whoever waits for the connection was resumed, or is registered with a socket
\* that is still on its way.
DialerNotForgotten ==
  \A c \in Dialers : up /\ Parked(c, "dialled") =>
    \/ c \in woken
    \/ waiter.connect = c /\ sock = "connecting"

\* Of those who share the socket nobody is left behind: who connects or receives
\* is going to be woken, and who has the turn to send can send.
NobodyForgotten == TypeOK /\ ReaderNotForgotten /\ DialerNotForgotten /\ TurnHasRoom

\* "will return here when dns_found_callback fires" (tcp_socket.cpp:102): the
\* answer to a name lookup resumes whoever waits for it.
LookupResumesCaller ==
  \A l \in lookups : Parked(l.by, "bound") \/ Parked(l.by, "dial") => l.resumes = l.by
=============================================================================
