---------------------------- MODULE SecureSocket ----------------------------
(***************************************************************************)
(* communication/secure_socket.cpp over a TCP socket: the handshake, and   *)
(* blocks that are enciphered, each behind its length.  The socket below   *)
(* is ByteStream; what Recv hands over is ByteStream again.                *)
(*                                                                         *)
(* A byte is known by its place in the peer's stream: place p holds a      *)
(* length, a byte of text or padding, and deciphering a block keeps the    *)
(* places of its text.  An int takes one place, a cipher block BLOCK.      *)
(***************************************************************************)
EXTENDS Integers, FiniteSets, Sequences

CONSTANTS
  BLOCK,     \* AES_BLOCK_SIZE
  MAX,       \* MAX_BUFFER_LEN
  Senders,   \* the threads that call Send
  CALLS,     \* lengths callers ask for and send
  MAXLEN,    \* the longest of them
  LENGTHS,   \* lengths the peer announces, wrong ones among them
  BLOCKS,    \* how many blocks the peer sends
  BYTES,     \* bound: the length of the peer's stream
  SENDS,     \* bound: calls of Send
  OOM        \* bound: allocations that fail

ASSUME UnitAssumption == BLOCK \in Nat \ {0} /\ MAX \in Nat \ {0} /\ MAX % BLOCK = 0
ASSUME LengthAssumption ==
  LENGTHS \subseteq Nat /\ MAXLEN \in Nat /\ CALLS \subseteq 1 .. MAXLEN
ASSUME BoundAssumption == {BLOCKS, BYTES, SENDS, OOM} \subseteq Nat

VARIABLES
  wArrived, wTaken, wWant, wLast, wBroken,   \* TCPSocket::Recv, see ByteStream
  lens,      \* the lengths the peer announces
  peer,      \* "good", or the place in the handshake where it is wrong
  at,        \* where PerformSslVerify or Recv stands
  recvlen,   \* local of Recv: the length announced last
  recvdata,  \* local of Recv: its buffer was allocated
  data,      \* m_recvdata
  taken,     \* bytes of text handed over
  want,      \* the length the pending Recv asks for
  last,      \* the block the latest Recv returned
  broken,    \* Recv has returned false; its caller gives up the socket
  out,       \* what was written to the peer
  rest,      \* what each sender has yet to write of its block
  gone,      \* a sender has found the TCP socket gone
  handed,    \* bytes of text callers gave to Send while it was there
  whole,     \* history: those in blocks written whole, before any was lost
  lost,      \* history: the first byte of text out of its place, 0 without one
  sends,     \* number of these calls
  oom        \* number of failed allocations

wireVars == <<wArrived, wTaken, wWant, wLast, wBroken>>
peerVars == <<lens, peer>>
textVars == <<data, taken, want, last, broken>>
recvVars == <<recvlen, recvdata, textVars>>
sendVars == <<out, rest, gone, handed, whole, lost, sends>>
vars     == <<wireVars, peerVars, at, recvVars, sendVars, oom>>

\* GetEncriptedDataLen.
Padded(n) == IF n % BLOCK = 0 THEN n ELSE (n \div BLOCK + 1) * BLOCK

----------------------------------------------------------------------------
(***************************************************************************)
(* What the peer sends: a greeting, a key's length, a key, blocks.         *)
(***************************************************************************)
HANDSHAKE == 3

\* The place before block k.
Before[k \in 1 .. BLOCKS + 1] ==
  IF k = 1 THEN HANDSHAKE
  ELSE Before[k - 1] + 1 + ((lens[k - 1] + BLOCK - 1) \div BLOCK) * BLOCK

WireLength == Before[BLOCKS + 1]

IsHeader(p) == \E k \in 1 .. BLOCKS : p = Before[k] + 1
IsText(p) == \E k \in 1 .. BLOCKS : p - Before[k] - 1 \in 1 .. lens[k]

\* The length found in place p, 0 if there is none.
Announced(p) ==
  IF IsHeader(p) THEN lens[CHOOSE k \in 1 .. BLOCKS : p = Before[k] + 1] ELSE 0

\* The number of bytes of text in the places of P.
Text(P) == Cardinality({p \in P : IsText(p)})

\* A byte's number in the text, 0 for what is no text.
TextNumber(p) == IF IsText(p) THEN Text(1 .. p) ELSE 0

\* The text of the blocks that have arrived whole.
TextArrived ==
  Text(UNION {Before[k] + 1 .. Before[k + 1] :
                k \in {j \in 1 .. BLOCKS : Before[j + 1] <= wArrived}})

Wire == INSTANCE ByteStream
          WITH MAXLEN <- MAX, arrived <- wArrived,
               taken <- wTaken, want <- wWant, last <- wLast, broken <- wBroken

----------------------------------------------------------------------------
Handshaking == {"start", "keylen", "key"}
Receiving   == {"try", "header", "body"}
Places      == Handshaking \cup Receiving \cup {"dial", "sendkey", "idle", "failed", "reset"}

TypeOK ==
  /\ lens \in [1 .. BLOCKS -> LENGTHS] /\ peer \in {"good", "start", "key"}
  /\ wArrived \in 0 .. WireLength /\ wTaken \in 0 .. wArrived
  /\ wWant \in 0 .. MAX /\ wBroken \in BOOLEAN
  /\ wLast \in Seq(1 .. WireLength)
  /\ at \in Places
  /\ recvlen \in Nat /\ recvdata \in BOOLEAN
  /\ data \in Seq(1 .. WireLength)
  /\ taken \in 0 .. WireLength /\ want \in 0 .. MAXLEN
  /\ last \in Seq(1 .. WireLength) /\ broken \in BOOLEAN
  /\ out \in Seq(Nat) /\ rest \in [Senders -> Seq(Nat)] /\ gone \in BOOLEAN
  /\ {handed, whole, lost} \subseteq Nat
  /\ sends \in 0 .. SENDS /\ oom \in 0 .. OOM

Init ==
  /\ lens \in [1 .. BLOCKS -> LENGTHS] /\ peer \in {"good", "start", "key"}
  /\ Wire!StreamInit
  /\ at = "dial"
  /\ recvlen = 0 /\ recvdata = FALSE /\ data = <<>>
  /\ taken = 0 /\ want = 0 /\ last = <<>> /\ broken = FALSE
  /\ out = <<>> /\ rest = [c \in Senders |-> <<>>] /\ gone = FALSE
  /\ handed = 0 /\ whole = 0 /\ lost = 0 /\ sends = 0
  /\ oom = 0

\* malloc finds no memory.
NoMemory == oom < OOM /\ oom' = oom + 1

Arrive ==
  /\ Wire!Arrive /\ wArrived' <= WireLength
  /\ UNCHANGED <<peerVars, at, recvVars, sendVars, oom>>

----------------------------------------------------------------------------
(***************************************************************************)
(* PerformSslVerify.  Its own Send and Recv are those of the TCP socket,   *)
(* since m_bInit is not set yet.                                           *)
(***************************************************************************)
Greet ==
  /\ at = "dial"
  /\ at' \in {"start", "failed"}
  /\ UNCHANGED <<wireVars, peerVars, recvVars, sendVars, oom>>

AskPeer ==
  /\ at \in Handshaking
  /\ Wire!Ask /\ wWant' = 1
  /\ UNCHANGED <<peerVars, at, recvVars, sendVars, oom>>

AfterThis == [start |-> "keylen", keylen |-> "key", key |-> "sendkey"]

GreetingWrong == at = "start" /\ peer = "start"
\* RSA_new finds no key in what the peer sent.
KeyWrong == at = "key" /\ peer = "key"

\* The greeting is compared, room is made for the key, the key is parsed.
PeerAnswers ==
  /\ at \in Handshaking
  /\ Wire!Take
  /\ \/ at' = (IF GreetingWrong \/ KeyWrong THEN "failed" ELSE AfterThis[at]) /\ UNCHANGED oom
     \/ at = "keylen" /\ NoMemory /\ at' = "failed"
  /\ UNCHANGED <<peerVars, recvVars, sendVars>>

PeerFails ==
  /\ at \in Handshaking
  /\ Wire!Fail /\ wTaken' = wTaken
  /\ at' = "failed"
  /\ UNCHANGED <<peerVars, recvVars, sendVars, oom>>

\* The session key goes out; from now on the socket enciphers.
SendKey ==
  /\ at = "sendkey"
  /\ at' \in {"idle", "failed"}
  /\ UNCHANGED <<wireVars, peerVars, recvVars, sendVars, oom>>

----------------------------------------------------------------------------
(***************************************************************************)
(* Recv.                                                                   *)
(***************************************************************************)
Recv ==
  /\ at = "idle"
  /\ want' \in CALLS
  /\ \/ recvdata' = TRUE /\ UNCHANGED oom
     \/ recvdata' = FALSE /\ NoMemory
  /\ at' = "try"
  /\ UNCHANGED <<wireVars, peerVars, recvlen, data, taken, last, broken, sendVars>>

EnoughMore == Len(data) > want                 \* variant: off by one
Enough == Len(data) >= want

RestForgotten == <<>>                          \* variant: all of it freed
\* What GetData leaves behind.
Rest == SubSeq(data, want + 1, Len(data))

\* GetData copies what is asked for and keeps the rest, in new memory ...
GetData ==
  /\ at = "try"
  /\ Enough
  /\ last' = [k \in 1 .. want |-> TextNumber(data[k])]
  /\ data' = Rest
  /\ taken' = taken + want
  /\ want' = 0
  /\ at' = "idle"
  /\ UNCHANGED <<wireVars, peerVars, recvlen, recvdata, broken, sendVars, oom>>

\* ... or says no: there is not enough, or no memory for the rest.
GetDataFails ==
  /\ at = "try"
  /\ \/ ~Enough /\ UNCHANGED oom
     \/ Len(data) > want /\ NoMemory
  /\ at' = "header"
  /\ UNCHANGED <<wireVars, peerVars, recvVars, sendVars>>

RecvFails ==
  /\ at' = "failed"
  /\ want' = 0 /\ last' = <<>> /\ broken' = TRUE
  /\ UNCHANGED <<recvlen, recvdata, data, taken>>

AskHeader ==
  /\ at = "header"
  /\ Wire!Ask /\ wWant' = 1
  /\ UNCHANGED <<peerVars, at, recvVars, sendVars, oom>>

\* A block that is too long, or empty, ends the call, as does a missing buffer.
HeaderArrives ==
  /\ at = "header"
  /\ Wire!Take
  /\ LET n == Announced(wTaken + 1) IN
     IF n = 0 \/ Padded(n) > MAX \/ ~recvdata
     THEN RecvFails
     ELSE /\ recvlen' = n
          /\ at' = "body"
          /\ UNCHANGED <<recvdata, textVars>>
  /\ UNCHANGED <<peerVars, sendVars, oom>>

BodyUnpadded == recvlen                        \* variant: the text only
\* How much follows the length.
BodyLength == Padded(recvlen)

AskBody ==
  /\ at = "body"
  /\ Wire!Ask /\ wWant' = BodyLength
  /\ UNCHANGED <<peerVars, at, recvVars, sendVars, oom>>

\* AESDecrypt; the padding is dropped.
Deciphered == data \o SubSeq(wLast', 1, recvlen)

BodyArrives ==
  /\ at = "body"
  /\ Wire!Take
  /\ \/ /\ data' = Deciphered
        /\ at' = "try"
        /\ UNCHANGED <<recvlen, recvdata, taken, want, last, broken, oom>>
     \/ NoMemory /\ RecvFails
  /\ UNCHANGED <<peerVars, sendVars>>

WireFails ==
  /\ at \in {"header", "body"}
  /\ Wire!Fail /\ wTaken' = wTaken
  /\ RecvFails
  /\ UNCHANGED <<peerVars, sendVars, oom>>

----------------------------------------------------------------------------
(***************************************************************************)
(* Send, by anybody, while a Recv may be pending.  The TCP socket takes a  *)
(* block in chunks, and waits after each for the peer; it lets another     *)
(* sender in between two of them (see TcpSocket).                          *)
(***************************************************************************)
m_bInit == at \in Receiving \cup {"idle"} \/ (at = "failed" /\ broken)

Dead == gone \/ wBroken

EncryptedAnnounced(n) ==                       \* variant: announces with padding
  <<Padded(n)>> \o [k \in 1 .. Padded(n) |-> IF k <= n THEN handed + k ELSE 0]
\* The next n bytes of text, as they are written.
Encrypted(n) ==
  <<n>> \o [k \in 1 .. Padded(n) |-> IF k <= n THEN handed + k ELSE 0]

\* c writes the beginning of s.
Chunk(c, s) ==
  \E k \in 1 .. Len(s) :
    /\ out' = out \o SubSeq(s, 1, k)
    /\ rest' = [rest EXCEPT ![c] = SubSeq(s, k + 1, Len(s))]

\* Another sender has written part of its block.
Behind(c) == \E d \in Senders \ {c} : rest[d] # <<>>

Counted(c) ==
  whole' = IF rest'[c] # <<>> THEN whole ELSE IF lost' = 0 THEN handed' ELSE lost' - 1

\* Every call reports failure (it falls through into its failure label), so of a
\* long block only the first part is sent.  lwIP may refuse a chunk although the
\* socket is open: the sender gives up, the next one does not know.
Send(c) ==
  /\ m_bInit
  /\ rest[c] = <<>>
  /\ sends < SENDS /\ sends' = sends + 1
  /\ \/ gone' = TRUE /\ UNCHANGED <<out, rest, handed, whole, lost>>
     \/ /\ ~Dead /\ UNCHANGED gone
        /\ \E n \in CALLS :
             /\ handed' = handed + n
             /\ \/ lost' = whole + 1 /\ UNCHANGED <<out, rest, whole>>
                \/ /\ Chunk(c, Encrypted(IF n > MAX THEN MAX ELSE n))
                   /\ lost' = (IF Behind(c) THEN whole + 1
                               ELSE IF n > MAX /\ lost = 0 THEN handed + MAX + 1 ELSE lost)
                   /\ Counted(c)
  /\ UNCHANGED <<wireVars, peerVars, at, recvVars, oom>>

SendMore(c) ==
  /\ rest[c] # <<>> /\ ~Dead /\ at # "reset"
  /\ Chunk(c, rest[c])
  /\ UNCHANGED <<handed, lost>>
  /\ Counted(c)
  /\ UNCHANGED <<wireVars, peerVars, at, recvVars, gone, sends, oom>>

\* The socket has gone, or lwIP refuses the next chunk.
SendFails(c) ==
  /\ rest[c] # <<>> /\ at # "reset"
  /\ rest' = [rest EXCEPT ![c] = <<>>]
  /\ \/ gone' = TRUE /\ lost' = lost
     \/ ~Dead /\ lost' = whole + 1 /\ UNCHANGED gone
  /\ UNCHANGED <<wireVars, peerVars, at, recvVars, out, handed, whole, sends, oom>>

\* Without memory it enciphers to the address of its length field.
SendFaults ==
  /\ m_bInit
  /\ sends < SENDS /\ sends' = sends + 1
  /\ NoMemory
  /\ at' = "reset"
  /\ UNCHANGED <<wireVars, peerVars, recvVars, out, rest, gone, handed, whole, lost>>

----------------------------------------------------------------------------
RecvStep ==
  \/ GetData \/ GetDataFails
  \/ AskHeader \/ HeaderArrives \/ AskBody \/ BodyArrives

Next ==
  \/ Arrive
  \/ Greet \/ AskPeer \/ PeerAnswers \/ PeerFails \/ SendKey
  \/ Recv \/ RecvStep \/ WireFails
  \/ \E c \in Senders : Send(c) \/ SendMore(c) \/ SendFails(c)
  \/ SendFaults

Spec == Init /\ [][Next]_vars

\* A Recv that can go on does: TCPSocket's Recv returns when enough is there
\* (ReaderServed), and the scheduler runs the thread that was resumed.
FairSpec == Spec /\ WF_vars(RecvStep)

----------------------------------------------------------------------------
(***************************************************************************)
(* Properties.                                                             *)
(***************************************************************************)

\* However the handshake went and the stream is cut into blocks, a length is read
\* only where the peer has written one, and what is kept is the peer's bytes.
InStep ==
  /\ TypeOK
  /\ at = "header" /\ wWant = 0 => wTaken = WireLength \/ IsHeader(wTaken + 1)

\* The peer, who reads a length and then that much text out of whole cipher
\* blocks, gets all text that was written in whole blocks, and what he reads is
\* what was sent, in order and without gaps: up to the first byte that is out of
\* its place.  Only a call longer than MAX, a chunk that lwIP refuses with the
\* socket open and a sender let in between two chunks put one there.
Decoded ==
  LET from[p \in 1 .. Len(out) + 1] ==
        IF p > Len(out) \/ p + Padded(out[p]) > Len(out)
        THEN <<>>
        ELSE SubSeq(out, p + 1, p + out[p]) \o from[p + 1 + Padded(out[p])]
  IN from[1]
PeerInStep ==
  /\ Len(Decoded) >= whole
  /\ \A k \in DOMAIN Decoded : lost = 0 \/ k < lost => Decoded[k] = k

\* Recv hands the text over as the stream it is, whatever blocks it came in.
Stream == INSTANCE ByteStream WITH arrived <- TextArrived
RecvIsStream == Stream!StreamSpec

\* A Recv whose bytes have arrived in whole blocks returns, unless an allocation
\* failed: then GetData waits for another block although it has enough.
RecvReturns ==
  (want > 0 /\ TextArrived >= taken + want) ~> (want = 0 \/ oom > 0 \/ at = "reset")
=============================================================================
