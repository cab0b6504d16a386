----------------------------- MODULE ByteStream -----------------------------
(***************************************************************************)
(* What AnySocket::Recv promises the layers above it (any_socket.h): each  *)
(* successful call returns the next bytes of the peer's stream, exactly as *)
(* many as it asked for; once a call has failed, all do.                   *)
(*                                                                         *)
(* The peer's bytes are numbered 1, 2, 3, ...                              *)
(***************************************************************************)
EXTENDS Naturals

CONSTANTS BYTES,    \* the bytes the peer sends
          MAXLEN    \* the longest block asked for

VARIABLES arrived,  \* bytes received so far
          taken,    \* bytes handed over so far
          want,     \* the length the pending call asks for, 0 without a call
          last,     \* the block the latest call returned
          broken    \* a call has failed

streamVars == <<arrived, taken, want, last, broken>>

StreamInit == arrived = 0 /\ taken = 0 /\ want = 0 /\ last = <<>> /\ broken = FALSE

Arrive ==
  /\ arrived' \in (arrived + 1) .. BYTES
  /\ UNCHANGED <<taken, want, last, broken>>

Ask ==
  /\ want = 0
  /\ want' \in 1 .. MAXLEN
  /\ UNCHANGED <<arrived, taken, last, broken>>

Take ==
  /\ want > 0 /\ ~broken
  /\ taken + want <= arrived
  /\ last' = [k \in 1 .. want |-> taken + k]
  /\ taken' = taken + want
  /\ want' = 0
  /\ UNCHANGED <<arrived, broken>>

\* The bytes a failing call has already copied are lost.
Fail ==
  /\ want > 0
  /\ want' = 0
  /\ last' = <<>>
  /\ broken' = TRUE
  /\ taken' \in taken .. arrived
  /\ UNCHANGED arrived

StreamNext == Arrive \/ Ask \/ Take \/ Fail

StreamSpec == StreamInit /\ [][StreamNext]_streamVars
=============================================================================
