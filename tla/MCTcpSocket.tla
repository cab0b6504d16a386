---------------------------- MODULE MCTcpSocket ----------------------------
(***************************************************************************)
(* Small instances of TcpSocket.                                           *)
(***************************************************************************)
EXTENDS TcpSocket

CONSTANTS loop, dialer, reader, sender

Nobody == {}
TheDialer == {dialer}
TheReader == {reader}
TheSender == {sender}
TwoSenders == {loop, sender}
=============================================================================
