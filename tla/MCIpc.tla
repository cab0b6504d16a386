------------------------------- MODULE MCIpc -------------------------------
(***************************************************************************)
(* A server with a module of a plain name and one of three parts, both of  *)
(* which can come and go, and two connections with sessions of their own.  *)
(***************************************************************************)
EXTENDS Ipc

CONSTANTS empty, server, one, two, module

MCLabel == {empty, server, one, two, module}
Plainly == [module |-> <<module>>, host |-> EmptyString, conn |-> EmptyString]
Fully == [module |-> <<module>>, host |-> <<one>>, conn |-> <<two>>]
MCObjects == {Plainly, Fully}
MCSession == <<one, two>>
=============================================================================
