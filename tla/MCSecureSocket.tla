--------------------------- MODULE MCSecureSocket ---------------------------
(***************************************************************************)
(* Cipher blocks of two, buffers of one cipher block.  The peer announces  *)
(* a block with padding, one that fills the buffer and one that is too     *)
(* long; callers ask for and send up to one byte more than a block can     *)
(* hold, and two of them may be writing at once.                           *)
(***************************************************************************)
EXTENDS SecureSocket
=============================================================================
