------------------------------ MODULE MCPipe -------------------------------
(* A small instance of Pipe: two writers of two writes each, so that both can *)
(* be blocked on the bytes of an earlier write, and a reader in a copy loop.  *)
EXTENDS Pipe
=============================================================================
