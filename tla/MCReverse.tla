----------------------------- MODULE MCReverse -----------------------------
(* A small instance of Reverse. *)
EXTENDS Reverse
=============================================================================
