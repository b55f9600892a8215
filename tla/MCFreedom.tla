----------------------------- MODULE MCFreedom -----------------------------
(* Small instances of Freedom: one item in each direction, and time in units  *)
(* of the shortest timeout.                                                   *)
EXTENDS Freedom
=============================================================================
