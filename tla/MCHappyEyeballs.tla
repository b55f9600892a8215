-------------------------- MODULE MCHappyEyeballs --------------------------
(* Races of two to six addresses, at most three at a time: some wait for room. *)
EXTENDS HappyEyeballs
=============================================================================
