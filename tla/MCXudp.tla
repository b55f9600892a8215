------------------------------- MODULE MCXudp -------------------------------
(* Small instances of Xudp: a reconnect with a second link and packets that    *)
(* the two handles race for, and two reconnects of one link.                   *)
EXTENDS Xudp

SmallBounds == {[attempts |-> 2, links |-> 2, packets |-> 1, ends |-> TRUE],
                [attempts |-> 3, links |-> 1, packets |-> 0, ends |-> FALSE]}
=============================================================================
