------------------------------ MODULE SortIPs ------------------------------
(***************************************************************************)
(* sortIPs of transport/internet/happy_eyeballs.go: the order in which       *)
(* TcpRaceDial tries the addresses of a domain, families interleaved as in   *)
(* RFC 8305.  An address is <<family, position in the lookup's answer>>.     *)
(***************************************************************************)
EXTENDS Naturals, Sequences, SequencesExt

(* The lists ip4 and ip6 that sortIPs collects first, for the families 4 and 6. *)
family(ips, f) == SelectSeq(ips, LAMBDA ip : ip[1] = f)
other(f) == 10 - f
from(seq, n) == SubSeq(seq, n + 1, Len(seq))

(* consumeTurn counts the addresses of this turn; after interleave of them the *)
(* other family has its turn.                                                  *)
endTurn(st, interleave) ==
    IF st.consumeTurn + 1 = interleave
    THEN [st EXCEPT !.turn = other(@), !.consumeTurn = 0]
    ELSE [st EXCEPT !.consumeTurn = @ + 1]

(* Mutant of take: the rest of the other family is taken from its start. *)
take_Restart(st, ips, interleave) ==
    LET f == st.turn
        n == st.consume[f] + 1
        moved == [st EXCEPT !.newIPs = Append(@, family(ips, f)[n]), !.consume[f] = n]
    IN  IF n = Len(family(ips, f))
        THEN [moved EXCEPT !.newIPs = @ \o family(ips, other(f)), !.over = TRUE]
        ELSE endTurn(moved, interleave)

(* An iteration of the loop: an address of the family whose turn it is.  With  *)
(* its last one the rest of the other family follows, and the loop ends.       *)
take(st, ips, interleave) ==
    LET f == st.turn
        n == st.consume[f] + 1
        moved == [st EXCEPT !.newIPs = Append(@, family(ips, f)[n]), !.consume[f] = n]
    IN  IF n = Len(family(ips, f))
        THEN [moved EXCEPT !.newIPs = @ \o from(family(ips, other(f)), st.consume[other(f)]),
                           !.over = TRUE]
        ELSE endTurn(moved, interleave)

sortIPs(ips, prioritizeIPv6, interleave) ==
    LET start == [newIPs |-> <<>>, consume |-> [f \in {4, 6} |-> 0], consumeTurn |-> 0,
                  turn |-> IF prioritizeIPv6 THEN 6 ELSE 4, over |-> FALSE]
        loop(st, ip) == IF st.over THEN st ELSE take(st, ips, interleave)
    IN  IF family(ips, 4) = <<>> \/ family(ips, 6) = <<>> THEN ips
        ELSE FoldLeft(loop, start, ips).newIPs
=============================================================================
