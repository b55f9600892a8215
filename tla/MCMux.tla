------------------------------- MODULE MCMux -------------------------------
(* Small instances of Mux: three IDs for the 2^16, and at most two sessions.  *)
EXTENDS Mux, TLC

CONSTANTS s1, s2

TwoSessions == {s1, s2}
Symmetric == Permutations(TwoSessions)

Everyone == Side \X TwoSessions
items(n) == [s \in TwoSessions |-> n]
only(s, n) == [u \in TwoSessions |-> IF u = s THEN n ELSE 0]
two(s) == [u \in TwoSessions |-> IF u = s THEN 2 ELSE 1]

Plan(opens, up, down, ends, leaves, may) ==
    [opens |-> opens, items |-> [client |-> up, server |-> down],
     ends |-> ends, leaves |-> leaves, may |-> may]

(* Two items of a session and one of the other in the same direction, where    *)
(* the far end may close the first, or one item of a session in each           *)
(* direction, beside another that only opens and closes.                       *)
CopyPlans ==
    UNION {{Plan(TwoSessions, two(s), items(0), ({"client"} \X TwoSessions) \cup {<<"server", s>>}, {}, {}),
            Plan(TwoSessions, items(0), two(s), ({"server"} \X TwoSessions) \cup {<<"client", s>>}, {}, {}),
            Plan(TwoSessions, only(s, 1), only(s, 1), Everyone, {}, {})} : s \in TwoSessions}

(* The client closes s1 while the server writes, and the server's reader      *)
(* leaves s2 while the client writes.                                         *)
Stuck ==
    Plan(TwoSessions, only(s2, 2), only(s1, 1), {<<"client", s1>>}, {<<"server", s2>>}, {})

NotifyPlans == {Stuck}

(* One session. *)
Alone(up, down, ends, leaves, may) ==
    Plan({s1}, only(s1, up), only(s1, down), ends, leaves, may)

Ends == Side \X {s1}

(* Readers of s1 leave, its dispatch or the connection fails, or a monitor    *)
(* ticks; and two sessions that get in each other's way.                      *)
EndPlans ==
    {Alone(1, 1, Ends, Ends, {}),
     Alone(1, 1, Ends, {}, {"dispatch"}),
     Alone(1, 0, {<<"client", s1>>}, {}, {"wire"}),
     Alone(0, 1, {<<"server", s1>>}, {}, {"wire"}),
     Stuck}
    \cup {Alone(n, 1 - n, Ends, {}, {side}) : n \in {0, 1}, side \in Side}
=============================================================================
