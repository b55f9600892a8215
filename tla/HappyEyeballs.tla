--------------------------- MODULE HappyEyeballs ---------------------------
(***************************************************************************)
(* transport/internet/happy_eyeballs.go: TcpRaceDial dials several addresses *)
(* of one domain in a staggered race and keeps the first connection.  Each   *)
(* tcpTryDial is a goroutine; the loop of TcpRaceDial takes their results    *)
(* and starts the next try when its timer fires.  The timers are those of    *)
(* Go 1.23 and later (go.mod says 1.26): after Stop or Reset none fires late.*)
(***************************************************************************)
EXTENDS SortIPs

CONSTANTS
    MaxIPs,             \* bound: addresses of the domain
    Interleaves,        \* values of interleave (0 never changes turn)
    MaxConcurrentTry

(* dialer.go:252 races only under these conditions. *)
ASSUME HappyEyeballsAssumption ==
    /\ MaxIPs \in Nat /\ MaxIPs >= 2
    /\ MaxConcurrentTry \in Nat \ {0}

Tries == 1..MaxIPs

(* The lookup's answers. *)
Answers == {[k \in 1..n |-> <<fam[k], k>>] : n \in 2..MaxIPs, fam \in [1..MaxIPs -> {4, 6}]}

VARIABLES
    answer, prioritizeIPv6, interleave,     \* the arguments
    ips,            \* the sorted addresses
    N,              \* len(ips); the addresses are forgotten when the race begins
    try,            \* per try: where tcpTryDial is
    conn,           \* per try: its connection
    resultCh,       \* tries whose result waits for the loop
    nextTryIndex, activeNum,
    timer,          \* the timer runs
    winConn,        \* the try that won, 0 for nil
    ctxDone,        \* the caller's context is done
    cancelled,      \* newCtx was cancelled by the loop
    ret             \* what TcpRaceDial returned

dialVars == <<try, conn>>
loopVars == <<nextTryIndex, activeNum, timer, winConn, cancelled, ret>>
args == <<answer, prioritizeIPv6, interleave, ips, N>>
vars == <<args, dialVars, resultCh, loopVars, ctxDone>>

Init ==
    /\ answer \in Answers /\ prioritizeIPv6 \in BOOLEAN /\ interleave \in Interleaves
    /\ ips = sortIPs(answer, prioritizeIPv6, interleave) /\ N = 0
    /\ try = [i \in Tries |-> "none"]
    /\ conn = [i \in Tries |-> "none"]
    /\ resultCh = <<>>
    /\ nextTryIndex = 0 /\ activeNum = 0
    /\ timer = FALSE
    /\ winConn = 0 /\ ctxDone = FALSE /\ cancelled = FALSE
    /\ ret = "sorted"

(* time.NewTimer(0), and the loop. *)
begins ==
    /\ ret = "sorted" /\ ret' = "none"
    /\ timer' = TRUE
    /\ N' = Len(ips)
    /\ answer' = <<>> /\ ips' = <<>> /\ prioritizeIPv6' = FALSE /\ interleave' = 0
    /\ UNCHANGED <<dialVars, resultCh, nextTryIndex, activeNum, winConn, cancelled, ctxDone>>

(* Mutant of timerFires: the timer is not stopped at the limit. *)
timerFires_NoStop ==
    /\ ret = "none" /\ timer
    /\ IF nextTryIndex = N \/ activeNum = MaxConcurrentTry
       THEN /\ ret' = "panic"
            /\ UNCHANGED <<try, nextTryIndex, activeNum, timer>>
       ELSE /\ nextTryIndex' = nextTryIndex + 1
            /\ activeNum' = activeNum + 1
            /\ try' = [try EXCEPT ![nextTryIndex'] = "dialing"]
            /\ timer' = (nextTryIndex' # N)
            /\ UNCHANGED ret
    /\ UNCHANGED <<args, conn, resultCh, winConn, ctxDone, cancelled>>

(* The case timer.C of the loop: start the next try. *)
timerFires ==
    /\ ret = "none" /\ timer
    /\ IF nextTryIndex = N \/ activeNum = MaxConcurrentTry
       THEN /\ ret' = "panic"
            /\ UNCHANGED <<try, nextTryIndex, activeNum, timer>>
       ELSE /\ nextTryIndex' = nextTryIndex + 1
            /\ activeNum' = activeNum + 1
            /\ try' = [try EXCEPT ![nextTryIndex'] = "dialing"]
            /\ timer' = ~(nextTryIndex' = N \/ activeNum' = MaxConcurrentTry)
            /\ UNCHANGED ret
    /\ UNCHANGED <<args, conn, resultCh, winConn, ctxDone, cancelled>>

(* tcpTryDial: Dial returns; when newCtx is done it may still have connected. *)
dialReturns(i) ==
    /\ try[i] = "dialing"
    /\ try' = [try EXCEPT ![i] = "returned"]
    /\ \E c \in {"none", "open"} : conn' = [conn EXCEPT ![i] = c]
    /\ UNCHANGED <<args, resultCh, loopVars, ctxDone>>

(* Mutant of dialReports: the connection of a try that was cancelled is dropped. *)
dialReports_Leak(i) ==
    /\ try[i] = "returned"
    /\ try' = [try EXCEPT ![i] = IF ctxDone \/ cancelled \/ conn[i] = "none" THEN "err" ELSE "conn"]
    /\ resultCh' = Append(resultCh, i)
    /\ UNCHANGED <<args, conn, loopVars, ctxDone>>

(* ... and the result goes into the channel. *)
dialReports(i) ==
    /\ try[i] = "returned"
    /\ IF ctxDone \/ cancelled
       THEN /\ try' = [try EXCEPT ![i] = "err"]
            /\ conn' = [conn EXCEPT ![i] = IF @ = "open" THEN "closed" ELSE @]
       ELSE /\ try' = [try EXCEPT ![i] = IF conn[i] = "open" THEN "conn" ELSE "err"]
            /\ UNCHANGED conn
    /\ resultCh' = Append(resultCh, i)
    /\ UNCHANGED <<args, loopVars, ctxDone>>

(* The loop takes a result: activeNum goes down whatever it is. *)
takes(i) ==
    /\ ret = "none" /\ resultCh # <<>> /\ i = Head(resultCh)
    /\ resultCh' = Tail(resultCh)
    /\ try' = [try EXCEPT ![i] = "taken"]
    /\ activeNum' = activeNum - 1
    /\ UNCHANGED <<args, nextTryIndex, ctxDone>>

closes(S) == conn' = [i \in Tries |-> IF i \in S /\ conn[i] = "open" THEN "closed" ELSE conn[i]]

(* The caller's context is done: everything is closed; return after the last. *)
receiveDone(i) ==
    /\ takes(i) /\ ctxDone
    /\ closes({i, winConn} \ {0})
    /\ cancelled' = TRUE /\ timer' = FALSE
    /\ ret' = IF activeNum' = 0 THEN "err" ELSE "none"
    /\ UNCHANGED winConn

(* A connection: the first one wins, a later one is closed; return after the last. *)
receiveConn(i) ==
    /\ takes(i) /\ ~ctxDone /\ try[i] = "conn"
    /\ cancelled' = TRUE /\ timer' = FALSE
    /\ winConn' = IF winConn = 0 THEN i ELSE winConn
    /\ closes(IF winConn = 0 THEN {} ELSE {i})
    /\ ret' = IF activeNum' = 0 THEN "conn" ELSE "none"

(* An error after the race is won. *)
receiveLateErr(i) ==
    /\ takes(i) /\ ~ctxDone /\ try[i] = "err" /\ winConn # 0
    /\ ret' = IF activeNum' = 0 THEN "conn" ELSE "none"
    /\ UNCHANGED <<conn, cancelled, timer, winConn>>

(* Mutant of receiveErr: no new try is started in place of the failed one. *)
receiveErr_NoReset(i) ==
    /\ takes(i) /\ ~ctxDone /\ try[i] = "err" /\ winConn = 0
    /\ ret' = IF nextTryIndex = N /\ activeNum' = 0 THEN "err" ELSE "none"
    /\ UNCHANGED <<conn, cancelled, timer, winConn>>

(* Mutant of receiveErr: one try fails and nothing runs, the race is given up. *)
receiveErr_GivesUp(i) ==
    /\ takes(i) /\ ~ctxDone /\ try[i] = "err" /\ winConn = 0
    /\ timer' = (nextTryIndex < N)
    /\ ret' = IF activeNum' = 0 THEN "err" ELSE "none"
    /\ UNCHANGED <<conn, cancelled, winConn>>

(* An error: the next try starts at once (timer.Reset(0)), if there is one. *)
receiveErr(i) ==
    /\ takes(i) /\ ~ctxDone /\ try[i] = "err" /\ winConn = 0
    /\ timer' = (nextTryIndex < N)
    /\ ret' = IF nextTryIndex = N /\ activeNum' = 0 THEN "err" ELSE "none"
    /\ UNCHANGED <<conn, cancelled, winConn>>

receive(i) == receiveDone(i) \/ receiveConn(i) \/ receiveLateErr(i) \/ receiveErr(i)

(* The caller gives up. *)
ctxEnds ==
    /\ ret = "none" /\ ~ctxDone /\ ctxDone' = TRUE
    /\ UNCHANGED <<args, dialVars, resultCh, loopVars>>

loop == begins \/ timerFires \/ \E i \in Tries : receive(i)
dial(i) == dialReturns(i) \/ dialReports(i)

Next ==
    \/ loop
    \/ \E i \in Tries : dial(i)
    \/ ctxEnds

Spec == Init /\ [][Next]_vars

(* The loop runs, its timer fires, and the system's Dial returns (it has a     *)
(* timeout of 16 seconds, system_dialer.go).                                   *)
FairSpec == Spec /\ WF_vars(loop) /\ \A i \in Tries : WF_vars(dial(i))

-----------------------------------------------------------------------------
(* Tries that were started and whose result the loop has not taken. *)
Outstanding == {i \in Tries : try[i] \notin {"none", "taken"}}

TypeOK ==
    /\ try \in [Tries -> {"none", "dialing", "returned", "conn", "err", "taken"}]
    /\ conn \in [Tries -> {"none", "open", "closed"}]
    /\ resultCh \in Seq(Tries)
    /\ N \in 0..MaxIPs /\ nextTryIndex \in 0..N /\ activeNum \in 0..N
    /\ timer \in BOOLEAN /\ winConn \in 0..N
    /\ ctxDone \in BOOLEAN /\ cancelled \in BOOLEAN
    /\ ret \in {"sorted", "none", "conn", "err", "panic"}

(* The place of the address n of its family when blocks of m of the first      *)
(* family and of the other take turns.                                         *)
place(n, m, isFirst) == 2 * m * ((n - 1) \div m) + (IF isFirst THEN 0 ELSE m) + ((n - 1) % m) + 1

(* "sort IPs according to rfc 8305" (happy_eyeballs.go:99): every address of   *)
(* the answer is tried, once, those of a family in their order; and as long as *)
(* both families last they take turns in blocks of interleave, the preferred   *)
(* one first.  An address is at its place in those turns, or right behind all  *)
(* of the other family when that has run out before.                           *)
SortsByTurns ==
    ret = "sorted" =>
        /\ \A f \in {4, 6} : family(ips, f) = family(answer, f)
        /\ Len(ips) = Len(answer)
        /\ (interleave > 0 /\ family(ips, 4) # <<>> /\ family(ips, 6) # <<>>) =>
               \A f \in {4, 6} : \A n \in 1..Len(family(ips, f)) :
                   LET at == CHOOSE k \in 1..Len(ips) : ips[k] = family(ips, f)[n]
                       turn == place(n, interleave, f = (IF prioritizeIPv6 THEN 6 ELSE 4))
                       last == n + Len(family(ips, other(f)))
                   IN  at = IF turn < last THEN turn ELSE last

(* panic("impossible situation") (happy_eyeballs.go:84) cannot be reached: the *)
(* timer never runs when there is no try left or no room for one.              *)
NeverPanics == ret # "panic"

(* TcpRaceDial leaves nothing behind: when it returns every try has ended, and *)
(* every connection but the one it returns is closed.                          *)
NothingLeaks ==
    ret \in {"conn", "err"} =>
        /\ Outstanding = {}
        /\ \A i \in Tries : conn[i] = "open" => ret = "conn" /\ i = winConn

(* It returns an open connection, or an error; it fails only when the caller   *)
(* gave up or every address was tried and none could be connected.             *)
FailsAfterAll ==
    /\ ret = "conn" => winConn # 0 /\ conn[winConn] = "open"
    /\ ret = "err" /\ ~ctxDone =>
           nextTryIndex = N /\ \A i \in 1..N : try[i] = "taken" /\ conn[i] = "none"

(* The race ends. *)
Returns == <>(ret \in {"conn", "err"})
=============================================================================
