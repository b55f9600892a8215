---------------------------- MODULE ActivityTimer ----------------------------
(***************************************************************************)
(* common/signal/timer.go: cancels its context after a time without Update. *)
(* Every proxied connection has one; both directions call Update, and each  *)
(* calls SetTimeout when the other one has ended.                           *)
(*                                                                         *)
(* Time is a counter.  time.AfterFunc makes a timer with a deadline; a      *)
(* timer that is due fires, which starts a goroutine that calls finish, and *)
(* Stop has no effect on it any more.  Time does not pass a due timer.      *)
(***************************************************************************)
EXTENDS Naturals

CONSTANTS
    Users,          \* goroutines that call Update and SetTimeout
    Timeouts,       \* the timeouts they set, 0 included
    MaxTimers,      \* bound: timers created
    MaxTime         \* bound: the clock

ASSUME TimerAssumption ==
    /\ Timeouts \subseteq Nat /\ 0 \in Timeouts
    /\ MaxTimers \in Nat \ {0} /\ MaxTime \in Nat
    /\ Users \cap Nat = {}

Timers == 1..MaxTimers

VARIABLES
    now,            \* the clock
    timeout,        \* t.timeout
    finished,       \* t.finished
    timer,          \* t.timer: the timer made last
    tm,             \* per timer: "none", "armed", "fired", "stopped" or "over"
    deadline,       \* per timer
    pc,             \* per user: "idle", or inside SetTimeout: "finish" or "update";
                    \* per user and timer: "call" when about to call onTimeout
    calls,          \* history: how often onTimeout was called
    expiry          \* history: when the last effective Update said to expire

vars == <<now, timeout, finished, timer, tm, deadline, pc, calls, expiry>>

(* CancelAfterInactivity: the constructor's SetTimeout has returned. *)
Init ==
    /\ now = 0
    /\ timeout \in Timeouts
    /\ finished = (timeout = 0)
    /\ calls = IF timeout = 0 THEN 1 ELSE 0
    /\ timer = IF timeout = 0 THEN 0 ELSE 1
    /\ tm = [k \in Timers |-> IF k = timer THEN "armed" ELSE "none"]
    /\ deadline = [k \in Timers |-> IF k = timer THEN timeout ELSE 0]
    /\ expiry = timeout
    /\ pc = [x \in Users \cup Timers |-> "idle"]

(* Mutant of Rearm: the old timer is left running. *)
Rearm_NoStop ==
    /\ timeout > 0
    /\ timer < MaxTimers
    /\ timer' = timer + 1
    /\ tm' = [tm EXCEPT ![timer + 1] = "armed"]
    /\ deadline' = [deadline EXCEPT ![timer + 1] = now + timeout]
    /\ expiry' = now + timeout

(* Mutant of Rearm: the timer is due later than the timeout says. *)
Rearm_Late ==
    /\ timeout > 0
    /\ timer < MaxTimers
    /\ timer' = timer + 1
    /\ tm' = [k \in Timers |->
                IF k = timer + 1 THEN "armed"
                ELSE IF k = timer /\ tm[k] = "armed" THEN "stopped" ELSE tm[k]]
    /\ deadline' = [deadline EXCEPT ![timer + 1] = now + timeout + 1]
    /\ expiry' = now + timeout

(* The body of Update once finished has been tested. *)
Rearm ==
    /\ timeout > 0
    /\ timer < MaxTimers
    /\ timer' = timer + 1
    /\ tm' = [k \in Timers |->
                IF k = timer + 1 THEN "armed"
                ELSE IF k = timer /\ tm[k] = "armed" THEN "stopped" ELSE tm[k]]
    /\ deadline' = [deadline EXCEPT ![timer + 1] = now + timeout]
    /\ expiry' = now + timeout

(* With a timeout of 0 the old timer is stopped and none is made: another   *)
(* goroutine is inside SetTimeout(0).                                       *)
StopOnly ==
    /\ timeout = 0
    /\ tm' = [k \in Timers |-> IF k = timer /\ tm[k] = "armed" THEN "stopped" ELSE tm[k]]
    /\ UNCHANGED <<timer, deadline, expiry>>

UpdateBody == ~finished /\ (Rearm \/ StopOnly)

Update(u) ==
    /\ pc[u] = "idle" /\ UpdateBody
    /\ UNCHANGED <<now, timeout, finished, pc, calls>>

(* SetTimeout: the critical section, then finish or Update. *)
SetTimeout(u, d) ==
    /\ pc[u] = "idle" /\ ~finished
    /\ timeout' = d
    /\ pc' = [pc EXCEPT ![u] = IF d = 0 THEN "finish" ELSE "update"]
    /\ UNCHANGED <<now, finished, timer, tm, deadline, calls, expiry>>

SetTimeoutUpdate(u) ==
    /\ pc[u] = "update"
    /\ UpdateBody \/ (finished /\ UNCHANGED <<timer, tm, deadline, expiry>>)
    /\ pc' = [pc EXCEPT ![u] = "idle"]
    /\ UNCHANGED <<now, timeout, finished, calls>>

Fire(k) ==
    /\ tm[k] = "armed" /\ now >= deadline[k]
    /\ tm' = [tm EXCEPT ![k] = "fired"]
    /\ pc' = [pc EXCEPT ![k] = "finish"]
    /\ UNCHANGED <<now, timeout, finished, timer, deadline, calls, expiry>>

(* Mutant of finish: finished is not tested. *)
finish_NoTest(x) ==
    /\ pc[x] = "finish"
    /\ finished' = TRUE
    /\ pc' = [pc EXCEPT ![x] = "call"]
    /\ tm' = [k \in Timers |-> IF k = x THEN "over" ELSE tm[k]]
    /\ UNCHANGED <<now, timeout, timer, deadline, calls, expiry>>

(* finish: the critical section, run by a fired timer or by SetTimeout(0). *)
finish(x) ==
    /\ pc[x] = "finish"
    /\ finished' = TRUE
    /\ pc' = [pc EXCEPT ![x] = IF finished THEN "idle" ELSE "call"]
    /\ tm' = [k \in Timers |-> IF k = x THEN "over" ELSE tm[k]]
    /\ UNCHANGED <<now, timeout, timer, deadline, calls, expiry>>

onTimeout(x) ==
    /\ pc[x] = "call"
    /\ calls' = calls + 1
    /\ pc' = [pc EXCEPT ![x] = "idle"]
    /\ UNCHANGED <<now, timeout, finished, timer, tm, deadline, expiry>>

Tick ==
    /\ now < MaxTime
    /\ \A k \in Timers : tm[k] = "armed" => now < deadline[k]
    /\ now' = now + 1
    /\ UNCHANGED <<timeout, finished, timer, tm, deadline, pc, calls, expiry>>

Next ==
    \/ \E u \in Users : Update(u) \/ SetTimeoutUpdate(u)
    \/ \E u \in Users, d \in Timeouts : SetTimeout(u, d)
    \/ \E k \in Timers : Fire(k)
    \/ \E x \in Users \cup Timers : finish(x) \/ onTimeout(x)
    \/ Tick

Spec == Init /\ [][Next]_vars
-----------------------------------------------------------------------------
(* Every variable has its type. *)
TypeOK ==
    /\ now \in Nat /\ timeout \in Timeouts /\ finished \in BOOLEAN
    /\ timer \in 0..MaxTimers
    /\ tm \in [Timers -> {"none", "armed", "fired", "stopped", "over"}]
    /\ deadline \in [Timers -> Nat]
    /\ pc \in [Users \cup Timers -> {"idle", "finish", "update", "call"}]
    /\ calls \in Nat /\ expiry \in Nat

(* onTimeout is called once however many timers, Updates and SetTimeout(0)  *)
(* race: udp.connEntry panics if it is called twice.                        *)
OnTimeoutOnce ==
    /\ calls <= 1
    /\ calls = 1 => \A x \in Users \cup Timers : pc[x] # "call"
    /\ \A x, y \in Users \cup Timers : pc[x] = "call" /\ pc[y] = "call" => x = y

(* An Update that comes in time is honoured: a timer fires only when the    *)
(* time that the last effective Update gave is over, so that no timer of an *)
(* earlier one goes off.  An Update that comes after the timer has fired is *)
(* too late even if it gets the lock first: finish does not look at the     *)
(* timer, and the connection ends (timer.go:27-45).                         *)
FiresOnlyWhenIdle ==
    [][\A k \in Timers : tm[k] = "armed" /\ tm'[k] = "fired" => now >= expiry]_vars

(* An idle connection is not forgotten: when the last Update's time is over *)
(* the timer has finished, or a goroutine is on its way to finish it or to  *)
(* set a new time.                                                          *)
IdleIsCancelled ==
    ~finished => \/ now <= expiry /\ tm[timer] = "armed"
                 \/ \E x \in Users \cup Timers : pc[x] \in {"finish", "update"}
=============================================================================
