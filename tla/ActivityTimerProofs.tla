------------------------- MODULE ActivityTimerProofs -------------------------
(***************************************************************************)
(* Proofs about common/signal/timer.go for any number of goroutines, timers *)
(* and timeouts.                                                            *)
(***************************************************************************)
EXTENDS ActivityTimer, TLAPS

(* The type invariant is inductive. *)
LEMMA TypeInductive == TypeOK /\ [Next]_vars => TypeOK'
  <1> SUFFICES ASSUME TypeOK, [Next]_vars PROVE TypeOK'
    OBVIOUS
  <1> USE TimerAssumption DEF TypeOK, Timers
  <1>1. ASSUME UpdateBody \/ UNCHANGED <<timer, tm, deadline, expiry>>
        PROVE  /\ timer' \in 0..MaxTimers
               /\ tm' \in [Timers -> {"none", "armed", "fired", "stopped", "over"}]
               /\ deadline' \in [Timers -> Nat] /\ expiry' \in Nat
    <2>1. CASE Rearm
      BY <2>1 DEF Rearm
    <2>2. CASE StopOnly
      BY <2>2 DEF StopOnly
    <2> QED BY <1>1, <2>1, <2>2 DEF UpdateBody
  <1>2. ASSUME NEW u \in Users, Update(u) \/ SetTimeoutUpdate(u) PROVE TypeOK'
    BY <1>1, <1>2 DEF Update, SetTimeoutUpdate
  <1>3. ASSUME NEW u \in Users, NEW d \in Timeouts, SetTimeout(u, d) PROVE TypeOK'
    BY <1>3 DEF SetTimeout
  <1>4. ASSUME NEW k \in Timers, Fire(k) PROVE TypeOK'
    BY <1>4 DEF Fire
  <1>5. ASSUME NEW x \in Users \cup Timers, finish(x) \/ onTimeout(x) PROVE TypeOK'
    <2>1. CASE finish(x)
      BY <2>1 DEF finish
    <2>2. CASE onTimeout(x)
      BY <2>2 DEF onTimeout
    <2> QED BY <1>5, <2>1, <2>2
  <1>6. CASE Tick \/ UNCHANGED vars
    BY <1>6 DEF Tick, vars
  <1> QED BY <1>2, <1>3, <1>4, <1>5, <1>6 DEF Next

(* A new timer has its types. *)
LEMMA InitType == Init => TypeOK
  BY TimerAssumption DEF Init, TypeOK, Timers

(* CancelAfterInactivity either has called onTimeout at once, or has armed  *)
(* the first timer.                                                         *)
LEMMA InitCases ==
  ASSUME Init
  PROVE  /\ \A x \in Users \cup Timers : pc[x] = "idle"
         /\ \/ finished = TRUE /\ calls = 1
            \/ /\ finished = FALSE /\ calls = 0 /\ timeout # 0
               /\ timer = 1 /\ 1 \in Timers /\ tm[1] = "armed"
               /\ now = 0 /\ expiry \in Nat
  <1>1. CASE timeout = 0
    BY <1>1 DEF Init
  <1>2. CASE timeout # 0
    <2>1. finished = FALSE
      BY <1>2 DEF Init
    <2> QED BY <1>2, <2>1, TimerAssumption DEF Init, Timers
  <1> QED BY <1>1, <1>2

(* The variables of the timer keep their types. *)
THEOREM TimerType == Spec => []TypeOK
  BY InitType, TypeInductive, PTL DEF Spec
-----------------------------------------------------------------------------
(* Before finished is set nobody has called onTimeout or is about to. *)
OnceInv ==
    /\ OnTimeoutOnce
    /\ ~finished => calls = 0 /\ \A x \in Users \cup Timers : pc[x] # "call"

(* onTimeout runs at most once.  The flag that finish sets under the lock   *)
(* decides the race between timers and SetTimeout(0).                       *)
THEOREM TimerOnce == Spec => []OnTimeoutOnce
  <1>1. Init => OnceInv
    <2> SUFFICES ASSUME Init PROVE OnceInv
      OBVIOUS
    <2>1. CASE finished = TRUE /\ calls = 1
      BY <2>1, InitCases DEF OnceInv, OnTimeoutOnce
    <2>2. CASE finished = FALSE /\ calls = 0
      BY <2>2, InitCases DEF OnceInv, OnTimeoutOnce
    <2> QED BY <2>1, <2>2, InitCases
  <1>2. TypeOK /\ OnceInv /\ [Next]_vars => OnceInv'
    <2> SUFFICES ASSUME TypeOK, OnceInv, [Next]_vars PROVE OnceInv'
      OBVIOUS
    <2> USE DEF OnceInv, OnTimeoutOnce
    <2>0. pc \in [Users \cup Timers -> {"idle", "finish", "update", "call"}] /\ calls \in Nat
      BY DEF TypeOK
    <2>1. ASSUME NEW u \in Users, Update(u) \/ SetTimeoutUpdate(u) PROVE OnceInv'
      BY <2>0, <2>1 DEF Update, SetTimeoutUpdate
    <2>2. ASSUME NEW u \in Users, NEW d \in Timeouts, SetTimeout(u, d) PROVE OnceInv'
      BY <2>0, <2>2 DEF SetTimeout
    <2>3. ASSUME NEW k \in Timers, Fire(k) PROVE OnceInv'
      BY <2>0, <2>3 DEF Fire
    <2>4. ASSUME NEW x \in Users \cup Timers, finish(x) PROVE OnceInv'
      BY <2>0, <2>4 DEF finish
    <2>5. ASSUME NEW x \in Users \cup Timers, onTimeout(x) PROVE OnceInv'
      BY <2>0, <2>5 DEF onTimeout
    <2>6. CASE Tick \/ UNCHANGED vars
      BY <2>6 DEF Tick, vars
    <2> QED BY <2>1, <2>2, <2>3, <2>4, <2>5, <2>6 DEF Next
  <1>3. OnceInv => OnTimeoutOnce
    BY DEF OnceInv
  <1> QED BY <1>1, <1>2, <1>3, TimerType, PTL DEF Spec
-----------------------------------------------------------------------------
(* The only armed timer is the one of the last Update, and it is due when   *)
(* that Update said.                                                        *)
NoStrayTimer == \A k \in Timers : tm[k] = "armed" => k = timer /\ deadline[k] = expiry

(* Update stops the timer it replaces. *)
LEMMA BodyNoStray ==
  ASSUME TypeOK, NoStrayTimer, UpdateBody PROVE NoStrayTimer'
  <1>0. /\ tm \in [Timers -> {"none", "armed", "fired", "stopped", "over"}]
        /\ deadline \in [Timers -> Nat] /\ timer \in 0..MaxTimers
    BY DEF TypeOK
  <1>1. CASE Rearm
    BY <1>0, <1>1, TimerAssumption DEF NoStrayTimer, Rearm, Timers
  <1>2. CASE StopOnly
    BY <1>0, <1>2 DEF NoStrayTimer, StopOnly
  <1> QED BY <1>1, <1>2 DEF UpdateBody

(* Every step keeps the last timer the only armed one. *)
LEMMA NextNoStray == TypeOK /\ NoStrayTimer /\ [Next]_vars => NoStrayTimer'
  <1> SUFFICES ASSUME TypeOK, NoStrayTimer, [Next]_vars PROVE NoStrayTimer'
    OBVIOUS
  <1>0. tm \in [Timers -> {"none", "armed", "fired", "stopped", "over"}]
    BY DEF TypeOK
  <1>1. CASE UNCHANGED <<timer, tm, deadline, expiry>>
    BY <1>1 DEF NoStrayTimer
  <1>2. ASSUME NEW u \in Users, Update(u) \/ SetTimeoutUpdate(u) PROVE NoStrayTimer'
    BY <1>1, <1>2, BodyNoStray DEF Update, SetTimeoutUpdate
  <1>3. ASSUME NEW k \in Timers, Fire(k) PROVE NoStrayTimer'
    BY <1>0, <1>3 DEF Fire, NoStrayTimer
  <1>4. ASSUME NEW x \in Users \cup Timers, finish(x) PROVE NoStrayTimer'
    BY <1>0, <1>4 DEF finish, NoStrayTimer
  <1> QED BY <1>1, <1>2, <1>3, <1>4 DEF Next, SetTimeout, onTimeout, Tick, vars

(* A new timer is the only one. *)
LEMMA InitNoStray == Init => NoStrayTimer
  BY TimerAssumption DEF Init, NoStrayTimer, Timers

(* A step that fires a timer is taken when that timer is due. *)
LEMMA FiresDue ==
  ASSUME TypeOK, [Next]_vars, NEW k \in Timers, tm[k] = "armed", tm'[k] = "fired"
  PROVE  now >= deadline[k]
  <1>0. /\ tm \in [Timers -> {"none", "armed", "fired", "stopped", "over"}]
        /\ timer \in 0..MaxTimers
    BY DEF TypeOK
  <1>1. CASE UNCHANGED tm
    BY <1>1
  <1>2. ASSUME UpdateBody PROVE FALSE
    <2>1. CASE Rearm
      BY <1>0, <2>1 DEF Rearm
    <2>2. CASE StopOnly
      BY <1>0, <2>2 DEF StopOnly
    <2> QED BY <1>2, <2>1, <2>2 DEF UpdateBody
  <1>3. ASSUME NEW u \in Users, Update(u) \/ SetTimeoutUpdate(u) PROVE FALSE
    BY <1>2, <1>3 DEF Update, SetTimeoutUpdate
  <1>4. ASSUME NEW j \in Timers, Fire(j) PROVE now >= deadline[k]
    <2>1. CASE j = k
      BY <1>4, <2>1 DEF Fire
    <2>2. CASE j # k
      BY <1>0, <1>4, <2>2 DEF Fire
    <2> QED BY <2>1, <2>2
  <1>5. ASSUME NEW x \in Users \cup Timers, finish(x) PROVE FALSE
    BY <1>0, <1>5 DEF finish
  <1> QED BY <1>1, <1>3, <1>4, <1>5 DEF Next, SetTimeout, onTimeout, Tick, vars

(* A timer fires only when the time of the last effective Update is over,   *)
(* because Update stops the timer it replaces under the lock (timer.go:27). *)
THEOREM TimerFiresWhenIdle == Spec => FiresOnlyWhenIdle
  <1> DEFINE A == \A k \in Timers : tm[k] = "armed" /\ tm'[k] = "fired" => now >= expiry
  <1>1. TypeOK /\ NoStrayTimer /\ [Next]_vars => [A]_vars
    <2> SUFFICES ASSUME TypeOK, NoStrayTimer, [Next]_vars,
                        NEW k \in Timers, tm[k] = "armed", tm'[k] = "fired"
                 PROVE  now >= expiry
      OBVIOUS
    <2>1. now >= deadline[k]
      BY FiresDue
    <2> QED BY <2>1 DEF NoStrayTimer
  <1> QED BY <1>1, InitNoStray, NextNoStray, TimerType, PTL DEF Spec, FiresOnlyWhenIdle
-----------------------------------------------------------------------------
(* A timeout of 0 belongs to a goroutine that is about to finish; this is   *)
(* why an Update may leave the timer stopped.                               *)
IdleInv ==
    /\ IdleIsCancelled
    /\ ~finished /\ timeout = 0 => \E x \in Users : pc[x] = "finish"
    /\ ~finished => timer \in Timers

(* Every step keeps an unfinished timer on its way to an end. *)
LEMMA NextIdle ==
  TypeOK /\ NoStrayTimer /\ IdleInv /\ [Next]_vars => IdleInv'
  <1> SUFFICES ASSUME TypeOK, NoStrayTimer, IdleInv, [Next]_vars, ~finished' PROVE IdleInv'
    BY DEF IdleInv, IdleIsCancelled
  <1> USE DEF IdleInv, IdleIsCancelled
  <1>0. /\ tm \in [Timers -> {"none", "armed", "fired", "stopped", "over"}]
        /\ pc \in [Users \cup Timers -> {"idle", "finish", "update", "call"}]
        /\ timeout \in Nat /\ now \in Nat /\ expiry \in Nat /\ timer \in 0..MaxTimers
    BY TimerAssumption DEF TypeOK
  <1>1. ASSUME UpdateBody, UNCHANGED <<now, timeout, finished>>,
               \A x \in Users \cup Timers : pc[x] = "finish" => pc'[x] = "finish"
        PROVE  IdleInv'
    <2>1. CASE Rearm
      BY <1>0, <1>1, <2>1, TimerAssumption DEF Rearm, UpdateBody, Timers
    <2>2. CASE StopOnly
      BY <1>0, <1>1, <2>2 DEF StopOnly, UpdateBody
    <2> QED BY <1>1, <2>1, <2>2 DEF UpdateBody
  <1>2. ASSUME NEW u \in Users, Update(u) PROVE IdleInv'
    BY <1>1, <1>2 DEF Update
  <1>3. ASSUME NEW u \in Users, SetTimeoutUpdate(u) PROVE IdleInv'
    <2>1. \A x \in Users \cup Timers : pc[x] = "finish" => pc'[x] = "finish"
      BY <1>0, <1>3 DEF SetTimeoutUpdate
    <2> QED BY <1>1, <1>3, <2>1 DEF SetTimeoutUpdate
  <1>4. ASSUME NEW u \in Users, NEW d \in Timeouts, SetTimeout(u, d) PROVE IdleInv'
    BY <1>0, <1>4 DEF SetTimeout
  <1>5. ASSUME NEW k \in Timers, Fire(k) PROVE IdleInv'
    <2>1. k \notin Users
      BY TimerAssumption DEF Timers
    <2> QED BY <1>0, <1>5, <2>1 DEF Fire
  <1>6. ASSUME NEW x \in Users \cup Timers, onTimeout(x) PROVE IdleInv'
    BY <1>0, <1>6 DEF onTimeout
  <1>7. CASE Tick
    BY <1>0, <1>7 DEF Tick, NoStrayTimer
  <1>8. CASE UNCHANGED vars
    BY <1>8 DEF vars
  <1> QED BY <1>2, <1>3, <1>4, <1>5, <1>6, <1>7, <1>8 DEF Next, finish

(* An idle connection is not forgotten.                                     *)
THEOREM TimerIdle == Spec => []IdleIsCancelled
  <1>1. Init => IdleInv
    <2> SUFFICES ASSUME Init, ~finished PROVE IdleInv
      BY DEF IdleInv, IdleIsCancelled
    <2>1. /\ timeout # 0 /\ timer = 1 /\ 1 \in Timers /\ tm[1] = "armed"
          /\ now = 0 /\ expiry \in Nat
      BY InitCases
    <2> QED BY <2>1 DEF IdleInv, IdleIsCancelled
  <1>2. IdleInv => IdleIsCancelled
    BY DEF IdleInv
  <1> QED BY <1>1, <1>2, InitNoStray, NextNoStray, NextIdle, TimerType, PTL DEF Spec
=============================================================================
