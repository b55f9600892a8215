------------------------------ MODULE Periodic ------------------------------
(***************************************************************************)
(* common/task/periodic.go: a task that runs Execute on Start, then every   *)
(* Interval.                                                                *)
(*                                                                         *)
(* A step() that reschedules ends and leaves one timer, which starts the    *)
(* next step(): together they are one chain, which is at one of             *)
(*    "armed"   its timer is pending                                        *)
(*    "check"   in step(), before the test of running                       *)
(*    "exec"    inside Execute                                              *)
(*    "passed"  Execute returned nil, the lock is not taken yet             *)
(*    "failed"  Execute returned an error, the lock is not taken yet        *)
(* What runs under t.mu is one step of the model.                           *)
(***************************************************************************)
EXTENDS Naturals

CONSTANTS
    Chains,         \* names for the chains that may exist at once
    MayClose        \* whether the owner of the task calls Close

VARIABLES
    running,        \* t.running
    timer,          \* the chain that t.timer belongs to, 0 for nil
    chain           \* where each chain is

vars == <<running, timer, chain>>

Active == {k \in Chains : chain[k] # "none"}

Move(k, from, to) == chain[k] = from /\ chain' = [chain EXCEPT ![k] = to]

Init ==
    /\ running = FALSE /\ timer = 0
    /\ chain = [k \in Chains |-> "none"]

(* Start: idempotent while running, otherwise the caller runs step(). *)
Start ==
    /\ running' = TRUE
    /\ IF running THEN UNCHANGED chain ELSE \E k \in Chains : Move(k, "none", "check")
    /\ UNCHANGED timer

Fire(k) ==
    /\ Move(k, "armed", "check")
    /\ UNCHANGED <<running, timer>>

(* step: the first critical section. *)
Check(k) ==
    /\ Move(k, "check", IF running THEN "exec" ELSE "none")
    /\ UNCHANGED <<running, timer>>

(* t.Execute() returns. *)
ExecutePass(k) ==
    /\ Move(k, "exec", "passed")
    /\ UNCHANGED <<running, timer>>

ExecuteFail(k) ==
    /\ Move(k, "exec", "failed")
    /\ UNCHANGED <<running, timer>>

(* step: the second critical section, after success. *)
Reschedule(k) ==
    /\ Move(k, "passed", IF running THEN "armed" ELSE "none")
    /\ timer' = IF running THEN k ELSE timer
    /\ UNCHANGED running

(* step: the critical section after an error. *)
GiveUp(k) ==
    /\ Move(k, "failed", "none")
    /\ running' = FALSE
    /\ UNCHANGED timer

(* Stop() only has an effect on a timer that has not fired. *)
Close ==
    /\ MayClose
    /\ running' = FALSE
    /\ timer' = 0
    /\ chain' = [k \in Chains |->
                    IF k = timer /\ chain[k] = "armed" THEN "none" ELSE chain[k]]

Step(k) ==
    \/ Fire(k)
    \/ Check(k)
    \/ ExecutePass(k)
    \/ ExecuteFail(k)
    \/ Reschedule(k)
    \/ GiveUp(k)

Next ==
    \/ Start
    \/ \E k \in Chains : Step(k)
    \/ Close

Spec == Init /\ [][Next]_vars

-----------------------------------------------------------------------------
(* Every variable has its type. *)
TypeOK ==
    /\ running \in BOOLEAN
    /\ timer \in Chains \cup {0}
    /\ chain \in [Chains -> {"none", "armed", "check", "exec", "passed", "failed"}]

(* A task that says it is running has a step or a timer that will run       *)
(* Execute: no path through Start, Close and a failing Execute leaves the   *)
(* flag set with nothing behind it, which would make every later Start a    *)
(* no-op.                                                                   *)
RunningIsAlive == running => Active # {}

(* Without Close there is one chain, so Execute never overlaps itself.      *)
SingleChain == ~MayClose => \A j, k \in Active : j = k

=============================================================================
