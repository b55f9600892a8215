------------------------------ MODULE TaskRun ------------------------------
(***************************************************************************)
(* common/task/task.go: Run executes tasks in parallel and returns the      *)
(* first error, or nil once all have passed.  It joins the two directions   *)
(* of every proxied connection.                                             *)
(*                                                                         *)
(* The channel s holds one token per task that is not running or has        *)
(* passed; done is a channel of one slot for the first error.               *)
(***************************************************************************)
EXTENDS Naturals

CONSTANT N              \* number of tasks

Tasks == 1..N

VARIABLES
    s,              \* tokens in the channel s
    done,           \* the task whose error is in done, 0 when the slot is free
    launched,       \* tasks started by the first loop
    i,              \* tokens collected by the second loop
    result,         \* "running", "nil", "ctx" or "err"
    failedTask,     \* the task whose error is returned
    canceled,       \* ctx is cancelled
    tpc,            \* per task: "new", "run", "passed", "failed", "exit"
    outcome,        \* history per task: "none", "nil", "err"
    firstErr        \* history: the first task whose error entered done

vars == <<s, done, launched, i, result, failedTask, canceled, tpc, outcome, firstErr>>

Init ==
    /\ s = N /\ done = 0 /\ launched = 0 /\ i = 0
    /\ result = "running" /\ failedTask = 0 /\ canceled = FALSE
    /\ tpc = [t \in Tasks |-> "new"]
    /\ outcome = [t \in Tasks |-> "none"]
    /\ firstErr = 0

(* The first loop: <-s, then go func. *)
Launch ==
    /\ result = "running" /\ launched < N /\ s > 0
    /\ s' = s - 1
    /\ launched' = launched + 1
    /\ tpc' = [tpc EXCEPT ![launched + 1] = "run"]
    /\ UNCHANGED <<done, i, result, failedTask, canceled, outcome, firstErr>>

(* err := f() *)
TaskEnds(t) ==
    /\ tpc[t] = "run"
    /\ \/ /\ tpc' = [tpc EXCEPT ![t] = "passed"]
          /\ outcome' = [outcome EXCEPT ![t] = "nil"]
       \/ /\ tpc' = [tpc EXCEPT ![t] = "failed"]
          /\ outcome' = [outcome EXCEPT ![t] = "err"]
    /\ UNCHANGED <<s, done, launched, i, result, failedTask, canceled, firstErr>>

(* s <- struct{}{}: it would block at the capacity n. *)
TaskPassed(t) ==
    /\ tpc[t] = "passed" /\ s < N
    /\ s' = s + 1
    /\ tpc' = [tpc EXCEPT ![t] = "exit"]
    /\ UNCHANGED <<done, launched, i, result, failedTask, canceled, outcome, firstErr>>

(* Mutant of TaskFailed: a failed task returns its token as well. *)
TaskFailed_ReturnsToken(t) ==
    /\ tpc[t] = "failed"
    /\ s' = s + 1
    /\ IF done = 0
         THEN done' = t /\ firstErr' = (IF firstErr = 0 THEN t ELSE firstErr)
         ELSE UNCHANGED <<done, firstErr>>
    /\ tpc' = [tpc EXCEPT ![t] = "exit"]
    /\ UNCHANGED <<launched, i, result, failedTask, canceled, outcome>>

(* select { case done <- err: default: } *)
TaskFailed(t) ==
    /\ tpc[t] = "failed"
    /\ IF done = 0
         THEN done' = t /\ firstErr' = (IF firstErr = 0 THEN t ELSE firstErr)
         ELSE UNCHANGED <<done, firstErr>>
    /\ tpc' = [tpc EXCEPT ![t] = "exit"]
    /\ UNCHANGED <<s, launched, i, result, failedTask, canceled, outcome>>

Cancel ==
    /\ ~canceled /\ canceled' = TRUE
    /\ UNCHANGED <<s, done, launched, i, result, failedTask, tpc, outcome, firstErr>>

(* The second loop: each ready case of the select may be the one taken. *)
Collecting == result = "running" /\ launched = N

ReturnErr ==
    /\ Collecting /\ i < N /\ done # 0
    /\ result' = "err" /\ failedTask' = done /\ done' = 0
    /\ UNCHANGED <<s, launched, i, canceled, tpc, outcome, firstErr>>

ReturnCtx ==
    /\ Collecting /\ i < N /\ canceled
    /\ result' = "ctx"
    /\ UNCHANGED <<s, done, launched, i, failedTask, canceled, tpc, outcome, firstErr>>

Collect ==
    /\ Collecting /\ i < N /\ s > 0
    /\ s' = s - 1 /\ i' = i + 1
    /\ UNCHANGED <<done, launched, result, failedTask, canceled, tpc, outcome, firstErr>>

ReturnNil ==
    /\ Collecting /\ i = N
    /\ result' = "nil"
    /\ UNCHANGED <<s, done, launched, i, failedTask, canceled, tpc, outcome, firstErr>>

RunStep == Launch \/ ReturnErr \/ ReturnCtx \/ Collect \/ ReturnNil

TaskStep(t) == TaskEnds(t) \/ TaskPassed(t) \/ TaskFailed(t)

Next == RunStep \/ Cancel \/ \E t \in Tasks : TaskStep(t)

Spec == Init /\ [][Next]_vars

-----------------------------------------------------------------------------
(* Every variable has its type; s never exceeds the capacity of the channel. *)
TypeOK ==
    /\ s \in 0..N /\ launched \in 0..N /\ i \in 0..N
    /\ done \in 0..N /\ failedTask \in 0..N /\ firstErr \in 0..N
    /\ result \in {"running", "nil", "ctx", "err"}
    /\ canceled \in BOOLEAN
    /\ tpc \in [Tasks -> {"new", "run", "passed", "failed", "exit"}]
    /\ outcome \in [Tasks -> {"none", "nil", "err"}]

(* Run returns nil only if every task has returned nil ("nil if all tasks   *)
(* pass"): a token in s is never mistaken for a pass.                       *)
NilMeansAllPassed == result = "nil" => \A t \in Tasks : outcome[t] = "nil"

(* The error returned is the first one that entered done ("the first error  *)
(* encountered"), and a task did fail with it.                              *)
ErrIsTheFirst ==
    result = "err" => failedTask = firstErr /\ outcome[failedTask] = "err"

=============================================================================
