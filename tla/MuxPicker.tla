----------------------------- MODULE MuxPicker -----------------------------
(***************************************************************************)
(* common/mux/client.go: ClientManager.Dispatch over an                     *)
(* IncrementalWorkerPicker.  Workers are numbered as the factory makes      *)
(* them; of a worker only its load matters here (SessionManager and Mux     *)
(* have the rest): the sessions open, the sessions ever opened, whether its *)
(* session manager is closed, and whether it is itself, which is a step     *)
(* later or earlier.  The picker's cleanup task is module Periodic.         *)
(***************************************************************************)
EXTENDS Naturals, Sequences, FiniteSets

CONSTANTS
    Dispatchers,        \* goroutines that call ClientManager.Dispatch
    MaxWorkers,         \* bound: workers ever made
    MaxConcurrency, MaxConnection,      \* ClientStrategy, 0 is no limit
    Tries,              \* 16
    Chains, MayClose    \* of the cleanup task

Workers == 1..MaxWorkers

VARIABLES
    workers,            \* p.workers
    made,               \* workers made so far
    size, count,        \* per worker: sessions open, sessions ever opened
    closed,             \* per worker: its session manager is closed
    done,               \* per worker: doneCtx is cancelled
    pc, tries,          \* per dispatcher: where it is, tries begun
    picked, dchain,     \* the worker PickAvailable returned; the chain its Start runs
    disturbed,          \* history: something else happened since Dispatch was called
    running, timer, chain       \* the cleanup task

Cleaner == INSTANCE Periodic

workerVars == <<made, size, count, closed, done>>
dispatchVars == <<pc, tries, picked, dchain>>
cleanerVars == <<running, timer, chain>>
vars == <<workers, workerVars, dispatchVars, disturbed, cleanerVars>>

Init ==
    /\ workers = <<>> /\ made = 0
    /\ size = [w \in Workers |-> 0] /\ count = [w \in Workers |-> 0]
    /\ closed = [w \in Workers |-> FALSE] /\ done = [w \in Workers |-> FALSE]
    /\ pc = [d \in Dispatchers |-> "idle"]
    /\ tries = [d \in Dispatchers |-> 0]
    /\ picked = [d \in Dispatchers |-> 0]
    /\ dchain = [d \in Dispatchers |-> 0]
    /\ disturbed = [d \in Dispatchers |-> FALSE]
    /\ Cleaner!Init

goto(d, label) == pc' = [pc EXCEPT ![d] = label]

(* What one goroutine does disturbs every Dispatch but its own. *)
disturb(d) == disturbed' = [e \in Dispatchers |-> disturbed[e] \/ e # d]
disturbAll == disturbed' = [e \in Dispatchers |-> TRUE]

atLimit(w) ==
    \/ MaxConnection > 0 /\ count[w] >= MaxConnection
    \/ MaxConcurrency > 0 /\ size[w] >= MaxConcurrency

IsFull(w) == done[w] \/ atLimit(w)

(* Mutant of cleanup: a worker that is full goes too. *)
cleanup_Full == SelectSeq(workers, LAMBDA w : ~IsFull(w))

cleanup == SelectSeq(workers, LAMBDA w : ~done[w])

(* Mutant of available: a worker that is open and full counts as one. *)
available_Open == {i \in 1..Len(workers) : ~done[workers[i]]}

available == {i \in 1..Len(workers) : ~IsFull(workers[i])}
findAvailable == CHOOSE i \in available : \A j \in available : i <= j

(* pickInternal, first half: the available worker changes places with the   *)
(* last one, and the one now at idx is returned.                            *)
pickExisting(d) ==
    /\ available # {}
    /\ LET idx == findAvailable
           n == Len(workers)
       IN  /\ workers' = [workers EXCEPT ![n] = workers[idx], ![idx] = workers[n]]
           /\ picked' = [picked EXCEPT ![d] = workers'[idx]]
    /\ goto(d, "dispatch")
    /\ UNCHANGED made

(* pickInternal, second half: a new worker, unless the factory fails. *)
pickNew(d) ==
    /\ available = {}
    /\ \/ /\ made < MaxWorkers
          /\ made' = made + 1
          /\ workers' = Append(cleanup, made')
          /\ picked' = [picked EXCEPT ![d] = made']
          /\ goto(d, "Start")
       \/ /\ workers' = cleanup
          /\ goto(d, "failed")
          /\ UNCHANGED <<made, picked>>

(* One more turn of the loop in ClientManager.Dispatch. *)
pickInternal(d) ==
    /\ pc[d] \in {"idle", "retry"}
    /\ tries[d] < Tries
    /\ tries' = [tries EXCEPT ![d] = @ + 1]
    /\ pickExisting(d) \/ pickNew(d)
    /\ disturb(d)
    /\ UNCHANGED <<size, count, closed, done, dchain, cleanerVars>>

(* "unable to find an available mux client" *)
outOfTries(d) ==
    /\ pc[d] = "retry" /\ tries[d] = Tries
    /\ goto(d, "failed")
    /\ UNCHANGED <<workers, workerVars, tries, picked, dchain, disturbed, cleanerVars>>

(* PickAvailable starts the cleanup task, outside the picker's lock; the    *)
(* first step of the task runs in the caller.                               *)
StartCleaner(d) ==
    /\ pc[d] = "Start"
    /\ IF running
       THEN /\ goto(d, "dispatch")
            /\ UNCHANGED <<dchain, cleanerVars>>
       ELSE \E k \in Chains :
               /\ chain[k] = "none" /\ chain' = [chain EXCEPT ![k] = "check"]
               /\ running' = TRUE /\ UNCHANGED timer
               /\ dchain' = [dchain EXCEPT ![d] = k]
               /\ goto(d, "step")
    /\ disturb(d)
    /\ UNCHANGED <<workers, workerVars, tries, picked>>

(* That step returns; an error of cleanupFunc is an error of PickAvailable. *)
StepReturns(d, k, label) ==
    /\ pc[d] = "step" /\ dchain[d] = k
    /\ goto(d, label)
    /\ dchain' = [dchain EXCEPT ![d] = 0]

stepOf(k) == {d \in Dispatchers : pc[d] = "step" /\ dchain[d] = k}

(* worker.Dispatch asks IsFull first, *)
workerDispatch(d) ==
    /\ pc[d] = "dispatch"
    /\ goto(d, IF IsFull(picked[d]) THEN "retry" ELSE "Allocate")
    /\ UNCHANGED <<workers, workerVars, tries, picked, dchain, disturbed, cleanerVars>>

(* and then Allocate, which does not look at doneCtx but at the manager.    *)
Allocate(d) ==
    /\ pc[d] = "Allocate"
    /\ LET w == picked[d] IN
       IF closed[w] \/ atLimit(w)
       THEN /\ goto(d, "retry")
            /\ UNCHANGED <<size, count>>
       ELSE /\ size' = [size EXCEPT ![w] = @ + 1]
            /\ count' = [count EXCEPT ![w] = @ + 1]
            /\ goto(d, "accepted")
    /\ disturb(d)
    /\ UNCHANGED <<workers, made, closed, done, tries, picked, dchain, cleanerVars>>

(* The caller of a Dispatch that returned makes another. *)
Again(d) ==
    /\ pc[d] \in {"accepted", "failed"}
    /\ goto(d, "idle")
    /\ tries' = [tries EXCEPT ![d] = 0]
    /\ picked' = [picked EXCEPT ![d] = 0]
    /\ disturbed' = [disturbed EXCEPT ![d] = FALSE]
    /\ UNCHANGED <<workers, workerVars, dchain, cleanerVars>>

SessionEnds(w) ==
    /\ size[w] > 0 /\ size' = [size EXCEPT ![w] = @ - 1]
    /\ disturbAll
    /\ UNCHANGED <<workers, made, count, closed, done, dispatchVars, cleanerVars>>

(* doneCancel: the connection of the worker ends, or its monitor has closed *)
(* the manager.                                                             *)
WorkerDone(w) ==
    /\ w <= made /\ ~done[w]
    /\ done' = [done EXCEPT ![w] = TRUE]
    /\ disturbAll
    /\ UNCHANGED <<workers, made, size, count, closed, dispatchVars, cleanerVars>>

(* The monitor closes the manager, because the worker is done or has had no *)
(* session for a while.                                                     *)
ManagerCloses(w) ==
    /\ w <= made /\ ~closed[w] /\ (done[w] \/ size[w] = 0)
    /\ closed' = [closed EXCEPT ![w] = TRUE]
    /\ size' = [size EXCEPT ![w] = 0]
    /\ disturbAll
    /\ UNCHANGED <<workers, made, count, done, dispatchVars, cleanerVars>>

(* Execute of the task. *)
cleanupFunc(k) ==
    /\ chain[k] = "exec"
    /\ IF workers = <<>>
       THEN chain' = [chain EXCEPT ![k] = "failed"] /\ UNCHANGED workers
       ELSE chain' = [chain EXCEPT ![k] = "passed"] /\ workers' = cleanup
    /\ disturbed' = [e \in Dispatchers |-> disturbed[e] \/ e \notin stepOf(k)]
    /\ UNCHANGED <<workerVars, dispatchVars, running, timer>>

(* The critical sections of step around it. *)
CleanerStep(k) ==
    /\ Cleaner!Fire(k) \/ Cleaner!Check(k)
    /\ UNCHANGED <<workers, workerVars, dispatchVars, disturbed>>

(* The end of step, which in the first chain is the end of Start. *)
CleanerEnd(k) ==
    /\ \/ /\ Cleaner!Reschedule(k)
          /\ IF stepOf(k) = {} THEN UNCHANGED <<pc, dchain>>
             ELSE \E d \in stepOf(k) : StepReturns(d, k, "dispatch")
       \/ /\ Cleaner!GiveUp(k)
          /\ IF stepOf(k) = {} THEN UNCHANGED <<pc, dchain>>
             ELSE \E d \in stepOf(k) : StepReturns(d, k, "failed")
    /\ UNCHANGED <<workers, workerVars, tries, picked, disturbed>>

Next ==
    \/ \E d \in Dispatchers :
          \/ pickInternal(d) \/ StartCleaner(d) \/ workerDispatch(d) \/ Allocate(d)
          \/ outOfTries(d) \/ Again(d)
    \/ \E w \in Workers : SessionEnds(w) \/ WorkerDone(w) \/ ManagerCloses(w)
    \/ \E k \in Chains : cleanupFunc(k) \/ CleanerStep(k) \/ CleanerEnd(k)

Spec == Init /\ [][Next]_vars

-----------------------------------------------------------------------------
TypeOK ==
    /\ workers \in Seq(Workers) /\ made \in 0..MaxWorkers
    /\ size \in [Workers -> Nat] /\ count \in [Workers -> Nat]
    /\ closed \in [Workers -> BOOLEAN] /\ done \in [Workers -> BOOLEAN]
    /\ pc \in [Dispatchers -> {"idle", "Start", "step", "dispatch", "Allocate", "retry", "accepted", "failed"}]
    /\ tries \in [Dispatchers -> 0..Tries]
    /\ picked \in [Dispatchers -> 0..MaxWorkers]

(* The worker that PickAvailable returns may be the one that just gave its  *)
(* place to the available one, and be full.  The swap makes up for it: a    *)
(* Dispatch that nobody disturbs finds room at its second try, unless the   *)
(* worker is one whose idle manager is closed and that is about to be done  *)
(* (client.go:245-246): findAvailable offers it, and Allocate refuses.  The *)
(* 16 tries are spent on contention and on such workers only.               *)
TwoTriesSuffice ==
    \A d \in Dispatchers :
        tries[d] >= 2 /\ pc[d] = "retry" /\ ~disturbed[d] =>
            closed[picked[d]] /\ ~done[picked[d]]

(* No worker is lost while its connection is open: neither the cleanup of   *)
(* pickInternal, nor the task, nor the swaps drop it or list it twice, so   *)
(* that its free places are found again.                                    *)
OpenWorkersAreListed ==
    \A w \in 1..made : ~done[w] => Cardinality({i \in 1..Len(workers) : workers[i] = w}) = 1

=============================================================================
