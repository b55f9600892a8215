--------------------------- MODULE TaskRunProofs ---------------------------
(***************************************************************************)
(* Proofs about common/task/task.go for any number of tasks.  The argument  *)
(* counts tokens: a task that was started and has not given its token back  *)
(* holds it, so the tokens in s, those Run has collected and those held add *)
(* up to N.                                                                 *)
(***************************************************************************)
EXTENDS TaskRun, FiniteSets, FiniteSetTheorems, TLAPS

(* The tasks that hold a token. *)
Holding == {t \in Tasks : tpc[t] \in {"run", "passed", "failed"}
                          \/ (tpc[t] = "exit" /\ outcome[t] = "err")}

(* Where a task is fits what it returned. *)
TaskInv ==
    \A t \in Tasks :
        /\ tpc[t] = "new" <=> t > launched
        /\ tpc[t] \in {"new", "run"} => outcome[t] = "none"
        /\ tpc[t] = "passed" => outcome[t] = "nil"
        /\ tpc[t] = "failed" => outcome[t] = "err"
        /\ tpc[t] = "exit" => outcome[t] \in {"nil", "err"}

(* The error in done, and the one returned, are the first. *)
ErrInv ==
    /\ result # "err" => done = firstErr
    /\ firstErr # 0 => outcome[firstErr] = "err"
    /\ result = "err" => failedTask = firstErr /\ firstErr # 0

TokenInv == s + i + Cardinality(Holding) = N

ResultInv == result = "nil" => i = N /\ launched = N

IInv == TypeOK /\ TaskInv /\ TokenInv /\ ResultInv

(* A fresh Run satisfies the invariant. *)
LEMMA InitInv ==
  ASSUME N \in Nat PROVE Init => IInv /\ ErrInv
  <1> SUFFICES ASSUME Init PROVE IInv /\ ErrInv
    OBVIOUS
  <1>1. Holding = {}
    BY DEF Init, Holding
  <1>2. TokenInv
    BY <1>1, FS_EmptySet DEF Init, TokenInv
  <1>3. TypeOK
    <2>1. /\ s \in 0..N /\ launched \in 0..N /\ i \in 0..N
          /\ done \in 0..N /\ failedTask \in 0..N /\ firstErr \in 0..N
      BY DEF Init
    <2>2. canceled \in BOOLEAN
      BY DEF Init
    <2> QED BY <2>1, <2>2 DEF Init, TypeOK
  <1> QED BY <1>2, <1>3 DEF Init, IInv, ErrInv, TaskInv, ResultInv, Tasks

(* The holders are finitely many, and counting them follows their changes.  *)
LEMMA HoldingFinite ==
  ASSUME N \in Nat PROVE IsFiniteSet(Holding) /\ Cardinality(Holding) \in Nat
  <1>1. IsFiniteSet(Tasks)
    BY FS_Interval DEF Tasks
  <1>2. Holding \subseteq Tasks
    BY DEF Holding
  <1> QED BY <1>1, <1>2, FS_Subset, FS_CardinalityType

(* Every step preserves the invariant. *)
LEMMA NextInv ==
  ASSUME N \in Nat PROVE IInv /\ [Next]_vars => IInv'
  <1> SUFFICES ASSUME IInv, [Next]_vars PROVE IInv'
    OBVIOUS
  <1>0. /\ s \in 0..N /\ i \in 0..N /\ launched \in 0..N
        /\ tpc \in [Tasks -> {"new", "run", "passed", "failed", "exit"}]
        /\ outcome \in [Tasks -> {"none", "nil", "err"}]
    BY DEF IInv, TypeOK
  <1>1. CASE Launch
    <2>1. launched + 1 \in Tasks /\ tpc[launched + 1] = "new"
      BY <1>0, <1>1 DEF Launch, IInv, TaskInv, Tasks
    <2>2. Holding' = Holding \cup {launched + 1} /\ launched + 1 \notin Holding
      BY <1>0, <1>1, <2>1 DEF Launch, Holding
    <2>3. Cardinality(Holding') = Cardinality(Holding) + 1
      BY <2>2, HoldingFinite, FS_AddElement
    <2>4. TokenInv'
      BY <1>0, <1>1, <2>3, HoldingFinite DEF Launch, IInv, TokenInv
    <2>5. TaskInv'
      BY <1>0, <1>1, <2>1 DEF Launch, IInv, TaskInv, Tasks
    <2>6. TypeOK'
      BY <1>0, <1>1, <2>1 DEF Launch, IInv, TypeOK
    <2> QED BY <1>1, <2>4, <2>5, <2>6 DEF Launch, IInv, ResultInv
  <1>2. ASSUME NEW t \in Tasks, TaskEnds(t) PROVE IInv'
    <2>1. Holding' = Holding
      BY <1>0, <1>2 DEF TaskEnds, Holding
    <2>2. TaskInv'
      BY <1>0, <1>2 DEF TaskEnds, IInv, TaskInv
    <2>3. TypeOK'
      BY <1>0, <1>2 DEF TaskEnds, IInv, TypeOK
    <2> QED BY <1>2, <2>1, <2>2, <2>3 DEF TaskEnds, IInv, TokenInv, ResultInv
  <1>3. ASSUME NEW t \in Tasks, TaskPassed(t) PROVE IInv'
    <2>1. Holding' = Holding \ {t} /\ t \in Holding
      BY <1>0, <1>3 DEF TaskPassed, Holding, IInv, TaskInv
    <2>2. Cardinality(Holding') = Cardinality(Holding) - 1
      BY <2>1, HoldingFinite, FS_RemoveElement
    <2>3. TokenInv'
      BY <1>0, <1>3, <2>2, HoldingFinite DEF TaskPassed, IInv, TokenInv
    <2>4. TaskInv'
      BY <1>0, <1>3 DEF TaskPassed, IInv, TaskInv
    <2>5. TypeOK'
      BY <1>0, <1>3 DEF TaskPassed, IInv, TypeOK
    <2> QED BY <1>3, <2>3, <2>4, <2>5 DEF TaskPassed, IInv, ResultInv
  <1>4. ASSUME NEW t \in Tasks, TaskFailed(t) PROVE IInv'
    <2>1. Holding' = Holding
      BY <1>0, <1>4 DEF TaskFailed, Holding, IInv, TaskInv
    <2>2. TaskInv'
      BY <1>0, <1>4 DEF TaskFailed, IInv, TaskInv
    <2>3. TypeOK'
      BY <1>0, <1>4 DEF TaskFailed, IInv, TypeOK, Tasks
    <2> QED BY <1>4, <2>1, <2>2, <2>3 DEF TaskFailed, IInv, TokenInv, ResultInv
  <1>5. ASSUME UNCHANGED <<tpc, outcome, launched>> PROVE TaskInv' /\ Holding' = Holding
    BY <1>5 DEF IInv, TaskInv, Holding
  <1>6. CASE Collect
    BY <1>0, <1>5, <1>6, HoldingFinite DEF Collect, Collecting, IInv, TokenInv, TypeOK, ResultInv
  <1>7. CASE ReturnNil
    BY <1>5, <1>7 DEF ReturnNil, Collecting, IInv, TokenInv, TypeOK, ResultInv
  <1>8. CASE ReturnErr
    BY <1>5, <1>8 DEF ReturnErr, Collecting, IInv, TokenInv, TypeOK, ResultInv
  <1>9. CASE ReturnCtx \/ Cancel
    BY <1>5, <1>9 DEF ReturnCtx, Cancel, Collecting, IInv, TokenInv, TypeOK, ResultInv
  <1>10. CASE UNCHANGED vars
    BY <1>5, <1>10 DEF vars, IInv, TokenInv, TypeOK, ResultInv
  <1> QED BY <1>1, <1>2, <1>3, <1>4, <1>6, <1>7, <1>8, <1>9, <1>10
          DEF Next, RunStep, TaskStep

(* The variables of Run keep their types; the channel s never overflows.    *)
THEOREM TaskRunType ==
  ASSUME N \in Nat PROVE Spec => []TypeOK
  <1>1. IInv => TypeOK
    BY DEF IInv
  <1> QED BY <1>1, InitInv, NextInv, PTL DEF Spec

(* Run returns nil only when every task returned nil.                       *)
THEOREM TaskRunNil ==
  ASSUME N \in Nat PROVE Spec => []NilMeansAllPassed
  <1>1. IInv => NilMeansAllPassed
    <2> SUFFICES ASSUME IInv, result = "nil", NEW t \in Tasks PROVE outcome[t] = "nil"
      BY DEF NilMeansAllPassed
    <2>1. Cardinality(Holding) = 0
      BY HoldingFinite DEF IInv, TokenInv, ResultInv, TypeOK
    <2>2. Holding = {}
      BY <2>1, HoldingFinite, FS_EmptySet
    <2>3. tpc[t] # "new"
      BY DEF IInv, TaskInv, ResultInv, Tasks
    <2> QED BY <2>2, <2>3 DEF IInv, TypeOK, TaskInv, Holding
  <1> QED BY <1>1, InitInv, NextInv, PTL DEF Spec

(* Every step keeps the first error first. *)
LEMMA NextErr ==
  ASSUME N \in Nat PROVE IInv /\ ErrInv /\ [Next]_vars => ErrInv'
  <1> SUFFICES ASSUME IInv, ErrInv, [Next]_vars PROVE ErrInv'
    OBVIOUS
  <1> USE DEF ErrInv
  <1>0. /\ outcome \in [Tasks -> {"none", "nil", "err"}]
        /\ done \in 0..N /\ firstErr \in 0..N
    BY DEF IInv, TypeOK
  <1>1. CASE Launch \/ Collect \/ ReturnNil \/ ReturnCtx \/ Cancel
    BY <1>1 DEF Launch, Collect, Collecting, ReturnNil, ReturnCtx, Cancel
  <1>2. ASSUME NEW t \in Tasks, TaskEnds(t) PROVE ErrInv'
    <2>1. outcome[t] = "none"
      BY <1>2 DEF TaskEnds, IInv, TaskInv
    <2>2. firstErr # 0 => firstErr \in Tasks /\ firstErr # t
      BY <1>0, <2>1 DEF Tasks
    <2>3. firstErr # 0 => outcome'[firstErr] = "err"
      BY <1>0, <1>2, <2>2 DEF TaskEnds
    <2> QED BY <1>2, <2>3 DEF TaskEnds
  <1>3. ASSUME NEW t \in Tasks, TaskPassed(t) PROVE ErrInv'
    BY <1>3 DEF TaskPassed
  <1>4. ASSUME NEW t \in Tasks, TaskFailed(t) PROVE ErrInv'
    BY <1>0, <1>4 DEF TaskFailed, IInv, TaskInv, Tasks
  <1>5. CASE ReturnErr
    BY <1>5 DEF ReturnErr, Collecting
  <1>6. CASE UNCHANGED vars
    BY <1>6 DEF vars
  <1> QED BY <1>1, <1>2, <1>3, <1>4, <1>5, <1>6 DEF Next, RunStep, TaskStep

(* The error Run returns is the first one a task put into done.             *)
THEOREM TaskRunErr ==
  ASSUME N \in Nat PROVE Spec => []ErrIsTheFirst
  <1>1. ErrInv => ErrIsTheFirst
    BY DEF ErrInv, ErrIsTheFirst
  <1> QED BY <1>1, InitInv, NextInv, NextErr, PTL DEF Spec
=============================================================================
