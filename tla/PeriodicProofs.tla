--------------------------- MODULE PeriodicProofs ---------------------------
(***************************************************************************)
(* Proofs about common/task/periodic.go for any number of chains.           *)
(***************************************************************************)
EXTENDS Periodic, TLAPS

(* The type invariant is inductive. *)
LEMMA TypeInductive == TypeOK /\ [Next]_vars => TypeOK'
  <1> SUFFICES ASSUME TypeOK, [Next]_vars PROVE TypeOK'
    OBVIOUS
  <1> USE DEF TypeOK, Move
  <1>1. CASE Start
    BY <1>1 DEF Start
  <1>2. ASSUME NEW k \in Chains, Step(k) PROVE TypeOK'
    BY <1>2 DEF Step, Fire, Check, ExecutePass, ExecuteFail, Reschedule, GiveUp
  <1>3. CASE Close
    BY <1>3 DEF Close
  <1>4. CASE UNCHANGED vars
    BY <1>4 DEF vars
  <1> QED BY <1>1, <1>2, <1>3, <1>4 DEF Next

(* The variables of a periodic task keep their types. *)
THEOREM PeriodicType == Spec => []TypeOK
  <1>1. Init => TypeOK
    BY DEF Init, TypeOK
  <1> QED BY <1>1, TypeInductive, PTL DEF Spec

(* A task whose running flag is set always has a step or a timer behind it, *)
(* whatever Start, Close and failing Executes are interleaved.              *)
THEOREM PeriodicAlive == Spec => []RunningIsAlive
  <1>1. Init => RunningIsAlive
    BY DEF Init, RunningIsAlive
  <1>2. TypeOK /\ RunningIsAlive /\ [Next]_vars => RunningIsAlive'
    <2> SUFFICES ASSUME TypeOK, RunningIsAlive, [Next]_vars PROVE RunningIsAlive'
      OBVIOUS
    <2> USE DEF TypeOK, RunningIsAlive, Active, Move
    <2>1. CASE Start
      BY <2>1 DEF Start
    <2>2. ASSUME NEW k \in Chains, Step(k) PROVE RunningIsAlive'
      <3>1. CASE GiveUp(k)
        BY <3>1 DEF GiveUp
      <3>2. CASE ~GiveUp(k)
        <4>1. running' = running
          BY <2>2, <3>2 DEF Step, Fire, Check, ExecutePass, ExecuteFail, Reschedule
        <4>2. running => chain'[k] # "none"
          BY <2>2, <3>2 DEF Step, Fire, Check, ExecutePass, ExecuteFail, Reschedule
        <4> QED BY <4>1, <4>2
      <3> QED BY <3>1, <3>2
    <2>3. CASE Close
      BY <2>3 DEF Close
    <2>4. CASE UNCHANGED vars
      BY <2>4 DEF vars
    <2> QED BY <2>1, <2>2, <2>3, <2>4 DEF Next
  <1> QED BY <1>1, <1>2, PeriodicType, PTL DEF Spec

(* Without Close, a chain exists only while running is set.  This is what   *)
(* makes the test of running in Start enough.                               *)
OneChainInv == SingleChain /\ (~MayClose => (Active # {} => running))

(* Without Close there is one chain, so Execute never overlaps itself.      *)
THEOREM PeriodicSingle == Spec => []SingleChain
  <1>1. Init => OneChainInv
    BY DEF Init, OneChainInv, SingleChain, Active
  <1>2. TypeOK /\ OneChainInv /\ [Next]_vars => OneChainInv'
    <2> SUFFICES ASSUME TypeOK, OneChainInv, [Next]_vars PROVE OneChainInv'
      OBVIOUS
    <2> USE DEF TypeOK, OneChainInv, SingleChain, Active, Move
    <2>1. CASE Start
      BY <2>1 DEF Start
    <2>2. ASSUME NEW k \in Chains, Step(k) PROVE OneChainInv'
      <3>1. Active' \subseteq Active
        BY <2>2 DEF Step, Fire, Check, ExecutePass, ExecuteFail, Reschedule, GiveUp
      <3>2. k \in Active
        BY <2>2 DEF Step, Fire, Check, ExecutePass, ExecuteFail, Reschedule, GiveUp
      <3>3. CASE GiveUp(k)
        BY <3>1, <3>2, <3>3 DEF GiveUp
      <3>4. CASE ~GiveUp(k)
        <4>1. running' = running
          BY <2>2, <3>4 DEF Step, Fire, Check, ExecutePass, ExecuteFail, Reschedule
        <4> QED BY <3>1, <3>2, <4>1
      <3> QED BY <3>3, <3>4
    <2>3. CASE Close
      BY <2>3 DEF Close
    <2>4. CASE UNCHANGED vars
      BY <2>4 DEF vars
    <2> QED BY <2>1, <2>2, <2>3, <2>4 DEF Next
  <1>3. OneChainInv => SingleChain
    BY DEF OneChainInv
  <1> QED BY <1>1, <1>2, <1>3, PeriodicType, PTL DEF Spec
=============================================================================
