------------------------ MODULE SessionManagerProofs ------------------------
(***************************************************************************)
(* Proofs about SessionManager, for every number of sessions and every      *)
(* ClientStrategy whose MaxConnection is a real limit below the number of   *)
(* IDs, as the 128 of outbound/handler.go is.  Without such a limit the     *)
(* uint16 counter comes round, and the theorems do not hold.                *)
(***************************************************************************)
EXTENDS SessionManager, FiniteSetTheorems, TLAPS

(* IDs are handed out once: those of the opened sessions are 1..count. *)
Fresh ==
    /\ count <= MaxConnection
    /\ \A s \in Opened : id[s] \in 1..count
    /\ \A s \in Session : attached[s] \/ sclosed[s] => s \in Opened

(* The numbers that Allocate compares with its limits are those of sessions. *)
Counted ==
    /\ Cardinality(Opened) = count
    /\ ~closed => Cardinality(used) = Cardinality(Live)
    /\ MaxConcurrency > 0 => Cardinality(Live) <= MaxConcurrency

Inv == TypeOK /\ Fresh /\ TableAgrees /\ ClosedManagerHasNoSession

(* The number of IDs and sessions are finite. *)
LEMMA Finite ==
    /\ IsFiniteSet(Opened) /\ IsFiniteSet(Live) /\ IsFiniteSet(used)
    /\ Cardinality(Opened) \in Nat /\ Cardinality(Live) \in Nat /\ Cardinality(used) \in Nat
<1>1. IsFiniteSet(IDs)
  BY FS_Interval, SessionManagerAssumption DEF IDs
<1>2. IsFiniteSet(Opened)
  BY FS_Subset, SessionManagerAssumption DEF Opened
<1>3. IsFiniteSet(Live)
  BY <1>2, FS_Subset DEF Live
<1>4. IsFiniteSet(used)
  BY <1>1, FS_Subset DEF used
<1> QED
  BY <1>2, <1>3, <1>4, FS_CardinalityType

(* Initially there is no session. *)
LEMMA InitInv ==
    ASSUME MaxConnection \in 1..(IDSpace - 1), Init
    PROVE  Inv /\ Counted
<1>1. TypeOK
  <2>1. 0 \in IDs
    BY SessionManagerAssumption DEF IDs
  <2> QED
    BY <2>1, SessionManagerAssumption DEF Init, TypeOK
<1>2. Opened = {} /\ Live = {} /\ used = {}
  BY DEF Init, Opened, Live, used, opened
<1>3. Fresh
  BY <1>2 DEF Init, Fresh
<1>4. TableAgrees /\ ClosedManagerHasNoSession
  BY <1>2 DEF TableAgrees, ClosedManagerHasNoSession
<1>5. Counted
  BY <1>2, FS_EmptySet, SessionManagerAssumption DEF Counted, Init
<1> QED
  BY <1>1, <1>3, <1>4, <1>5 DEF Inv

(* Allocate keeps the invariant: its ID is larger than all before. *)
LEMMA AllocateInv ==
    ASSUME MaxConnection \in 1..(IDSpace - 1), Inv, Counted, NEW s \in Session, Allocate(s)
    PROVE  Inv' /\ Counted'
<1> USE SessionManagerAssumption
<1>1. /\ ~opened(s) /\ ~closed /\ count < MaxConnection
      /\ MaxConcurrency > 0 => Cardinality(used) < MaxConcurrency
  <2>1. MaxConnection % IDSpace = MaxConnection
    OBVIOUS
  <2>2. count \in Nat /\ Cardinality(used) \in Nat
    BY Finite DEF Inv, TypeOK, IDs
  <2> QED
    BY <2>1, <2>2 DEF Allocate, atLimit
<1>2. /\ count' = count + 1 /\ count' \in 1..MaxConnection /\ count' \in IDs
  <2>1. count \in Nat /\ count + 1 \in 0..(IDSpace - 1)
    BY <1>1 DEF Inv, TypeOK, IDs
  <2>2. (count + 1) % IDSpace = count + 1
    BY <2>1
  <2> QED
    BY <1>1, <2>1, <2>2 DEF Allocate, IDs
<1>3. /\ id' = [id EXCEPT ![s] = count'] /\ sessions' = [sessions EXCEPT ![count'] = s]
      /\ UNCHANGED <<closed, sclosed, attached, released, monitorVars>>
  BY DEF Allocate
<1>4. TypeOK'
  BY <1>2, <1>3 DEF Inv, TypeOK, monitorVars
<1>5. Opened' = Opened \cup {s} /\ s \notin Opened
  BY <1>1, <1>2, <1>3 DEF Opened, opened, Inv, TypeOK, IDs
<1>6. Live' = Live \cup {s} /\ s \notin Live
  <2>1. ~sclosed[s]
    BY <1>5 DEF Inv, Fresh
  <2> QED
    BY <1>3, <1>5, <2>1 DEF Live
<1>7. sessions[count'] = NoSession
  <2>1. SUFFICES ASSUME count' \in used PROVE FALSE
    BY <1>2 DEF used
  <2>2. sessions[count'] \in Opened /\ id[sessions[count']] = count'
    BY <1>1, <1>2, <2>1 DEF Inv, TableAgrees, used, Opened, opened, TypeOK, IDs
  <2>3. count' \in 1..count /\ count \in Nat
    BY <2>2 DEF Inv, Fresh, TypeOK, IDs
  <2> QED
    BY <1>2, <2>3
<1>8. used' = used \cup {count'} /\ count' \notin used
  BY <1>2, <1>3, <1>7 DEF used, Inv, TypeOK
<1>9. Fresh'
  <2>1. \A u \in Opened : id'[u] = id[u] /\ id[u] \in 1..count
    BY <1>3, <1>5 DEF Inv, Fresh, TypeOK, Opened
  <2>2. id'[s] = count'
    BY <1>3 DEF Inv, TypeOK
  <2>3. \A u \in Opened' : id'[u] \in 1..count'
    BY <1>2, <1>5, <2>1, <2>2 DEF Inv, TypeOK, IDs
  <2>4. \A u \in Session : attached'[u] \/ sclosed'[u] => u \in Opened'
    BY <1>3, <1>5 DEF Inv, Fresh
  <2> QED
    BY <1>2, <2>3, <2>4 DEF Fresh
<1>10. TableAgrees'
  <2>1. \A i \in used' : id'[sessions'[i]] = i /\ ~sclosed'[sessions'[i]]
    <3>1. SUFFICES ASSUME NEW i \in used' PROVE id'[sessions'[i]] = i /\ ~sclosed'[sessions'[i]]
      OBVIOUS
    <3>2. CASE i = count'
      <4>1. sessions'[i] = s
        BY <1>2, <1>3, <3>2 DEF Inv, TypeOK
      <4> QED
        BY <1>3, <1>6, <3>2, <4>1 DEF Inv, TypeOK, Live
    <3>3. CASE i # count'
      <4>1. i \in used /\ sessions'[i] = sessions[i]
        BY <1>3, <1>8, <3>3 DEF Inv, TypeOK, used
      <4>2. sessions[i] \in Session /\ id[sessions[i]] = i /\ ~sclosed[sessions[i]]
        BY <1>1, <4>1 DEF Inv, TableAgrees, used, TypeOK
      <4>3. sessions[i] # s
        BY <1>1, <4>1, <4>2 DEF opened, used, IDs
      <4> QED
        BY <1>3, <4>1, <4>2, <4>3 DEF Inv, TypeOK
    <3> QED
      BY <3>2, <3>3
  <2>2. \A u \in Live' : sessions'[id'[u]] = u
    <3>1. SUFFICES ASSUME NEW u \in Live' PROVE sessions'[id'[u]] = u
      OBVIOUS
    <3>2. CASE u = s
      BY <1>2, <1>3, <3>2 DEF Inv, TypeOK
    <3>3. CASE u # s
      <4>1. u \in Live /\ u \in Opened /\ u \in Session
        BY <1>6, <3>3 DEF Live, Opened
      <4>2. id'[u] = id[u] /\ id[u] \in IDs /\ id[u] # count'
        <5>1. id'[u] = id[u] /\ id[u] \in IDs
          BY <1>3, <3>3, <4>1 DEF Inv, TypeOK, Opened, opened
        <5>2. id[u] \in 1..count /\ count \in Nat
          BY <4>1 DEF Inv, Fresh, TypeOK, IDs
        <5> QED
          BY <1>2, <5>1, <5>2
      <4>3. sessions[id[u]] = u
        BY <1>1, <4>1 DEF Inv, TableAgrees
      <4> QED
        BY <1>2, <1>3, <4>2, <4>3 DEF Inv, TypeOK
    <3> QED
      BY <3>2, <3>3
  <2> QED
    BY <2>1, <2>2 DEF TableAgrees
<1>11. ClosedManagerHasNoSession'
  BY <1>1, <1>3 DEF ClosedManagerHasNoSession
<1>12. Counted'
  <2>1. Cardinality(Opened') = Cardinality(Opened) + 1
    BY <1>5, Finite, FS_AddElement
  <2>2. Cardinality(Live') = Cardinality(Live) + 1
    BY <1>6, Finite, FS_AddElement
  <2>3. Cardinality(used') = Cardinality(used) + 1
    BY <1>8, Finite, FS_AddElement
  <2>4. Cardinality(used) = Cardinality(Live) /\ Cardinality(used) \in Nat
    BY <1>1, Finite DEF Counted
  <2> QED
    BY <1>1, <1>2, <2>1, <2>2, <2>3, <2>4 DEF Counted
<1> QED
  BY <1>4, <1>9, <1>10, <1>11, <1>12 DEF Inv

(* Closing a session keeps it: entry and session go together. *)
LEMMA SessionCloseInv ==
    ASSUME Inv, Counted, NEW s \in Session, attached[s], SessionClose(s)
    PROVE  Inv' /\ Counted'
<1>1. s \in Opened /\ id[s] \in IDs
  BY DEF Inv, Fresh, Opened, opened, TypeOK
<1>2. /\ UNCHANGED <<count, closed, monitorVars, id, attached>>
      /\ sclosed' = [u \in Session |-> sclosed[u] \/ u \in {s} \cap Live]
      /\ released' = [u \in Session |-> released[u] \/ (u \in {s} \cap Live /\ attached[u])]
      /\ sessions' = IF sclosed[s] \/ closed THEN sessions ELSE [sessions EXCEPT ![id[s]] = NoSession]
  BY DEF SessionClose, closeAll
<1>3. TypeOK'
  BY <1>1, <1>2 DEF Inv, TypeOK, monitorVars
<1>4. Opened' = Opened
  BY <1>2 DEF Opened, opened
<1>5. Live' = Live \ {s}
  BY <1>2, <1>4 DEF Live, Opened
<1>6. Fresh'
  BY <1>2, <1>4 DEF Inv, Fresh, Live
<1>7. ClosedManagerHasNoSession'
  BY <1>2, <1>5 DEF Inv, ClosedManagerHasNoSession
<1>8. CASE sclosed[s] \/ closed
  <2>1. s \notin Live
    BY <1>8 DEF Live, Inv, ClosedManagerHasNoSession
  <2>2. Live' = Live /\ sessions' = sessions /\ sclosed' = sclosed
    BY <1>2, <1>5, <1>8, <2>1 DEF Inv, TypeOK
  <2>3. used' = used
    BY <2>2 DEF used
  <2>4. TableAgrees' /\ Counted'
    BY <1>2, <1>4, <2>2, <2>3 DEF Inv, TableAgrees, Counted
  <2> QED
    BY <1>3, <1>6, <1>7, <2>4 DEF Inv
<1>9. CASE ~(sclosed[s] \/ closed)
  <2>1. s \in Live /\ sessions[id[s]] = s
    BY <1>1, <1>9 DEF Inv, TableAgrees, Live
  <2>2. used' = used \ {id[s]} /\ id[s] \in used
    BY <1>1, <1>2, <1>9, <2>1, SessionManagerAssumption DEF Inv, TypeOK, used
  <2>3. TableAgrees'
    <3>1. \A i \in used' : id'[sessions'[i]] = i /\ ~sclosed'[sessions'[i]]
      <4>1. SUFFICES ASSUME NEW i \in used' PROVE id'[sessions'[i]] = i /\ ~sclosed'[sessions'[i]]
        OBVIOUS
      <4>2. i \in used /\ i # id[s] /\ sessions'[i] = sessions[i]
        BY <1>1, <1>2, <1>9, <2>2 DEF Inv, TypeOK, used
      <4>3. sessions[i] \in Session /\ id[sessions[i]] = i /\ ~sclosed[sessions[i]]
        BY <1>9, <4>2 DEF Inv, TypeOK, TableAgrees, used
      <4> QED
        BY <1>2, <4>2, <4>3
    <3>2. \A u \in Live' : sessions'[id'[u]] = u
      <4>1. SUFFICES ASSUME NEW u \in Live' PROVE sessions'[id'[u]] = u
        OBVIOUS
      <4>2. u \in Live /\ u # s /\ u \in Session /\ id[u] \in IDs
        BY <1>5 DEF Live, Opened, opened, Inv, TypeOK
      <4>3. sessions[id[u]] = u
        BY <1>9, <4>2 DEF Inv, TableAgrees
      <4> QED
        BY <1>1, <1>2, <1>9, <2>1, <4>2, <4>3 DEF Inv, TypeOK
    <3> QED
      BY <3>1, <3>2 DEF TableAgrees
  <2>4. Counted'
    <3>1. Cardinality(Live') = Cardinality(Live) - 1
      BY <1>5, <2>1, Finite, FS_RemoveElement
    <3>2. Cardinality(used') = Cardinality(used) - 1
      BY <2>2, Finite, FS_RemoveElement
    <3> QED
      BY <1>2, <1>4, <1>9, <3>1, <3>2, Finite, SessionManagerAssumption DEF Counted
  <2> QED
    BY <1>3, <1>6, <1>7, <2>3, <2>4 DEF Inv
<1> QED
  BY <1>8, <1>9

(* A step that leaves the map, the sessions and the manager as they are. *)
LEMMA FrameInv ==
    ASSUME Inv, Counted, TypeOK', UNCHANGED <<tableVars, closed, id, sclosed>>,
           \A s \in Session : attached'[s] => s \in Opened
    PROVE  Inv' /\ Counted'
<1>1. Opened' = Opened /\ Live' = Live /\ used' = used
  BY DEF Opened, Live, used, opened, tableVars
<1>2. Fresh'
  BY <1>1 DEF Inv, Fresh, tableVars
<1>3. TableAgrees' /\ ClosedManagerHasNoSession'
  BY <1>1 DEF Inv, TableAgrees, ClosedManagerHasNoSession, tableVars
<1>4. Counted'
  BY <1>1 DEF Counted, tableVars
<1> QED
  BY <1>2, <1>3, <1>4 DEF Inv

(* Closing the manager keeps it: SessionManager.Close closes every session    *)
(* that is open, because every one of them has its entry.                     *)
LEMMA CloseInv ==
    ASSUME Inv, Counted, ~closed, closed' = TRUE, count' = count, TypeOK',
           id' = id, attached' = attached,
           sclosed' = [s \in Session |-> sclosed[s] \/ s \in Live]
    PROVE  Inv' /\ Counted'
<1>1. Opened' = Opened
  BY DEF Opened, opened
<1>2. Live' = {}
  BY <1>1 DEF Live, Opened
<1>3. Fresh'
  BY <1>1 DEF Inv, Fresh, Live
<1>4. TableAgrees' /\ ClosedManagerHasNoSession'
  BY <1>2 DEF TableAgrees, ClosedManagerHasNoSession
<1>5. Counted'
  BY <1>1, <1>2, FS_EmptySet, SessionManagerAssumption DEF Counted
<1> QED
  BY <1>3, <1>4, <1>5 DEF Inv

(* Every step of the client end keeps the invariant. *)
LEMMA NextInv ==
    ASSUME MaxConnection \in 1..(IDSpace - 1), Inv, Counted, [Next]_vars
    PROVE  Inv' /\ Counted'
<1>0. TypeOK /\ Cardinality(used) \in Nat /\ \A s \in Session : attached[s] => s \in Opened
  BY Finite DEF Inv, Fresh
<1>1. ASSUME NEW s \in Session, Allocate(s) PROVE Inv' /\ Counted'
  BY <1>1, AllocateInv
<1>2. ASSUME NEW s \in Session, attached[s], SessionClose(s) PROVE Inv' /\ Counted'
  BY <1>2, SessionCloseInv
<1>3. ASSUME NEW s \in Session, Attach(s) PROVE Inv' /\ Counted'
  <2>1. TypeOK' /\ UNCHANGED <<tableVars, closed, id, sclosed>>
    BY <1>0, <1>3 DEF Attach, TypeOK, tableVars, monitorVars
  <2>2. \A u \in Session : attached'[u] => u \in Opened
    BY <1>0, <1>3 DEF Attach, Opened, TypeOK
  <2> QED
    BY <2>1, <2>2, FrameInv
<1>4. CASE doneCancel
  <2>1. TypeOK' /\ UNCHANGED <<tableVars, closed, id, sclosed, attached>>
    BY <1>0, <1>4 DEF doneCancel, TypeOK, tableVars, sessionVars
  <2> QED
    BY <1>0, <2>1, FrameInv
<1>5. CASE monitorSize
  <2>1. TypeOK' /\ UNCHANGED <<tableVars, closed, id, sclosed, attached>>
    BY <1>0, <1>5 DEF monitorSize, TypeOK, tableVars, sessionVars
  <2> QED
    BY <1>0, <2>1, FrameInv
<1>6. CASE monitorCount
  <2>1. TypeOK' /\ UNCHANGED <<tableVars, closed, id, sclosed, attached>>
    BY <1>0, <1>6 DEF monitorCount, TypeOK, tableVars, sessionVars
  <2> QED
    BY <1>0, <2>1, FrameInv
<1>7. CASE monitorInterrupt
  <2>1. TypeOK' /\ UNCHANGED <<tableVars, closed, id, sclosed, attached>>
    BY <1>0, <1>7 DEF monitorInterrupt, TypeOK, tableVars, sessionVars
  <2> QED
    BY <1>0, <2>1, FrameInv
<1>8. CASE monitorTick
  <2>1. TypeOK'
    BY <1>0, <1>8 DEF monitorTick, TypeOK, sessionVars
  <2>2. CASE ~idle
    <3>1. UNCHANGED <<tableVars, closed, id, sclosed, attached>>
      BY <1>8, <2>2 DEF monitorTick, tableVars, sessionVars
    <3> QED
      BY <1>0, <2>1, <3>1, FrameInv
  <2>3. CASE idle /\ ~closed
    <3>1. used = {}
      BY <2>3 DEF idle
    <3>2. Live = {}
      <4>1. SUFFICES ASSUME NEW s \in Live PROVE FALSE
        OBVIOUS
      <4>2. s \in Session /\ id[s] \in IDs /\ sessions[id[s]] = s
        BY <2>3 DEF Inv, TableAgrees, Live, Opened, opened, TypeOK
      <4> QED
        BY <3>1, <4>2, SessionManagerAssumption DEF used
    <3>3. sclosed' = [s \in Session |-> sclosed[s] \/ s \in Live]
      BY <1>0, <1>8, <3>2 DEF monitorTick, sessionVars, TypeOK
    <3>4. closed' = TRUE /\ UNCHANGED <<count, id, attached>>
      BY <1>8, <2>3 DEF monitorTick, sessionVars
    <3> QED
      BY <2>1, <2>3, <3>3, <3>4, CloseInv
  <2>4. CASE idle /\ closed
    <3>1. UNCHANGED <<count, closed, id, sclosed, attached>>
      BY <1>0, <1>8, <2>4 DEF monitorTick, sessionVars, TypeOK
    <3>2. Opened' = Opened /\ Live' = Live
      BY <3>1 DEF Opened, opened, Live
    <3>3. Fresh' /\ TableAgrees' /\ ClosedManagerHasNoSession' /\ Counted'
      BY <2>4, <3>1, <3>2 DEF Inv, Fresh, TableAgrees, ClosedManagerHasNoSession, Counted
    <3> QED
      BY <2>1, <3>3 DEF Inv
  <2> QED
    BY <2>2, <2>3, <2>4
<1>9. CASE monitorClose
  <2>1. CASE closed
    <3>1. TypeOK' /\ UNCHANGED <<tableVars, closed, id, sclosed, attached>>
      BY <1>0, <1>9, <2>1 DEF monitorClose, TypeOK, tableVars, sessionVars
    <3> QED
      BY <1>0, <3>1, FrameInv
  <2>2. CASE ~closed
    <3> DEFINE S == {sessions[i] : i \in used}
    <3>1. Live \subseteq S
      <4>1. SUFFICES ASSUME NEW s \in Live PROVE s \in S
        OBVIOUS
      <4>2. s \in Session /\ id[s] \in IDs /\ sessions[id[s]] = s
        BY <2>2 DEF Inv, TableAgrees, Live, Opened, opened, TypeOK
      <4> QED
        BY <4>2, SessionManagerAssumption DEF used
    <3>2. S \cap Live = Live
      BY <3>1
    <3>3. /\ closed' = TRUE /\ UNCHANGED <<count, id, attached, done, checkSize, checkCount>>
          /\ sclosed' = [s \in Session |-> sclosed[s] \/ s \in Live]
          /\ released' = [s \in Session |-> released[s] \/ (s \in Live /\ attached[s])]
          /\ sessions' = [i \in IDs |-> NoSession] /\ mpc' = "interrupt"
      BY <1>9, <2>2, <3>2 DEF monitorClose, closeAll
    <3>4. TypeOK'
      BY <1>0, <3>3 DEF TypeOK
    <3> QED
      BY <2>2, <3>3, <3>4, CloseInv
  <2> QED
    BY <2>1, <2>2
<1>10. CASE monitorCancel
  <2>1. TypeOK' /\ UNCHANGED <<tableVars, closed, id, sclosed, attached>>
    BY <1>0, <1>10 DEF monitorCancel, TypeOK, tableVars, sessionVars
  <2> QED
    BY <1>0, <2>1, FrameInv
<1>11. CASE UNCHANGED vars
  <2>1. TypeOK' /\ UNCHANGED <<tableVars, closed, id, sclosed, attached>>
    BY <1>0, <1>11 DEF vars, TypeOK, tableVars, sessionVars, monitorVars
  <2> QED
    BY <1>0, <2>1, FrameInv
<1> QED
  BY <1>1, <1>2, <1>3, <1>4, <1>5, <1>6, <1>7, <1>8, <1>9, <1>10, <1>11 DEF Next, monitor

(* The map and the sessions agree, and a closed manager has closed every      *)
(* session, for every run of Dispatch, Session.Close and monitor.             *)
THEOREM SessionsTable ==
    ASSUME MaxConnection \in 1..(IDSpace - 1)
    PROVE  Spec => [](TableAgrees /\ ClosedManagerHasNoSession)
<1>1. Init => Inv /\ Counted
  BY InitInv
<1>2. (Inv /\ Counted) /\ [Next]_vars => (Inv /\ Counted)'
  BY NextInv
<1>3. Inv /\ Counted => TableAgrees /\ ClosedManagerHasNoSession
  BY DEF Inv
<1> QED
  BY <1>1, <1>2, <1>3, PTL DEF Spec

(* The limits of ClientStrategy hold: Allocate tests them under the lock, and  *)
(* what it tests is the true number of sessions.                               *)
THEOREM SessionsLimits ==
    ASSUME MaxConnection \in 1..(IDSpace - 1)
    PROVE  Spec => []WithinStrategy
<1>1. Init => Inv /\ Counted
  BY InitInv
<1>2. (Inv /\ Counted) /\ [Next]_vars => (Inv /\ Counted)'
  BY NextInv
<1>3. Inv /\ Counted => WithinStrategy
  BY DEF Inv, Counted, Fresh, WithinStrategy
<1> QED
  BY <1>1, <1>2, <1>3, PTL DEF Spec
=============================================================================
