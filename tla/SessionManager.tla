--------------------------- MODULE SessionManager ---------------------------
(***************************************************************************)
(* common/mux/session.go: the sessions of one end of a Mux connection, with *)
(* the monitor goroutine that ends it (ClientWorker.monitor and             *)
(* ServerWorker.monitor are the same code).                                 *)
(*                                                                         *)
(* Every operator below is what one critical section of the manager's lock  *)
(* does.  A session owns a link once Dispatch, or handleStatusNew, has set  *)
(* its input and output; closing the session interrupts the one and closes  *)
(* the other.  The client sets them after Allocate has published the        *)
(* session, and without the lock.                                           *)
(***************************************************************************)
EXTENDS Naturals, FiniteSets

CONSTANTS
    Session,            \* the sessions that may be opened
    NoSession,          \* an entry that is absent from the map
    IDSpace,            \* session IDs are 0..IDSpace-1 (2^16: ID and count are uint16)
    MaxConcurrency,     \* ClientStrategy; 0 is no limit
    MaxConnection

ASSUME SessionManagerAssumption ==
    /\ NoSession \notin Session
    /\ IsFiniteSet(Session)
    /\ IDSpace \in Nat \ {0}
    /\ MaxConcurrency \in Nat
    /\ MaxConnection \in Nat

IDs == 0..(IDSpace - 1)

VARIABLES
    sessions,       \* the map, NoSession where there is no entry
    count,
    closed,         \* m.closed
    id, sclosed,    \* per session: ID (IDSpace before it has one), and s.closed
    attached,       \* per session: input and output are set
    released,       \* per session: Close has interrupted input and closed output
    done,           \* the worker's doneCtx is cancelled
    mpc,            \* where monitor is
    checkSize, checkCount

tableVars == <<sessions, count>>
sessionVars == <<id, sclosed, attached, released>>
monitorVars == <<done, mpc, checkSize, checkCount>>
vars == <<tableVars, closed, sessionVars, monitorVars>>

Init ==
    /\ sessions = [i \in IDs |-> NoSession]
    /\ count = 0 /\ closed = FALSE
    /\ id = [s \in Session |-> IDSpace]
    /\ sclosed = [s \in Session |-> FALSE]
    /\ attached = [s \in Session |-> FALSE]
    /\ released = [s \in Session |-> FALSE]
    /\ done = FALSE /\ mpc = "size" /\ checkSize = 0 /\ checkCount = 0

opened(s) == id[s] # IDSpace

Opened == {s \in Session : opened(s)}
Live == {s \in Opened : ~sclosed[s]}

(* The IDs in use; their number is len(m.sessions). *)
used == {i \in IDs : sessions[i] # NoSession}

(* Mutant of atLimit: Allocate trusts the test that IsFull made before. *)
atLimit_Never == FALSE

(* The limits, as Allocate tests them under the lock. *)
atLimit ==
    \/ MaxConcurrency > 0 /\ Cardinality(used) >= MaxConcurrency
    \/ LET maxConnection == MaxConnection % IDSpace
       IN maxConnection > 0 /\ count >= maxConnection

(* Mutant of Allocate: the ID is one that was used before. *)
Allocate_NoCount(s) ==
    /\ ~opened(s) /\ ~closed /\ ~atLimit
    /\ count' = count
    /\ id' = [id EXCEPT ![s] = count']
    /\ sessions' = [sessions EXCEPT ![count'] = s]
    /\ UNCHANGED <<closed, sclosed, attached, released, monitorVars>>

Allocate(s) ==
    /\ ~opened(s) /\ ~closed /\ ~atLimit
    /\ count' = (count + 1) % IDSpace
    /\ id' = [id EXCEPT ![s] = count']
    /\ sessions' = [sessions EXCEPT ![count'] = s]
    /\ UNCHANGED <<closed, sclosed, attached, released, monitorVars>>

(* Dispatch after Allocate: s.input and s.output are set. *)
Attach(s) ==
    /\ opened(s) /\ ~attached[s]
    /\ attached' = [attached EXCEPT ![s] = TRUE]
    /\ UNCHANGED <<tableVars, closed, id, sclosed, released, monitorVars>>

(* Mutant of Add: a session that is refused is dropped without Close. *)
Add_Drops(s, i) ==
    /\ ~opened(s)
    /\ id' = [id EXCEPT ![s] = i]
    /\ attached' = [attached EXCEPT ![s] = TRUE]
    /\ IF closed
       THEN UNCHANGED <<tableVars, sclosed, released>>
       ELSE /\ count' = (count + 1) % IDSpace
            /\ sessions' = [sessions EXCEPT ![i] = s]
            /\ UNCHANGED <<sclosed, released>>
    /\ UNCHANGED <<closed, monitorVars>>

(* Add of a session that was made with its link; a closed manager refuses it, *)
(* and handleStatusNew closes it at once.                                     *)
Add(s, i) ==
    /\ ~opened(s)
    /\ id' = [id EXCEPT ![s] = i]
    /\ attached' = [attached EXCEPT ![s] = TRUE]
    /\ IF closed
       THEN /\ sclosed' = [sclosed EXCEPT ![s] = TRUE]
            /\ released' = [released EXCEPT ![s] = TRUE]
            /\ UNCHANGED tableVars
       ELSE /\ count' = (count + 1) % IDSpace
            /\ sessions' = [sessions EXCEPT ![i] = s]
            /\ UNCHANGED <<sclosed, released>>
    /\ UNCHANGED <<closed, monitorVars>>

(* Get: the session of an ID, or NoSession. *)
Get(i) == IF closed THEN NoSession ELSE sessions[i]

(* What closing the open sessions of S does to the sessions themselves. *)
closeAll(S) ==
    /\ sclosed' = [s \in Session |-> sclosed[s] \/ s \in S \cap Live]
    /\ released' = [s \in Session |-> released[s] \/ (s \in S \cap Live /\ attached[s])]
    /\ UNCHANGED <<id, attached>>

(* Mutant of SessionClose: the entry stays in the map. *)
SessionClose_NoRemove(s) ==
    /\ closeAll({s})
    /\ UNCHANGED <<tableVars, closed, monitorVars>>

(* Session.Close, with Remove: the second call does nothing. *)
SessionClose(s) ==
    /\ closeAll({s})
    /\ sessions' = IF sclosed[s] \/ closed THEN sessions
                   ELSE [sessions EXCEPT ![id[s]] = NoSession]
    /\ UNCHANGED <<count, closed, monitorVars>>

(* doneCancel: ClientWorker.Close, or the end of fetchOutput or run. *)
doneCancel ==
    /\ done' = TRUE
    /\ UNCHANGED <<tableVars, closed, sessionVars, mpc, checkSize, checkCount>>

(* monitor reads Size and Count, each under the lock. *)
monitorSize ==
    /\ mpc = "size" /\ mpc' = "count"
    /\ checkSize' = Cardinality(used)
    /\ UNCHANGED <<tableVars, closed, sessionVars, done, checkCount>>

monitorCount ==
    /\ mpc = "count" /\ mpc' = "wait"
    /\ checkCount' = count
    /\ UNCHANGED <<tableVars, closed, sessionVars, done, checkSize>>

(* The test of CloseIfNoSessionAndIdle. *)
idle == closed \/ (used = {} /\ checkSize = 0 /\ checkCount = count)

(* The timer ticks: CloseIfNoSessionAndIdle. *)
monitorTick ==
    /\ mpc = "wait"
    /\ IF idle
       THEN /\ mpc' = "cancel" /\ closed' = TRUE
            /\ sessions' = [i \in IDs |-> NoSession]
       ELSE mpc' = "size" /\ UNCHANGED <<closed, sessions>>
    /\ UNCHANGED <<count, sessionVars, done, checkSize, checkCount>>

(* It closed the manager: doneCancel.  Until then the worker does not look    *)
(* closed, and yet Allocate refuses.                                          *)
monitorCancel ==
    /\ mpc = "cancel" /\ mpc' = "size"
    /\ done' = TRUE
    /\ UNCHANGED <<tableVars, closed, sessionVars, checkSize, checkCount>>

(* doneCtx is cancelled: SessionManager.Close, and then (mpc "interrupt") the *)
(* link of the worker is interrupted.                                         *)
monitorClose ==
    /\ mpc = "wait" /\ done
    /\ mpc' = "interrupt"
    /\ IF closed THEN UNCHANGED <<closed, sessions, sessionVars>>
       ELSE /\ closed' = TRUE
            /\ closeAll({sessions[i] : i \in used})
            /\ sessions' = [i \in IDs |-> NoSession]
    /\ UNCHANGED <<count, done, checkSize, checkCount>>

monitorInterrupt ==
    /\ mpc = "interrupt" /\ mpc' = "over"
    /\ UNCHANGED <<tableVars, closed, sessionVars, done, checkSize, checkCount>>

monitor == monitorSize \/ monitorCount \/ monitorCancel \/ monitorClose

-----------------------------------------------------------------------------
(* The client end on its own: Dispatch allocates and attaches, and then       *)
(* starts fetchInput.  Who closes a session, fetchInput or a frame of the     *)
(* peer, does so after that: the peer has not heard of the session before.    *)
Next ==
    \/ \E s \in Session : Allocate(s) \/ Attach(s) \/ (attached[s] /\ SessionClose(s))
    \/ doneCancel
    \/ monitor
    \/ monitorTick
    \/ monitorInterrupt

Spec == Init /\ [][Next]_vars

-----------------------------------------------------------------------------
TypeOK ==
    /\ sessions \in [IDs -> Session \cup {NoSession}]
    /\ count \in IDs /\ closed \in BOOLEAN
    /\ id \in [Session -> IDs \cup {IDSpace}]
    /\ sclosed \in [Session -> BOOLEAN]
    /\ attached \in [Session -> BOOLEAN]
    /\ released \in [Session -> BOOLEAN]
    /\ done \in BOOLEAN
    /\ mpc \in {"size", "count", "wait", "cancel", "interrupt", "over"}
    /\ checkSize \in Nat /\ checkCount \in IDs

(* The map and the sessions agree as long as the manager is open: an entry    *)
(* is the open session with that ID, and every open session has its entry, so *)
(* that frames find it and SessionManager.Close reaches it.                   *)
TableAgrees ==
    ~closed =>
        /\ \A i \in used : LET s == sessions[i] IN id[s] = i /\ ~sclosed[s]
        /\ \A s \in Live : sessions[id[s]] = s

(* However Dispatch calls interleave between IsFull and Allocate, a worker    *)
(* never carries more sessions at a time, nor more in all, than its           *)
(* ClientStrategy allows.                                                     *)
WithinStrategy ==
    /\ MaxConcurrency > 0 =>
           Cardinality(Live) <= MaxConcurrency
    /\ MaxConnection \in 1..(IDSpace - 1) =>
           Cardinality(Opened) <= MaxConnection

(* Whichever way the manager was closed, by idleness or with sessions open,   *)
(* no session survives it: each one is closed.                                *)
ClosedManagerHasNoSession ==
    closed => Live = {}

=============================================================================
