--------------------------- MODULE UdpDispatcher ---------------------------
(***************************************************************************)
(* transport/internet/udp/dispatcher.go: UDP packets of one client go into  *)
(* one routed link, which is replaced after it has ended; the responses go  *)
(* to a callback, here the packet cache of dispatcherConn.                  *)
(*                                                                         *)
(* An entry (connEntry) ends through its activity timer: SetTimeout(0), or  *)
(* a minute without a response.  Module ActivityTimer shows that of all who *)
(* finish a timer one calls terminate; here that is the test of finished.   *)
(* terminate runs outside every lock, so the others can see an entry that   *)
(* is finished and not closed yet.                                          *)
(***************************************************************************)
EXTENDS Naturals

CONSTANTS
    Callers,        \* goroutines that call Dispatch
    MaxEntries,     \* bound: links established
    MaxResponses,   \* bound: responses per link
    CacheSize       \* capacity of dispatcherConn.cache

Entries == 1..MaxEntries

VARIABLES
    conn,           \* v.conn, 0 for nil
    vclosed,        \* v.closed
    made,           \* entries made
    finished,       \* per entry: its timer is finished
    calls,          \* per entry: calls of terminate under way
    closed,         \* per entry: closed
    down,           \* per entry: its context is cancelled and its link interrupted
    panicked,       \* terminate was called more than once
    dpc, dconn,     \* per caller: where it is in Dispatch, and its entry
    hpc,            \* per entry: where handleInput is
    responses,      \* per entry: responses read from the link
    cache,          \* packets in dispatcherConn.cache
    cdone           \* dispatcherConn.doneCtx is cancelled

entryVars == <<finished, calls>>
endVars == <<closed, down, panicked>>
callerVars == <<dpc, dconn>>
cacheVars == <<cache, cdone>>
vars == <<conn, vclosed, made, entryVars, endVars, callerVars, hpc, responses, cacheVars>>

Init ==
    /\ conn = 0 /\ vclosed = FALSE /\ made = 0
    /\ finished = [e \in Entries |-> FALSE]
    /\ calls = [e \in Entries |-> 0]
    /\ closed = [e \in Entries |-> FALSE]
    /\ down = [e \in Entries |-> FALSE]
    /\ panicked = FALSE
    /\ dpc = [d \in Callers |-> "idle"] /\ dconn = [d \in Callers |-> 0]
    /\ hpc = [e \in Entries |-> "none"]
    /\ responses = [e \in Entries |-> 0]
    /\ cache = 0 /\ cdone = FALSE

(* Mutant of SetTimeout0: ActivityTimer.finish does not test finished. *)
SetTimeout0_NoTest(e) ==
    /\ finished' = [finished EXCEPT ![e] = TRUE]
    /\ calls' = [calls EXCEPT ![e] = @ + 1]

(* connEntry.Close: c.timer.SetTimeout(0). *)
SetTimeout0(e) ==
    /\ finished' = [finished EXCEPT ![e] = TRUE]
    /\ calls' = [calls EXCEPT ![e] = IF finished[e] THEN @ ELSE @ + 1]

(* terminate: the flag first, then the context and the link. *)
terminate(e) ==
    /\ calls[e] > 0 /\ ~panicked
    /\ IF closed[e]
         THEN panicked' = TRUE /\ UNCHANGED closed
         ELSE closed' = [closed EXCEPT ![e] = TRUE] /\ UNCHANGED panicked
    /\ calls' = [calls EXCEPT ![e] = @ - 1]
    /\ UNCHANGED <<conn, vclosed, made, finished, down, callerVars, hpc, responses, cacheVars>>

bringDown(e) ==
    /\ closed[e] /\ ~down[e] /\ ~panicked
    /\ down' = [down EXCEPT ![e] = TRUE]
    /\ UNCHANGED <<conn, vclosed, made, entryVars, closed, panicked, callerVars, hpc,
                   responses, cacheVars>>

(* A minute without a response. *)
inactivity(e) ==
    /\ e <= made /\ ~finished[e] /\ ~panicked
    /\ SetTimeout0(e)
    /\ UNCHANGED <<conn, vclosed, made, endVars, callerVars, hpc, responses, cacheVars>>

(* Mutant of RemoveRay: the entry is forgotten, not closed. *)
RemoveRay_NoClose ==
    /\ ~panicked /\ vclosed' = TRUE
    /\ conn' = 0
    /\ UNCHANGED <<made, entryVars, endVars, callerVars, hpc, responses, cacheVars>>

(* RemoveRay: under the lock. *)
RemoveRay ==
    /\ ~panicked /\ vclosed' = TRUE
    /\ conn' = 0
    /\ IF conn # 0 THEN SetTimeout0(conn) ELSE UNCHANGED entryVars
    /\ UNCHANGED <<made, endVars, callerVars, hpc, responses, cacheVars>>

(* getInboundRay, under the lock, in its four outcomes. *)
getClosed(d) ==
    /\ vclosed
    /\ UNCHANGED <<conn, made, hpc, callerVars>>

getCurrent(d) ==
    /\ ~vclosed /\ conn # 0 /\ ~closed[conn]
    /\ dpc' = [dpc EXCEPT ![d] = "write"] /\ dconn' = [dconn EXCEPT ![d] = conn]
    /\ UNCHANGED <<conn, made, hpc>>

(* There is no entry, or it has ended. *)
vacant == ~vclosed /\ (IF conn = 0 THEN TRUE ELSE closed[conn])

getNew(d) ==
    /\ vacant /\ made < MaxEntries
    /\ made' = made + 1 /\ conn' = made + 1
    /\ hpc' = [hpc EXCEPT ![made + 1] = "loop"]
    /\ dpc' = [dpc EXCEPT ![d] = "write"] /\ dconn' = [dconn EXCEPT ![d] = made + 1]

(* The routing dispatcher refuses: the old entry is forgotten all the same. *)
getRefused(d) ==
    /\ vacant /\ conn' = 0
    /\ UNCHANGED <<made, hpc, callerVars>>

getInboundRay(d) ==
    /\ dpc[d] = "idle" /\ ~panicked
    /\ getClosed(d) \/ getCurrent(d) \/ getNew(d) \/ getRefused(d)
    /\ UNCHANGED <<vclosed, entryVars, endVars, responses, cacheVars>>

(* WriteMultiBuffer to the link, and conn.Close() when it fails.  The link  *)
(* fails when it is down, and may fail from its far end.                    *)
Dispatch(d) ==
    /\ dpc[d] = "write" /\ ~panicked
    /\ \/ ~down[dconn[d]] /\ UNCHANGED entryVars
       \/ SetTimeout0(dconn[d])
    /\ dpc' = [dpc EXCEPT ![d] = "idle"] /\ dconn' = [dconn EXCEPT ![d] = 0]
    /\ UNCHANGED <<conn, vclosed, made, endVars, hpc, responses, cacheVars>>

Goto(e, from, to) == hpc[e] = from /\ hpc' = [hpc EXCEPT ![e] = to] /\ ~panicked

(* handleInput: the test of ctx. *)
inputLoop(e) ==
    /\ Goto(e, "loop", IF down[e] THEN "exit" ELSE "read")
    /\ UNCHANGED <<conn, vclosed, made, entryVars, endVars, callerVars, responses, cacheVars>>

(* ReadMultiBuffer returns a response, or an error. *)
inputRead(e) ==
    /\ \/ /\ ~down[e] /\ responses[e] < MaxResponses
          /\ Goto(e, "read", "callback")
          /\ responses' = [responses EXCEPT ![e] = @ + 1]
       \/ Goto(e, "read", "exit") /\ UNCHANGED responses
    /\ UNCHANGED <<conn, vclosed, made, entryVars, endVars, callerVars, cacheVars>>

(* Mutant of callback: the select has no default. *)
callback_Blocks(e) ==
    /\ Goto(e, "callback", "loop")
    /\ \/ cdone /\ UNCHANGED cache
       \/ cache < CacheSize /\ cache' = cache + 1
    /\ UNCHANGED <<conn, vclosed, made, entryVars, endVars, callerVars, responses, cdone>>

(* dispatcherConn.callback: the ready cases of the select, or its default. *)
callback(e) ==
    /\ Goto(e, "callback", "loop")
    /\ \/ cdone /\ UNCHANGED cache
       \/ cache < CacheSize /\ cache' = cache + 1
       \/ ~cdone /\ cache = CacheSize /\ UNCHANGED cache
    /\ UNCHANGED <<conn, vclosed, made, entryVars, endVars, callerVars, responses, cdone>>

(* The deferred conn.Close() and callClose(), which is dispatcherConn.Close. *)
inputExit(e) ==
    /\ Goto(e, "exit", "over")
    /\ SetTimeout0(e)
    /\ cdone' = TRUE
    /\ UNCHANGED <<conn, vclosed, made, endVars, callerVars, responses, cache>>

(* ReadFrom takes a packet; closed and drained, it reports the end of file. *)
ReadFrom ==
    /\ ~panicked
    /\ cache > 0 /\ cache' = cache - 1
    /\ UNCHANGED <<conn, vclosed, made, entryVars, endVars, callerVars, hpc, responses, cdone>>

(* dispatcherConn.Close by its user. *)
Close ==
    /\ ~panicked /\ cdone' = TRUE
    /\ UNCHANGED <<conn, vclosed, made, entryVars, endVars, callerVars, hpc, responses, cache>>

Next ==
    \/ \E e \in Entries :
          \/ terminate(e) \/ bringDown(e) \/ inactivity(e)
          \/ inputLoop(e) \/ inputRead(e) \/ callback(e) \/ inputExit(e)
    \/ \E d \in Callers : getInboundRay(d) \/ Dispatch(d)
    \/ RemoveRay
    \/ ReadFrom
    \/ Close

Spec == Init /\ [][Next]_vars

(* terminate runs to its end, and so does handleInput; only the interrupt   *)
(* of the link makes a pending read return.                                 *)
FairSpec ==
    /\ Spec
    /\ \A e \in Entries :
          /\ WF_vars(terminate(e) \/ bringDown(e))
          /\ WF_vars(\/ inputLoop(e) \/ callback(e) \/ inputExit(e)
                     \/ down[e] /\ inputRead(e))
-----------------------------------------------------------------------------
(* terminate does not reach its panic, though the timer, the writers, the   *)
(* reader and RemoveRay all end an entry without a common lock.             *)
TerminateOnce == ~panicked

(* An entry that has not ended is the current one of an open dispatcher, so *)
(* nothing is left running behind a replacement or after RemoveRay.         *)
NoOrphanEntry ==
    \A e \in Entries : e <= made /\ ~finished[e] => conn = e /\ ~vclosed

(* Every link that ends is brought down, its reader goroutine ends and the  *)
(* entry can be replaced.                                                   *)
EntryEnds ==
    \A e \in Entries :
        (finished[e] \/ hpc[e] = "exit") ~> (closed[e] /\ down[e] /\ hpc[e] = "over")
=============================================================================
