-------------------------------- MODULE Xudp --------------------------------
(***************************************************************************)
(* XUDP in common/mux (server.go, session.go): a UDP link that outlives the  *)
(* Mux connection it came through.  A client that lost its connection sends  *)
(* a New frame with the same Global ID through another one, and the server   *)
(* detaches the link from the old session and attaches it to the new.        *)
(*                                                                         *)
(* The module follows one Global ID.  Each attempt is a New frame with it,   *)
(* on a server worker of its own; the session it makes has the same name.    *)
(* XUDPManager.Lock covers lookup, the status change of Close and the expiry *)
(* pass; Session.Close runs under the lock of the session's own manager.     *)
(*                                                                         *)
(* Once the status is Active another attempt may take the link over, and the *)
(* code goes on to read x.Mux: a worker may then list, close or copy the     *)
(* session of another worker.  Its manager closes such a session under its   *)
(* own lock, which is not the one that other closers of the session hold.    *)
(***************************************************************************)
EXTENDS Naturals, FiniteSetsExt

CONSTANTS
    Bounds          \* bounds of a behaviour: attempts, links (and XUDP entries), packets
                    \* per link, and whether links end by themselves

Attempts == 1..Max({b.attempts : b \in Bounds})     \* in the order of their lookups
NoAttempt == 0
Links == 1..Max({b.links : b \in Bounds})

VARIABLES
    bound,          \* the bounds of this behaviour
    entry,          \* the XUDP in XUDPManager.Map, 0 for none
    entries,        \* XUDP objects made
    status, mux,    \* per XUDP: Status, and Mux
    links,          \* links dispatched
    cut,            \* per link: XUDP.Interrupt was called
    broken,         \* per link: its output cannot be written, its input has ended
    packets, sent,  \* per link: packets in the input, and sent to it so far
    errChan,        \* per link: the input holds the error of ReturnAnError
    apc, ax, alink, \* per attempt: where handleStatusNew is, its XUDP and link
    target,         \* per attempt: the session that it last read from x.Mux after activate
    sclosed,        \* per session: Session.closed
    cpc, closing,   \* per worker: where the Close under its manager's lock is, and of which session
    listed,         \* per worker: the session that Add put into its manager
    wclosed,        \* per worker: its manager is closed
    hpc             \* per worker: where handle is

mapVars == <<entry, entries, status, mux>>
linkVars == <<links, cut, broken>>
inputVars == <<packets, sent, errChan>>
attemptVars == <<apc, ax, alink, target>>
closeVars == <<sclosed, cpc, closing>>
vars == <<bound, mapVars, linkVars, inputVars, attemptVars, closeVars, listed, wclosed, hpc>>

perLink(v) == [l \in Links |-> v]
per(v) == [a \in Attempts |-> v]

Init ==
    /\ bound \in Bounds
    /\ entry = 0 /\ entries = 0
    /\ status = perLink("none") /\ mux = perLink(NoAttempt)
    /\ links = 0 /\ cut = perLink(FALSE) /\ broken = perLink(FALSE)
    /\ packets = perLink(0) /\ sent = perLink(0) /\ errChan = perLink(FALSE)
    /\ apc = per("start") /\ ax = per(0) /\ alink = per(0) /\ target = per(NoAttempt)
    /\ sclosed = per(FALSE) /\ cpc = per("free") /\ closing = per(NoAttempt)
    /\ listed = per(NoAttempt) /\ wclosed = per(FALSE) /\ hpc = per("none")

goto(a, l) == apc' = [apc EXCEPT ![a] = l]

starts(a) == apc[a] = "start" /\ \A b \in Attempts : b < a => apc[b] # "start"

-----------------------------------------------------------------------------
(* handleStatusNew: the lookup under XUDPManager.Lock. *)
lookupNew(a) ==
    /\ starts(a) /\ entry = 0 /\ entries < bound.links
    /\ entries' = entries + 1 /\ entry' = entries'
    /\ status' = [status EXCEPT ![entry'] = "Initializing"]
    /\ ax' = [ax EXCEPT ![a] = entry']
    /\ goto(a, "dispatch")
    /\ UNCHANGED <<mux, linkVars, inputVars, alink, target, closeVars, listed, wclosed, hpc>>

(* "nearly impossible": another attempt is at work; this one is let go. *)
lookupConflict(a) ==
    /\ starts(a) /\ entry # 0 /\ status[entry] = "Initializing"
    /\ goto(a, "conflict")
    /\ UNCHANGED <<mapVars, linkVars, inputVars, ax, alink, target, closeVars, listed, wclosed, hpc>>

lookupHit(a) ==
    /\ starts(a) /\ entry # 0 /\ status[entry] # "Initializing"
    /\ status' = [status EXCEPT ![entry] = "Initializing"]
    /\ ax' = [ax EXCEPT ![a] = entry]
    /\ goto(a, "detach")
    /\ UNCHANGED <<entry, entries, mux, linkVars, inputVars, alink, target, closeVars, listed, wclosed, hpc>>

(* A Close that begins under the lock of manager m. *)
begins(m, s, step) ==
    /\ cpc' = [cpc EXCEPT ![m] = step]
    /\ closing' = [closing EXCEPT ![m] = s]

(* Session.Close(false) of s by whoever calls it first; the others wait for    *)
(* the lock of its manager and then find it closed.                            *)
closes(s) ==
    /\ cpc[s] = "free" /\ ~sclosed[s]
    /\ sclosed' = [sclosed EXCEPT ![s] = TRUE]
    /\ begins(s, s, "put")

isClosed(s) == cpc[s] = "free" /\ sclosed[s]


(* x.Mux.Close(false): detach from the previous Mux connection. *)
detach(a) ==
    /\ apc[a] = "detach"
    /\ LET s == mux[ax[a]]
       IN  \/ closes(s) /\ UNCHANGED apc
           \/ isClosed(s) /\ goto(a, "write") /\ UNCHANGED closeVars
    /\ UNCHANGED <<mapVars, linkVars, inputVars, ax, alink, target, listed, wclosed, hpc>>

(* The packet of the frame goes into the old link; when that fails, the link   *)
(* is interrupted and a new one is dispatched.                                 *)
reuse(a) ==
    /\ apc[a] = "write"
    /\ LET l == alink[mux[ax[a]]]
       IN  IF broken[l] \/ cut[l]
           THEN cut' = [cut EXCEPT ![l] = TRUE] /\ goto(a, "dispatch") /\ UNCHANGED alink
           ELSE alink' = [alink EXCEPT ![a] = l] /\ goto(a, "attach") /\ UNCHANGED cut
    /\ UNCHANGED <<mapVars, links, broken, inputVars, ax, target, closeVars, listed, wclosed, hpc>>

(* The link that x.Mux then carries to attach, in a session without a manager, *)
(* is the attempt's own here: nobody sees it in x.Mux before attach.           *)
dispatch(a) ==
    /\ apc[a] = "dispatch" /\ links < bound.links
    /\ links' = links + 1
    /\ alink' = [alink EXCEPT ![a] = links']
    /\ goto(a, "attach")
    /\ UNCHANGED <<mapVars, cut, broken, inputVars, ax, target, closeVars, listed, wclosed, hpc>>

(* Mutant of dispatchFails: the entry is kept. *)
dispatchFails_Keeps(a) ==
    /\ apc[a] = "dispatch"
    /\ goto(a, "failed")
    /\ UNCHANGED <<mapVars, linkVars, inputVars, ax, alink, target, closeVars, listed, wclosed, hpc>>

(* The dispatcher refuses: the entry is deleted, the Mux connection ends. *)
dispatchFails(a) ==
    /\ apc[a] = "dispatch"
    /\ entry' = 0
    /\ goto(a, "failed")
    /\ UNCHANGED <<entries, status, mux, linkVars, inputVars, ax, alink, target, closeVars, listed, wclosed, hpc>>

(* x.Mux and then x.Status are set, without the lock. *)
attach(a) ==
    /\ apc[a] = "attach" /\ goto(a, "activate")
    /\ mux' = [mux EXCEPT ![ax[a]] = a]
    /\ UNCHANGED <<entry, entries, status, linkVars, inputVars, ax, alink, target, closeVars, listed, wclosed, hpc>>

activate(a) ==
    /\ apc[a] = "activate" /\ goto(a, "add")
    /\ status' = [status EXCEPT ![ax[a]] = "Active"]
    /\ UNCHANGED <<entry, entries, mux, linkVars, inputVars, ax, alink, target, closeVars, listed, wclosed, hpc>>

(* The session to add is read from x.Mux, *)
readMux(a, from, next) ==
    /\ apc[a] = from /\ goto(a, next)
    /\ target' = [target EXCEPT ![a] = mux[ax[a]]]
    /\ UNCHANGED <<mapVars, linkVars, inputVars, ax, alink, closeVars, listed, wclosed>>

(* and added.  A closed manager refuses, and x.Mux is closed, as it is then.   *)
add(a) ==
    \/ readMux(a, "add", "Add") /\ UNCHANGED hpc
    \/ /\ apc[a] = "Add" /\ ~wclosed[a] /\ goto(a, "go")
       /\ listed' = [listed EXCEPT ![a] = target[a]]
       /\ UNCHANGED <<mapVars, linkVars, inputVars, ax, alink, target, closeVars, wclosed, hpc>>
    \/ wclosed[a] /\ readMux(a, "Add", "refused") /\ UNCHANGED hpc
    \/ /\ apc[a] = "refused"
       /\ \/ closes(target[a]) /\ UNCHANGED apc
          \/ isClosed(target[a]) /\ goto(a, "failed") /\ UNCHANGED closeVars
       /\ UNCHANGED <<mapVars, linkVars, inputVars, ax, alink, target, listed, wclosed, hpc>>

(* handle starts, with x.Mux as it is now. *)
goHandle(a) == readMux(a, "go", "served") /\ hpc' = [hpc EXCEPT ![a] = "read"]

-----------------------------------------------------------------------------
(* Session.Close, step by step, under the lock of m.  Two managers may both    *)
(* have found the session open.                                                *)
closeMark(m) ==
    /\ cpc[m] = "mark"
    /\ cpc' = [cpc EXCEPT ![m] = "put"]
    /\ sclosed' = [sclosed EXCEPT ![closing[m]] = TRUE]
    /\ UNCHANGED <<mapVars, linkVars, inputVars, attemptVars, closing, listed, wclosed, hpc>>

(* ReturnAnError: a handle that waits in the pipe's select gets the error      *)
(* directly, otherwise it stays in the channel.                                *)
closePut(m) ==
    LET l == alink[closing[m]]
        waiting == {h \in Attempts : hpc[h] = "wait" /\ alink[target[h]] = l}
    IN  /\ cpc[m] = "put" /\ ~errChan[l]
        /\ cpc' = [cpc EXCEPT ![m] = "recover"]
        /\ IF waiting = {}
           THEN errChan' = [errChan EXCEPT ![l] = TRUE] /\ UNCHANGED hpc
           ELSE /\ \E h \in waiting : hpc' = [hpc EXCEPT ![h] = "end"]
                /\ UNCHANGED errChan
        /\ UNCHANGED <<mapVars, linkVars, packets, sent, attemptVars, sclosed, closing, listed, wclosed>>

closeRecover(m) ==
    /\ cpc[m] = "recover"
    /\ cpc' = [cpc EXCEPT ![m] = "status"]
    /\ errChan' = [errChan EXCEPT ![alink[closing[m]]] = FALSE]
    /\ UNCHANGED <<mapVars, linkVars, packets, sent, attemptVars, sclosed, closing, listed, wclosed, hpc>>

closeStatus(m) ==
    /\ cpc[m] = "status"
    /\ begins(m, NoAttempt, "free")
    /\ status' = [status EXCEPT ![ax[closing[m]]] = IF @ = "Active" THEN "Expiring" ELSE @]
    /\ UNCHANGED <<entry, entries, mux, linkVars, inputVars, attemptVars, sclosed, listed, wclosed, hpc>>

closeStep(m) == closeMark(m) \/ closePut(m) \/ closeRecover(m) \/ closeStatus(m)

(* An End frame with the ID of the listed session; the frame loop has returned *)
(* from handleStatusNew.                                                       *)
endFrame(a) ==
    /\ apc[a] = "served" /\ ~wclosed[a] /\ closes(listed[a])
    /\ UNCHANGED <<mapVars, linkVars, inputVars, attemptVars, listed, wclosed, hpc>>

(* The end of the frame loop, SessionManager.Close, closes it too: it has the  *)
(* lock of its own manager only.  Inside handleStatusNew the manager is closed *)
(* by the monitor alone, when it has no session (nothing there asks before     *)
(* Add whether it is closed).                                                  *)
managerClose(a) ==
    /\ ~wclosed[a] /\ cpc[a] = "free"
    /\ apc[a] # "start" /\ (apc[a] = "served" \/ listed[a] = NoAttempt)
    /\ wclosed' = [wclosed EXCEPT ![a] = TRUE]
    /\ LET s == listed[a] IN
       CASE s = NoAttempt \/ sclosed[s] -> UNCHANGED closeVars
         [] s = a /\ ~sclosed[s] -> closes(s)
         [] OTHER -> begins(a, s, "mark") /\ UNCHANGED sclosed
    /\ UNCHANGED <<mapVars, linkVars, inputVars, attemptVars, listed, hpc>>

-----------------------------------------------------------------------------
(* handle: buf.Copy from the input of the session. *)
handleRead(a) ==
    /\ hpc[a] = "read"
    /\ LET l == alink[target[a]]
       IN  \/ /\ packets[l] > 0 /\ ~cut[l]
              /\ packets' = [packets EXCEPT ![l] = @ - 1]
              /\ hpc' = [hpc EXCEPT ![a] = "write"]
              /\ UNCHANGED errChan
           \/ /\ cut[l] \/ (packets[l] = 0 /\ broken[l])
              /\ hpc' = [hpc EXCEPT ![a] = "end"]
              /\ UNCHANGED <<packets, errChan>>
           \/ /\ packets[l] = 0 /\ errChan[l]
              /\ errChan' = [errChan EXCEPT ![l] = FALSE]
              /\ hpc' = [hpc EXCEPT ![a] = "end"]
              /\ UNCHANGED packets
           \/ /\ packets[l] = 0 /\ ~cut[l] /\ ~broken[l] /\ ~errChan[l]
              /\ hpc' = [hpc EXCEPT ![a] = "wait"]
              /\ UNCHANGED <<packets, errChan>>
    /\ UNCHANGED <<mapVars, linkVars, sent, attemptVars, closeVars, listed, wclosed>>

(* A packet, or the end of the link, wakes it. *)
handleWoken(a) ==
    /\ hpc[a] = "wait"
    /\ LET l == alink[target[a]] IN packets[l] > 0 \/ cut[l] \/ broken[l]
    /\ hpc' = [hpc EXCEPT ![a] = "read"]
    /\ UNCHANGED <<mapVars, linkVars, inputVars, attemptVars, closeVars, listed, wclosed>>

(* The packet goes into the Mux connection, which may be gone. *)
handleWrite(a) ==
    /\ hpc[a] = "write"
    /\ \/ hpc' = [hpc EXCEPT ![a] = "read"]
       \/ wclosed[a] /\ hpc' = [hpc EXCEPT ![a] = "end"]
    /\ UNCHANGED <<mapVars, linkVars, inputVars, attemptVars, closeVars, listed, wclosed>>

(* The End frame, and Session.Close. *)
handleEnd(a) ==
    /\ hpc[a] = "end"
    /\ \/ closes(target[a]) /\ UNCHANGED hpc
       \/ isClosed(target[a]) /\ hpc' = [hpc EXCEPT ![a] = "over"] /\ UNCHANGED closeVars
    /\ UNCHANGED <<mapVars, linkVars, inputVars, attemptVars, listed, wclosed>>

-----------------------------------------------------------------------------
(* Mutant of expire: the pass looks at the time only. *)
expire_AnyStatus ==
    /\ entry # 0 /\ mux[entry] # NoAttempt
    /\ cut' = [cut EXCEPT ![alink[mux[entry]]] = TRUE]
    /\ entry' = 0
    /\ UNCHANGED <<entries, status, mux, links, broken, inputVars, attemptVars, closeVars, listed, wclosed, hpc>>

(* The pass of the expiry goroutine that finds the entry expired. *)
expire ==
    /\ entry # 0 /\ status[entry] = "Expiring"
    /\ cut' = [cut EXCEPT ![alink[mux[entry]]] = TRUE]
    /\ entry' = 0
    /\ UNCHANGED <<entries, status, mux, links, broken, inputVars, attemptVars, closeVars, listed, wclosed, hpc>>

(* The destination sends a packet, or its side of the link ends. *)
packetArrives(l) ==
    /\ l <= links /\ sent[l] < bound.packets /\ ~broken[l] /\ ~cut[l]
    /\ packets' = [packets EXCEPT ![l] = @ + 1]
    /\ sent' = [sent EXCEPT ![l] = @ + 1]
    /\ UNCHANGED <<mapVars, linkVars, errChan, attemptVars, closeVars, listed, wclosed, hpc>>

linkEnds(l) ==
    /\ bound.ends /\ l <= links /\ ~broken[l]
    /\ broken' = [broken EXCEPT ![l] = TRUE]
    /\ UNCHANGED <<mapVars, links, cut, inputVars, attemptVars, closeVars, listed, wclosed, hpc>>

-----------------------------------------------------------------------------
handleStatusNew(a) ==
    \/ lookupNew(a) \/ lookupConflict(a) \/ lookupHit(a)
    \/ detach(a) \/ reuse(a) \/ dispatch(a) \/ dispatchFails(a)
    \/ attach(a) \/ activate(a) \/ add(a) \/ goHandle(a)

handle(a) == handleRead(a) \/ handleWoken(a) \/ handleWrite(a) \/ handleEnd(a)

Next ==
    /\ \/ \E a \in 1..bound.attempts :
              \/ handleStatusNew(a) \/ closeStep(a) \/ handle(a)
              \/ endFrame(a) \/ managerClose(a)
       \/ expire
       \/ \E l \in Links : packetArrives(l) \/ linkEnds(l)
    /\ UNCHANGED bound

Spec == Init /\ [][Next]_vars

(* handleStatusNew and Close run on; nothing need arrive, end or expire. *)
FairSpec ==
    /\ Spec
    /\ \A a \in Attempts :
           /\ WF_vars(apc[a] # "start" /\ handleStatusNew(a) /\ UNCHANGED bound)
           /\ WF_vars(closeStep(a) /\ UNCHANGED bound)

-----------------------------------------------------------------------------
(* A session that has its link and was not closed. *)
open(a) == alink[a] # 0 /\ ~sclosed[a]

(* Worker a was overtaken between server.go:257 and 258, and lists the session *)
(* that overtook its own.                                                      *)
overtaken(a) == listed[a] \notin {a, NoAttempt}

(* The expiry goroutine, and an attempt that gives a link up, never interrupt  *)
(* a link that a session is using and that has not ended by itself.  Not so    *)
(* once an overtaken worker ended: its manager closes the session of another   *)
(* under the wrong lock, and may mark the entry Expiring after the next        *)
(* session has it.                                                             *)
InUseIsNotCut ==
    \A a \in Attempts :
        open(a) /\ cut[alink[a]] =>
            broken[alink[a]] \/ \E b \in Attempts : overtaken(b) /\ wclosed[b]


(* An entry does not stay reserved: Initializing is left again, so that a      *)
(* later attempt of the client is served.                                      *)
NotStuck ==
    \A x \in Links : status[x] = "Initializing" ~> status[x] # "Initializing" \/ entry # x

=============================================================================
