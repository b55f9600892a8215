-------------------------------- MODULE Mux --------------------------------
(***************************************************************************)
(* A Mux connection (common/mux): a ClientWorker and a ServerWorker, each   *)
(* with a SessionManager, and the two streams of frames between them.       *)
(*                                                                         *)
(* The server's session for a New frame is named after the client's session *)
(* that sent it, so a frame whose origin differs from the session it is     *)
(* given to is data in the wrong connection.  fetchInput (client) and       *)
(* handle (server) copy the link's input into frames; fetchOutput and run   *)
(* read the frames.  Each frame is one write to the worker's link, hence    *)
(* never mixed with another.  A link's payload is a count of items.  A loop *)
(* that writes to a session's output waits until its reader makes room, and *)
(* handles no other frame meanwhile (module Pipe has the waiting).          *)
(***************************************************************************)
EXTENDS Naturals, Sequences

CONSTANTS
    Session, NoSession, IDSpace, MaxConcurrency, MaxConnection,
    QueueCap,       \* frames a direction of the connection holds
    Plans           \* what the environment may do, see plan

Side == {"client", "server"}
peer(side) == IF side = "client" THEN "server" ELSE "client"

VARIABLES
    cSessions, cCount, cClosed, cID, cSclosed, cAttached, cReleased,
    cDone, cMpc, cCheckSize, cCheckCount,
    sSessions, sCount, sClosed, sID, sSclosed, sAttached, sReleased,
    sDone, sMpc, sCheckSize, sCheckCount,
    queue,          \* per side: the frames on their way to it
    plan,           \* bounds of this behaviour: the sessions that it opens, the items that each
                    \* end of a link writes, the ends that may close, those that may stop to
                    \* read, and what may happen besides: "wire" the connection fails, "dispatch"
                    \* is refused, and the sides whose monitor ticks
    wire,           \* the connection is up
    link,           \* per side: the worker's link is not interrupted
    loop,           \* per side: where fetchOutput or run is
    current, target,    \* per side: the frame it handles, and the session it is for
    pc,             \* per side and session: where fetchInput or handle is
    held,           \* per side and session: the item it has read and not written
    followup,       \* per session: the New frame is sent
    written, fetched,   \* per side and session: items in the link's input so far, and read of them
    eof,            \* per side and session: the input is closed by its writer
    broke,          \* per side and session: the reader of the link's output is gone
    received        \* per side and session: items written to the output: <<origin, item>>

cVars == <<cSessions, cCount, cClosed, cID, cSclosed, cAttached, cReleased,
           cDone, cMpc, cCheckSize, cCheckCount>>
sVars == <<sSessions, sCount, sClosed, sID, sSclosed, sAttached, sReleased,
           sDone, sMpc, sCheckSize, sCheckCount>>
wireVars == <<queue, plan, wire, link>>
loopVars == <<loop, current, target>>
copyVars == <<pc, held, followup, fetched>>
endVars == <<written, eof, broke>>
vars == <<cVars, sVars, wireVars, loopVars, copyVars, endVars, received>>

cli == INSTANCE SessionManager WITH
    sessions <- cSessions, count <- cCount, closed <- cClosed, id <- cID,
    sclosed <- cSclosed, attached <- cAttached, released <- cReleased,
    done <- cDone, mpc <- cMpc, checkSize <- cCheckSize, checkCount <- cCheckCount

srv == INSTANCE SessionManager WITH
    sessions <- sSessions, count <- sCount, closed <- sClosed, id <- sID,
    sclosed <- sSclosed, attached <- sAttached, released <- sReleased,
    done <- sDone, mpc <- sMpc, checkSize <- sCheckSize, checkCount <- sCheckCount

Get(side, i) == IF side = "client" THEN cli!Get(i) ELSE srv!Get(i)
ID(side, s) == IF side = "client" THEN cID[s] ELSE sID[s]
released(side, s) == IF side = "client" THEN cReleased[s] ELSE sReleased[s]
sclosed(side, s) == IF side = "client" THEN cSclosed[s] ELSE sSclosed[s]

SessionClose(side, s) ==
    \/ side = "client" /\ cli!SessionClose(s) /\ UNCHANGED sVars
    \/ side = "server" /\ srv!SessionClose(s) /\ UNCHANGED cVars

doneCancel(side) ==
    \/ side = "client" /\ cli!doneCancel /\ UNCHANGED sVars
    \/ side = "server" /\ srv!doneCancel /\ UNCHANGED cVars

Frame(status, i, origin, item) ==
    [status |-> status, id |-> i, origin |-> origin, item |-> item]

NoFrame == Frame("none", 0, NoSession, 0)

both(x) == [side \in Side |-> x]
each(x) == both([s \in Session |-> x])

Init ==
    /\ cli!Init /\ srv!Init
    /\ plan \in Plans
    /\ queue = both(<<>>) /\ wire = TRUE /\ link = both(TRUE)
    /\ loop = both("read") /\ current = both(NoFrame) /\ target = both(NoSession)
    /\ pc = each("none") /\ held = each(0) /\ followup = [s \in Session |-> FALSE]
    /\ written = each(0) /\ fetched = each(0)
    /\ eof = each(FALSE) /\ broke = each(FALSE)
    /\ received = each(<<>>)

-----------------------------------------------------------------------------
(* A write to the worker's link: it waits for room, fails when the link is    *)
(* interrupted, and is lost when the connection is down.                      *)
room(side) == link[side] /\ wire => Len(queue[peer(side)]) < QueueCap

send(side, frame) ==
    /\ room(side)
    /\ queue' = IF link[side] /\ wire
                THEN [queue EXCEPT ![peer(side)] = Append(@, frame)] ELSE queue
    /\ UNCHANGED <<plan, wire, link>>

(* ClientWorker.Dispatch.  IsFull was false before; by now the worker may be  *)
(* done, which Allocate does not test.                                        *)
Allocate(s) ==
    /\ s \in plan.opens /\ pc["client"][s] = "none"
    /\ cli!Allocate(s)
    /\ pc' = [pc EXCEPT !["client"][s] = "allocated"]
    /\ UNCHANGED <<sVars, wireVars, loopVars, held, followup, fetched, endVars, received>>

Attach(s) ==
    /\ pc["client"][s] = "allocated"
    /\ cli!Attach(s)
    /\ pc' = [pc EXCEPT !["client"][s] = "first"]
    /\ UNCHANGED <<sVars, wireVars, loopVars, held, followup, fetched, endVars, received>>

-----------------------------------------------------------------------------
(* fetchInput and handle: buf.Copy from the session's input. *)
readData(side, s) ==
    /\ pc[side][s] \in {"first", "copy"}
    /\ ~released(side, s) /\ fetched[side][s] < written[side][s]
    /\ fetched' = [fetched EXCEPT ![side][s] = @ + 1]
    /\ held' = [held EXCEPT ![side][s] = fetched'[side][s]]
    /\ pc' = [pc EXCEPT ![side][s] = "write"]
    /\ UNCHANGED <<cVars, sVars, wireVars, loopVars, followup, endVars, received>>

(* writeFirstPayload gives up waiting: a New frame without data. *)
readTimeout(s) ==
    /\ pc["client"][s] = "first"
    /\ ~released("client", s) /\ ~eof["client"][s]
    /\ fetched["client"][s] = written["client"][s]
    /\ pc' = [pc EXCEPT !["client"][s] = "write"]
    /\ UNCHANGED <<cVars, sVars, wireVars, loopVars, held, followup, fetched, endVars, received>>

(* Mutant of readEnds: a closed input ends at once, with data left in it. *)
readEnds_Early(side, s) ==
    /\ pc[side][s] \in {"first", "copy"}
    /\ released(side, s) \/ eof[side][s]
    /\ pc' = [pc EXCEPT ![side][s] = "end"]
    /\ UNCHANGED <<cVars, sVars, wireVars, loopVars, held, followup, fetched, endVars, received>>

(* The input ends or was interrupted. *)
readEnds(side, s) ==
    /\ pc[side][s] \in {"first", "copy"}
    /\ released(side, s) \/ (eof[side][s] /\ fetched[side][s] = written[side][s])
    /\ pc' = [pc EXCEPT ![side][s] = "end"]
    /\ UNCHANGED <<cVars, sVars, wireVars, loopVars, held, followup, fetched, endVars, received>>

(* Writer.WriteMultiBuffer: New before the first payload of the client, Keep after. *)
writeData(side, s) ==
    /\ pc[side][s] = "write"
    /\ send(side, Frame(IF side = "client" /\ ~followup[s] THEN "New" ELSE "Keep",
                        ID(side, s), s, held[side][s]))
    /\ followup' = IF side = "client" THEN [followup EXCEPT ![s] = TRUE] ELSE followup
    /\ held' = [held EXCEPT ![side][s] = 0]
    /\ pc' = [pc EXCEPT ![side][s] = IF link[side] THEN "copy" ELSE "end"]
    /\ UNCHANGED <<cVars, sVars, loopVars, fetched, endVars, received>>

(* Mutant of writeEnd: no End frame. *)
writeEnd_Silent(side, s) ==
    /\ pc[side][s] = "end"
    /\ pc' = [pc EXCEPT ![side][s] = "close"]
    /\ UNCHANGED <<cVars, sVars, wireVars, loopVars, held, followup, fetched, endVars, received>>

(* Writer.Close: an End frame, whatever becomes of it. *)
writeEnd(side, s) ==
    /\ pc[side][s] = "end"
    /\ send(side, Frame("End", ID(side, s), s, 0))
    /\ pc' = [pc EXCEPT ![side][s] = "close"]
    /\ UNCHANGED <<cVars, sVars, loopVars, held, followup, fetched, endVars, received>>

copyCloses(side, s) ==
    /\ pc[side][s] = "close"
    /\ SessionClose(side, s)
    /\ pc' = [pc EXCEPT ![side][s] = "over"]
    /\ UNCHANGED <<wireVars, loopVars, held, followup, fetched, endVars, received>>

-----------------------------------------------------------------------------
(* fetchOutput and run: one frame after the other. *)
atFrame(side, status) ==
    loop[side] = "read" /\ queue[side] # <<>> /\ Head(queue[side]).status = status

nextFrame(side) ==
    queue' = [queue EXCEPT ![side] = Tail(@)] /\ UNCHANGED <<plan, wire, link>>

(* The handler goes on at this point with the frame, for s. *)
handles(side, label, frame, s) ==
    /\ loop' = [loop EXCEPT ![side] = label]
    /\ current' = [current EXCEPT ![side] = frame]
    /\ target' = [target EXCEPT ![side] = s]

handled(side) == handles(side, "read", NoFrame, NoSession)

(* handleStatusKeep: the payload goes to the session with the ID, or, if      *)
(* there is none, an End frame back.                                          *)
handleStatusKeep(side) ==
    /\ atFrame(side, "Keep")
    /\ LET frame == Head(queue[side])
           s == Get(side, frame.id)
       IN  handles(side, IF s = NoSession THEN "notify" ELSE "deliver", frame, s)
    /\ nextFrame(side)
    /\ UNCHANGED <<cVars, sVars, copyVars, endVars, received>>

(* The output of the session takes the payload, sooner or later, *)
deliver(side) ==
    /\ loop[side] = "deliver"
    /\ LET s == target[side] IN
       /\ ~broke[side][s] /\ ~released(side, s)
       /\ received' = [received EXCEPT ![side][s] =
                          Append(@, <<current[side].origin, current[side].item>>)]
    /\ handled(side)
    /\ UNCHANGED <<cVars, sVars, wireVars, copyVars, endVars>>

(* unless its reader is gone, or the session is closed meanwhile: what is     *)
(* left of the payload is discarded.                                          *)
deliverFails(side) ==
    /\ loop[side] = "deliver"
    /\ broke[side][target[side]] \/ released(side, target[side])
    /\ SessionClose(side, target[side])
    /\ handled(side)
    /\ UNCHANGED <<wireVars, copyVars, endVars, received>>

(* The End frame is sent before the next frame is read. *)
notifyPeer(side) ==
    /\ loop[side] = "notify"
    /\ send(side, Frame("End", current[side].id, NoSession, 0))
    /\ handled(side)
    /\ UNCHANGED <<cVars, sVars, copyVars, endVars, received>>

handleStatusEnd(side) ==
    /\ atFrame(side, "End")
    /\ LET s == Get(side, Head(queue[side]).id)
       IN  IF s = NoSession THEN UNCHANGED <<cVars, sVars>> ELSE SessionClose(side, s)
    /\ nextFrame(side)
    /\ UNCHANGED <<loopVars, copyVars, endVars, received>>

(* ServerWorker.handleStatusNew (without a Global ID): Dispatch makes a link; *)
(* Add; handle starts; the first payload, if there is one, is written.  run   *)
(* ends when the manager is closed.                                           *)
handleStatusNew ==
    /\ atFrame("server", "New")
    /\ LET frame == Head(queue["server"])
           s == frame.origin
       IN  /\ srv!Add(s, frame.id)
           /\ pc' = IF sClosed THEN pc ELSE [pc EXCEPT !["server"][s] = "copy"]
           /\ IF sClosed THEN handles("server", "failed", NoFrame, NoSession)
              ELSE IF frame.item = 0 THEN UNCHANGED loopVars
              ELSE handles("server", "deliver", frame, s)
    /\ nextFrame("server")
    /\ UNCHANGED <<cVars, held, followup, fetched, endVars, received>>

(* The dispatcher refuses the destination: run ends with the whole connection. *)
handleStatusNewFails ==
    /\ atFrame("server", "New")
    /\ "dispatch" \in plan.may
    /\ loop' = [loop EXCEPT !["server"] = "failed"]
    /\ nextFrame("server")
    /\ UNCHANGED <<current, target, cVars, sVars, copyVars, endVars, received>>

(* The frames end, or a handler failed: doneCancel. *)
loopEnds(side) ==
    /\ \/ loop[side] = "failed"
       \/ loop[side] = "read" /\ queue[side] = <<>> /\ ~(wire /\ link[side])
    /\ doneCancel(side)
    /\ loop' = [loop EXCEPT ![side] = "over"]
    /\ UNCHANGED <<current, target, wireVars, copyVars, endVars, received>>

-----------------------------------------------------------------------------
monitor(side) ==
    /\ \/ side = "client" /\ ("client" \in plan.may \/ cDone) /\ cli!monitor /\ UNCHANGED sVars
       \/ side = "server" /\ ("server" \in plan.may \/ sDone) /\ srv!monitor /\ UNCHANGED cVars
    /\ UNCHANGED <<wireVars, loopVars, copyVars, endVars, received>>

monitorTick(side) ==
    /\ side \in plan.may
    /\ \/ side = "client" /\ cli!monitorTick /\ UNCHANGED sVars
       \/ side = "server" /\ srv!monitorTick /\ UNCHANGED cVars
    /\ UNCHANGED <<wireVars, loopVars, copyVars, endVars, received>>

(* Frames to these sides that were not yet read may be lost. *)
cut(q) == {SubSeq(q, 1, n) : n \in 0..Len(q)}
hangUp(sides) ==
    /\ wire' = FALSE
    /\ \E c \in cut(queue["client"]), s \in cut(queue["server"]) :
           queue' = [client |-> IF "client" \in sides THEN c ELSE queue["client"],
                     server |-> IF "server" \in sides THEN s ELSE queue["server"]]

(* The end of monitor interrupts the worker's link, and with it the connection. *)
monitorInterrupt(side) ==
    /\ \/ side = "client" /\ cli!monitorInterrupt /\ UNCHANGED sVars
       \/ side = "server" /\ srv!monitorInterrupt /\ UNCHANGED cVars
    /\ link' = [link EXCEPT ![side] = FALSE]
    /\ hangUp(IF wire THEN Side ELSE {side})
    /\ UNCHANGED <<plan, loopVars, copyVars, endVars, received>>

(* What the monitor does besides waiting in its select. *)
monitorRuns(side) ==
    \/ side = "client" /\ cMpc # "wait" /\ monitor(side)
    \/ side = "server" /\ sMpc # "wait" /\ monitor(side)
    \/ monitorInterrupt(side)

(* The connection fails. *)
breaks ==
    /\ "wire" \in plan.may /\ wire
    /\ hangUp(Side)
    /\ UNCHANGED <<cVars, sVars, plan, link, loopVars, copyVars, endVars, received>>

(* DialingWorkerFactory.Create: Process has returned, the worker is closed. *)
processEnds ==
    /\ ~wire /\ ~cDone
    /\ doneCancel("client")
    /\ UNCHANGED <<wireVars, loopVars, copyVars, endVars, received>>

(* The other end of a link: writes, one item at a time, closes, or stops reading. *)
endWrites(side, s) ==
    /\ ~eof[side][s] /\ written[side][s] < plan.items[side][s]
    /\ written[side][s] = fetched[side][s]
    /\ side = "client" \/ sAttached[s]
    /\ written' = [written EXCEPT ![side][s] = @ + 1]
    /\ UNCHANGED <<cVars, sVars, wireVars, loopVars, copyVars, eof, broke, received>>

endCloses(side, s) ==
    /\ <<side, s>> \in plan.ends /\ ~eof[side][s] /\ (side = "client" \/ sAttached[s])
    /\ eof' = [eof EXCEPT ![side][s] = TRUE]
    /\ UNCHANGED <<cVars, sVars, wireVars, loopVars, copyVars, written, broke, received>>

endBreaks(side, s) ==
    /\ <<side, s>> \in plan.leaves /\ ~broke[side][s] /\ (side = "client" \/ sAttached[s])
    /\ broke' = [broke EXCEPT ![side][s] = TRUE]
    /\ UNCHANGED <<cVars, sVars, wireVars, loopVars, copyVars, written, eof, received>>

-----------------------------------------------------------------------------
copyStep(side, s) ==
    \/ readData(side, s) \/ readEnds(side, s) \/ writeData(side, s)
    \/ writeEnd(side, s) \/ copyCloses(side, s)
    \/ side = "client" /\ (readTimeout(s) \/ Attach(s))

loopStep(side) ==
    \/ handleStatusKeep(side) \/ deliver(side) \/ deliverFails(side) \/ notifyPeer(side)
    \/ handleStatusEnd(side) \/ loopEnds(side)
    \/ side = "server" /\ (handleStatusNew \/ handleStatusNewFails)

Next ==
    \/ \E s \in Session : Allocate(s)
    \/ \E side \in Side, s \in Session :
           \/ copyStep(side, s)
           \/ endWrites(side, s) \/ endCloses(side, s) \/ endBreaks(side, s)
    \/ \E side \in Side : loopStep(side) \/ monitor(side) \/ monitorTick(side) \/ monitorInterrupt(side)
    \/ breaks
    \/ processEnds

Spec == Init /\ [][Next]_vars

(* Every goroutine of the two workers runs.  That a delivery goes on is due to *)
(* the reader of the output, which takes what is there or leaves: a relay with *)
(* an idle timer does (Freedom!EverythingEnds).  Otherwise the users of the    *)
(* links need not do anything, and the connection need not fail.               *)
FairSpec ==
    /\ Spec
    /\ \A side \in Side, s \in Session : WF_vars(copyStep(side, s))
    /\ \A side \in Side : WF_vars(loopStep(side)) /\ WF_vars(monitorRuns(side))
    /\ SF_vars(cMpc = "wait" /\ monitor("client"))
    /\ SF_vars(sMpc = "wait" /\ monitor("server"))
    /\ WF_vars(processEnds)

-----------------------------------------------------------------------------
(* What a session's output is given are the items of its own connection, from  *)
(* the first on, in order and without a gap, whatever other sessions do.       *)
NoCrossTalk ==
    \A side \in Side, s \in Session :
        \A k \in DOMAIN received[side][s] : received[side][s][k] = <<s, k>>

(* A session that ends because its client closed its input has been read to    *)
(* the end: when nothing failed, and the destination did not end first, the    *)
(* server's link is closed only after it was given all that the client wrote.  *)
GracefulEnd ==
    \A s \in Session :
        sSclosed[s] /\ ~cDone /\ ~sDone /\ ~eof["server"][s]
            /\ ~broke["server"][s] /\ ~broke["client"][s]
        => eof["client"][s] /\ Len(received["server"][s]) = written["client"][s]

(* A manager that was closed, on an idle tick or with the connection, leaves   *)
(* no session of its end open: the tick never takes a worker from a session.   *)
ManagersCloseAll == cli!ClosedManagerHasNoSession /\ srv!ClosedManagerHasNoSession

(* Each loop waits to notify the other, whose stream is full. *)
NotifyDeadlock == \A side \in Side : loop[side] = "notify" /\ ~room(side)

(* The two ends of a session go together: when one end is closed the other is  *)
(* closed in the end, by an End frame or with the connection, unless the two   *)
(* loops wait for each other for good, each in the notification of a frame for *)
(* a session that it has closed (client.go:360, server.go:309).                *)
ClosedTogether ==
    \/ <>[]NotifyDeadlock
    \/ \A s \in Session :
           srv!opened(s) /\ (cSclosed[s] \/ sSclosed[s]) ~> cSclosed[s] /\ sSclosed[s]

(* "Notify remote peer to close this session." (client.go:360, server.go:309): *)
(* the two loops are never both stuck in that, each with the other's stream    *)
(* full, so that neither notification can be sent.                             *)
NotificationsPass == ~NotifyDeadlock
=============================================================================
