------------------------------ MODULE Freedom ------------------------------
(***************************************************************************)
(* proxy/freedom/freedom.go: Process dials the destination, with retries,   *)
(* and then relays between a link and the connection: two tasks of task.Run *)
(* (module TaskRun) that share an ActivityTimer.  outbound.Handler.Dispatch, *)
(* its caller, ends the link afterwards.                                    *)
(*                                                                         *)
(* Task 1 copies the link's input to the connection, task 2 the connection  *)
(* to the link's output.  What is copied are MaxData items per direction,   *)
(* of which the source may end before any, with EOF or an error.  There is  *)
(* no clock: a timer that is armed may fire, so Update has no step of its   *)
(* own here (module ActivityTimer has the time, and the races of its users).*)
(***************************************************************************)
EXTENDS Naturals

CONSTANTS
    MaxData,            \* bound: items a source sends
    retryDialAttempts

VARIABLES
    ppc,            \* where Process is
    attempt,        \* of retryDial
    opened, conn,   \* connections that dials have opened and not closed, and whether conn is one
    ctxDone,        \* the caller's context is done
    timeoutOnly,    \* session.TimeoutOnlyFromContext
    onlyTimeout,    \* DownlinkOnly and UplinkOnly, set when task 1 or 2 ends: 0 or more
    finished,       \* the timer has called its function
    err,            \* what Process returns, "nil" for success
    input, output,  \* the ends of the link: "open", "closed" or "interrupted"
    source,         \* per task: "open", "eof" or "error"
    stalls,         \* per task: the sink accepts nothing more
    sent, avail, delivered,     \* per task: items sent so far, one is there to be read, and items written
    dpc, failed,    \* per task: where the copy is, and what ended it
    \* task.Run
    s, done, launched, i, result, failedTask, tpc, outcome, firstErr

procVars == <<ppc, attempt, opened, conn, err>>
envVars == <<ctxDone, timeoutOnly, onlyTimeout, source, stalls, sent>>
linkVars == <<input, output>>
copyVars == <<avail, delivered, dpc, failed>>
runVars == <<s, done, launched, i, result, failedTask, tpc, outcome, firstErr>>
vars == <<procVars, envVars, linkVars, copyVars, runVars, finished>>

(* The context that task.Run watches: the timer cancels it, and so does the   *)
(* caller unless only timeouts count.                                         *)
runCtxDone == finished \/ (ctxDone /\ ~timeoutOnly)

Direction == {1, 2}
Run == INSTANCE TaskRun WITH N <- 2, canceled <- runCtxDone

Init ==
    /\ ppc = "attempt" /\ attempt = 0 /\ opened = 0 /\ conn = FALSE /\ err = "none"
    /\ ctxDone = FALSE /\ timeoutOnly \in BOOLEAN /\ onlyTimeout \in [Direction -> {0, 1}]
    /\ input = "open" /\ output = "open"
    /\ source = [d \in Direction |-> "open"] /\ stalls \in [Direction -> BOOLEAN]
    /\ sent = [d \in Direction |-> 0] /\ avail = [d \in Direction |-> FALSE]
    /\ delivered = [d \in Direction |-> 0]
    /\ dpc = [d \in Direction |-> "read"] /\ failed = [d \in Direction |-> "nil"]
    /\ finished = FALSE /\ Run!Init

-----------------------------------------------------------------------------
(* retryDial *)
Goto(from, to) == ppc = from /\ ppc' = to

returns(e) == ppc' = "returned" /\ err' = e

dialStart ==
    /\ ppc = "attempt"
    /\ IF ctxDone THEN returns("canceled") ELSE ppc' = "dialing" /\ UNCHANGED err
    /\ UNCHANGED <<attempt, opened, conn, envVars, linkVars, copyVars, runVars, finished>>

(* dial succeeds: the relay starts. *)
dialOpens ==
    /\ Goto("dialing", "relay")
    /\ opened' = opened + 1 /\ conn' = TRUE
    /\ attempt' = 0
    /\ UNCHANGED <<err, envVars, linkVars, copyVars, runVars, finished>>

(* Mutant of dialFails: the connection stays open when the PROXY header fails. *)
dialFails_KeepsConn ==
    /\ ppc = "dialing"
    /\ ppc' = IF attempt = retryDialAttempts - 1 THEN "exhausted" ELSE "wait"
    /\ opened' \in {opened, opened + 1}
    /\ UNCHANGED <<attempt, conn, err, envVars, linkVars, copyVars, runVars, finished>>

(* dial fails: nothing was opened, or it was closed again. *)
dialFails ==
    /\ ppc = "dialing"
    /\ ppc' = IF attempt = retryDialAttempts - 1 THEN "exhausted" ELSE "wait"
    /\ UNCHANGED <<attempt, opened, conn, err, envVars, linkVars, copyVars, runVars, finished>>

(* waitForRetry: a zero delay tests ctx only, and a positive one may win the   *)
(* select although ctx is done.                                                *)
waitForRetry ==
    /\ ppc = "wait"
    /\ \/ ctxDone /\ returns("canceled") /\ UNCHANGED attempt
       \/ (ctxDone => attempt > 0) /\ ppc' = "attempt" /\ attempt' = attempt + 1 /\ UNCHANGED err
    /\ UNCHANGED <<opened, conn, envVars, linkVars, copyVars, runVars, finished>>

(* The error of the last dial; its cause is io.EOF when the destination closes *)
(* in the middle of a handshake.                                               *)
dialExhausted ==
    /\ ppc = "exhausted"
    /\ \E e \in {"dial", "EOF"} : returns(IF ctxDone THEN "canceled" ELSE e)
    /\ UNCHANGED <<attempt, opened, conn, envVars, linkVars, copyVars, runVars, finished>>

-----------------------------------------------------------------------------
(* requestDone and responseDone *)
at(d, from) == tpc[d] = "run" /\ dpc[d] = from
to(d, there) == dpc' = [dpc EXCEPT ![d] = there]

(* The end that task d reads or writes was closed on this side. *)
readerGone(d) == IF d = 1 THEN input # "open" ELSE ~conn
writerGone(d) == IF d = 1 THEN ~conn \/ source[2] = "error" ELSE output # "open"

readItem(d) ==
    /\ at(d, "read") /\ avail[d] /\ ~readerGone(d)
    /\ avail' = [avail EXCEPT ![d] = FALSE]
    /\ to(d, "write")
    /\ UNCHANGED <<procVars, envVars, linkVars, delivered, failed, runVars, finished>>

ends(d, e) == to(d, "end") /\ failed' = [failed EXCEPT ![d] = e]

readEnds(d) ==
    /\ at(d, "read")
    /\ \/ readerGone(d) /\ ends(d, IF d = 1 THEN "pipe" ELSE "error")
       \/ /\ ~readerGone(d) /\ ~avail[d] /\ source[d] # "open"
          /\ ends(d, IF source[d] = "eof" THEN "nil" ELSE IF d = 1 THEN "pipe" ELSE "error")
    /\ UNCHANGED <<procVars, envVars, linkVars, avail, delivered, runVars, finished>>

writeItem(d) ==
    /\ at(d, "write") /\ ~writerGone(d) /\ ~stalls[d]
    /\ delivered' = [delivered EXCEPT ![d] = @ + 1]
    /\ to(d, "read")
    /\ UNCHANGED <<procVars, envVars, linkVars, avail, failed, runVars, finished>>

writeFails(d) ==
    /\ at(d, "write") /\ writerGone(d)
    /\ ends(d, IF d = 1 THEN "error" ELSE "pipe")
    /\ UNCHANGED <<procVars, envVars, linkVars, avail, delivered, runVars, finished>>

(* The deferred SetTimeout; with 0 it cancels at once. *)
shorten(d) ==
    /\ at(d, "end") /\ to(d, "return")
    /\ finished' = (finished \/ onlyTimeout[d] = 0)
    /\ UNCHANGED <<procVars, envVars, linkVars, avail, delivered, failed, runVars>>

(* Nothing was copied for the timeout. *)
onTimeout ==
    /\ ppc = "relay" /\ ~finished /\ finished' = TRUE
    /\ UNCHANGED <<procVars, envVars, linkVars, copyVars, runVars>>

(* The task returns; the response's closes the output if all went well. *)
taskReturns(d) ==
    /\ at(d, "return")
    /\ UNCHANGED <<procVars, envVars, input, copyVars, finished>>
    /\ Run!TaskEnds(d)
    /\ outcome'[d] = IF failed[d] = "nil" THEN "nil" ELSE "err"
    /\ output' = IF d = 2 /\ failed[d] = "nil" /\ output = "open" THEN "closed" ELSE output

copyStep(d) ==
    \/ readItem(d) \/ readEnds(d) \/ writeItem(d) \/ writeFails(d)
    \/ shorten(d) \/ taskReturns(d)

-----------------------------------------------------------------------------
relayStep ==
    /\ ppc = "relay"
    /\ UNCHANGED <<procVars, envVars, linkVars, copyVars, finished>>
    /\ Run!RunStep

(* What task.Run does with the end of a task. *)
taskReports(d) ==
    /\ UNCHANGED <<procVars, envVars, linkVars, copyVars, finished>>
    /\ Run!TaskPassed(d) \/ Run!TaskFailed(d)

(* Mutant of processReturns: the deferred conn.Close is missing. *)
processReturns_KeepsConn ==
    /\ ppc = "relay" /\ result # "running"
    /\ returns(CASE result = "nil" -> "nil" [] result = "ctx" -> "canceled"
                  [] OTHER -> failed[failedTask])
    /\ UNCHANGED <<attempt, opened, conn, envVars, linkVars, copyVars, runVars, finished>>

(* Process returns, and conn is closed. *)
processReturns ==
    /\ ppc = "relay" /\ result # "running"
    /\ returns(CASE result = "nil" -> "nil" [] result = "ctx" -> "canceled"
                  [] OTHER -> failed[failedTask])
    /\ conn' = FALSE /\ opened' = opened - 1
    /\ UNCHANGED <<attempt, envVars, linkVars, copyVars, runVars, finished>>

(* Mutant of dispatchEnds: every end of Process looks like EOF to the client. *)
dispatchEnds_Closes ==
    /\ Goto("returned", "over")
    /\ output' = IF output = "open" THEN "closed" ELSE output
    /\ input' = IF input = "open" THEN "interrupted" ELSE input
    /\ UNCHANGED <<attempt, opened, conn, err, envVars, copyVars, runVars, finished>>

(* Handler.Dispatch: the output is closed when Process succeeded, was          *)
(* cancelled or failed with io.EOF, and interrupted otherwise, after           *)
(* io.ErrClosedPipe too; the input is interrupted.                             *)
dispatchEnds ==
    /\ Goto("returned", "over")
    /\ output' = IF output # "open" THEN output
                 ELSE IF err \in {"nil", "canceled", "EOF"} THEN "closed" ELSE "interrupted"
    /\ input' = IF input = "open" THEN "interrupted" ELSE input
    /\ UNCHANGED <<attempt, opened, conn, err, envVars, copyVars, runVars, finished>>

process ==
    \/ dialStart \/ dialOpens \/ dialFails \/ waitForRetry \/ dialExhausted
    \/ relayStep \/ processReturns \/ dispatchEnds

(* The caller, the user of the link and the destination. *)
cancel ==
    /\ ~ctxDone /\ ctxDone' = TRUE
    /\ UNCHANGED <<procVars, timeoutOnly, onlyTimeout, source, stalls, sent, linkVars, copyVars, runVars, finished>>

sends(d) ==
    /\ ppc = "relay" /\ source[d] = "open" /\ ~avail[d] /\ sent[d] < MaxData
    /\ sent' = [sent EXCEPT ![d] = @ + 1]
    /\ avail' = [avail EXCEPT ![d] = TRUE]
    /\ UNCHANGED <<procVars, ctxDone, timeoutOnly, onlyTimeout, source, stalls, linkVars, delivered, dpc, failed, runVars, finished>>

sourceEnds(d) ==
    /\ ppc = "relay" /\ source[d] = "open"
    /\ \E e \in {"eof", "error"} : source' = [source EXCEPT ![d] = e]
    /\ UNCHANGED <<procVars, ctxDone, timeoutOnly, onlyTimeout, stalls, sent, linkVars, copyVars, runVars, finished>>

Next ==
    \/ process
    \/ \E d \in Direction : copyStep(d) \/ taskReports(d) \/ sends(d) \/ sourceEnds(d)
    \/ onTimeout
    \/ cancel

Spec == Init /\ [][Next]_vars

(* Every goroutine runs, time passes and timers fire; a dial returns (the      *)
(* system dialer has a timeout).  Nothing is assumed of the two peers.         *)
FairSpec ==
    /\ Spec
    /\ WF_vars(process) /\ WF_vars(onTimeout)
    /\ \A d \in Direction : WF_vars(copyStep(d)) /\ WF_vars(taskReports(d))

-----------------------------------------------------------------------------
(* Attempts do not leak connections: at most one is open at a time, and none   *)
(* once Process has returned, whether it dialled in vain, failed or succeeded. *)
NoConnLeak == opened = (IF conn THEN 1 ELSE 0) /\ (ppc \in {"returned", "over"} => opened = 0)

(* Process returns nil only when both directions were copied to their end.     *)
NilMeansComplete ==
    err = "nil" => \A d \in Direction : source[d] = "eof" /\ delivered[d] = sent[d]

(* A client that sees EOF on its downlink has the whole response, unless       *)
(* Process returned a cancellation, of the idle timer or of the caller, or the *)
(* EOF that ended every dial (handler.go:245-260): an error of an established  *)
(* connection is passed on as an error, a timer that fires later or not.       *)
CloseIsHonest ==
    output = "closed" =>
        \/ source[2] = "eof" /\ delivered[2] = sent[2]
        \/ err = "canceled" /\ (ctxDone \/ finished)
        \/ err = "EOF" /\ attempt = retryDialAttempts - 1 /\ ~conn

(* Process returns and no goroutine is left behind, although a destination may *)
(* be silent or accept nothing: the timer ends task.Run, closing conn and      *)
(* interrupting the link end the tasks.                                        *)
EverythingEnds ==
    <>(ppc = "over" /\ \A d \in Direction : tpc[d] \in {"new", "exit"})
=============================================================================
