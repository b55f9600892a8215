------------------------------ MODULE Reverse ------------------------------
(***************************************************************************)
(* app/reverse: a bridge keeps Mux connections open towards a portal, the   *)
(* portal dispatches its users' connections into them.  A control session   *)
(* of each Mux connection carries heartbeats from the portal, which at last *)
(* say that the connection is to be drained.  The outbound that             *)
(* proxy/vless/inbound makes for a reverse user has the same portal end.    *)
(*                                                                         *)
(* A Mux connection is a slot of Conns, seen from its two ends; what Mux    *)
(* promises about sessions is taken from there: a session is counted at     *)
(* both ends until it is closed, and when one end of the connection closes  *)
(* the other does in the end.  A slot is used again once both ends have     *)
(* forgotten it.                                                            *)
(***************************************************************************)
EXTENDS Naturals, Sequences, SequencesExt, FiniteSets

CONSTANTS
    Conns,          \* bound: Mux connections at a time
    DrainAfter,     \* 256: sessions after which a connection is drained
    PerWorker,      \* 16: sessions per connection that make the bridge open another
    MaxTotal,       \* bound: sessions of a connection
    CtlCap,         \* bound: control messages under way
    MinConn,        \* 9999: the load from which PickAvailable ignores a worker
    MaxCuts         \* bound: connections that break

VARIABLES
    mpc, creating,  \* bridge: where monitor is, and the connection it is making
    bworkers,       \* bridge: b.workers
    bmade,          \* per connection: the bridge's end exists
    timer,          \* per connection: w.Timer, "nil", "60s" or "24h"
    bstate,         \* per connection: w.State
    bclosed,        \* per connection: w.Worker is closed
    hpc,            \* per connection: where handleInternalConn is
    handled,        \* per connection: HandleConnection of the portal is done
    pworkers,       \* portal: picker.workers
    pclosed,        \* per connection: w.client is closed
    draining,       \* per connection: w.draining
    ctl, ctlEnd,    \* per connection: control messages under way; their end follows
    total, active,  \* per connection: sessions opened, sessions open
    dead, cuts      \* per connection: it carries nothing any more; breaks so far

bridgeVars == <<mpc, creating, bworkers, bmade, timer, bstate, hpc>>
portalVars == <<handled, pworkers, draining>>
ctlVars == <<ctl, ctlEnd>>
loadVars == <<total, active>>
cutVars == <<dead, cuts>>
vars == <<bridgeVars, bclosed, portalVars, pclosed, ctlVars, loadVars, cutVars>>

each(x) == [w \in Conns |-> x]

Init ==
    /\ mpc = "tick" /\ creating = 0 /\ bworkers = <<>>
    /\ bmade = each(FALSE) /\ timer = each("nil") /\ bstate = each("ACTIVE") /\ bclosed = each(FALSE)
    /\ hpc = each("none")
    /\ handled = each(FALSE) /\ pworkers = <<>> /\ pclosed = each(FALSE)
    /\ draining = each(FALSE)
    /\ ctl = each(<<>>) /\ ctlEnd = each(FALSE)
    /\ total = each(0) /\ active = each(0)
    /\ dead = each(FALSE) /\ cuts = 0

-----------------------------------------------------------------------------
(* The bridge *)

(* Mutant of IsActive: a closed worker that was not drained counts. *)
IsActive_Closed(w) == bstate[w] = "ACTIVE"

IsActive(w) == bstate[w] = "ACTIVE" /\ ~bclosed[w]

listed(s, w) == \E i \in DOMAIN s : s[i] = w

sum(S) == FoldLeft(LAMBDA n, w : n + active[w], 0, SetToSeq(S))

(* A slot that neither end knows any more. *)
free(w) == /\ ~bmade[w] /\ ~handled[w] /\ hpc[w] \in {"none", "over"}
           /\ ~listed(pworkers, w)

(* monitor's test, after cleanup. *)
tooFew(ws) ==
    LET S == Range(ws)
    IN  IF S = {} THEN TRUE ELSE sum(S) \div Cardinality(S) > PerWorker

(* Bridge.monitor, up to NewServerWorker in NewBridgeWorker, which may fail. *)
(* The timers that cleanup ends belong to workers that are closed already.  *)
monitor ==
    /\ mpc = "tick"
    /\ LET kept == SelectSeq(bworkers, IsActive) IN
       /\ \/ \E w \in Conns :
                /\ tooFew(kept) /\ free(w)
                /\ creating' = w /\ mpc' = "created"
                /\ bmade' = [bmade EXCEPT ![w] = TRUE]
          \/ UNCHANGED <<creating, mpc, bmade>>
       /\ bworkers' = kept
    /\ UNCHANGED <<timer, bstate, hpc, bclosed, portalVars, pclosed, ctlVars, loadVars, cutVars>>

(* NewBridgeWorker from there: Worker and then Timer are set, and monitor   *)
(* appends the worker.                                                      *)
monitorAppend ==
    /\ mpc = "created" /\ mpc' = "tick"
    /\ timer' = [timer EXCEPT ![creating] = "60s"]
    /\ bworkers' = Append(bworkers, creating)
    /\ creating' = 0
    /\ UNCHANGED <<bmade, bstate, hpc, bclosed, portalVars, pclosed, ctlVars, loadVars, cutVars>>

(* handleInternalConn: a control message. *)
handleControl(w) ==
    /\ hpc[w] = "reading" /\ ctl[w] # <<>> /\ ~bclosed[w] /\ ~dead[w]
    /\ bstate' = [bstate EXCEPT ![w] = Head(ctl[w])]
    /\ ctl' = [ctl EXCEPT ![w] = Tail(@)]
    /\ UNCHANGED <<mpc, creating, bworkers, bmade, timer, hpc, bclosed, portalVars, pclosed, ctlEnd, loadVars, cutVars>>

(* handleInternalConn: the end of the control link. *)
handleControlEnd(w) ==
    /\ hpc[w] = "reading"
    /\ bclosed[w] \/ (ctl[w] = <<>> /\ ctlEnd[w] /\ ~dead[w])
    /\ hpc' = [hpc EXCEPT ![w] = "over"]
    /\ timer' = [timer EXCEPT ![w] = IF @ = "nil" \/ bclosed[w] THEN @ ELSE "24h"]
    /\ UNCHANGED <<mpc, creating, bworkers, bmade, bstate, bclosed, portalVars, pclosed, ctlVars, loadVars, cutVars>>

(* The inactivity timer: terminate() closes the worker.  A portal that is   *)
(* alive sends a heartbeat every 10 seconds, so that the 60 seconds only    *)
(* pass when the control link has ended or the connection carries nothing.  *)
bridgeTimer(w) ==
    /\ ~bclosed[w]
    /\ timer[w] = "24h" \/ (timer[w] = "60s" /\ (dead[w] \/ hpc[w] = "over"))
    /\ bclosed' = [bclosed EXCEPT ![w] = TRUE]
    /\ UNCHANGED <<bridgeVars, portalVars, pclosed, ctlVars, loadVars, cutVars>>

-----------------------------------------------------------------------------
(* The portal *)

(* NewPortalWorker: the control session, which the bridge's end gives to     *)
(* handleInternalConn, and the first heartbeat.                             *)
NewPortalWorker(w) ==
    /\ hpc' = [hpc EXCEPT ![w] = "reading"]
    /\ ctl' = [ctl EXCEPT ![w] = Append(@, "ACTIVE")]
    /\ total' = [total EXCEPT ![w] = @ + 1]
    /\ active' = [active EXCEPT ![w] = @ + 1]

AddWorker(w) == pworkers' = Append(pworkers, w)

(* HandleConnection of a bridge's connection.  A worker that is closed      *)
(* already cannot open the session, and the link is interrupted.            *)
HandleConnection(w) ==
    /\ bmade[w] /\ ~handled[w] /\ hpc[w] = "none"
    /\ handled' = [handled EXCEPT ![w] = TRUE]
    /\ IF bclosed[w] \/ pclosed[w]
       THEN /\ pclosed' = [pclosed EXCEPT ![w] = TRUE]
            /\ hpc' = [hpc EXCEPT ![w] = "over"]
            /\ UNCHANGED <<pworkers, ctl, total, active>>
       ELSE NewPortalWorker(w) /\ AddWorker(w) /\ UNCHANGED pclosed
    /\ UNCHANGED <<mpc, creating, bworkers, bmade, timer, bstate, bclosed, draining, ctlEnd, cutVars>>

(* Mutant of heartbeat: the portal goes on preferring the worker. *)
heartbeat_Unmarked(w) ==
    /\ handled[w] /\ ~pclosed[w] /\ ~draining[w]
    /\ IF total[w] > DrainAfter
       THEN /\ UNCHANGED draining
            /\ ctl' = [ctl EXCEPT ![w] = Append(@, "DRAIN")]
            /\ ctlEnd' = [ctlEnd EXCEPT ![w] = TRUE]
       ELSE /\ ctl' = [ctl EXCEPT ![w] = Append(@, "ACTIVE")]
            /\ UNCHANGED <<draining, ctlEnd>>
    /\ Len(ctl'[w]) <= CtlCap
    /\ UNCHANGED <<bridgeVars, bclosed, handled, pworkers, pclosed, loadVars, cutVars>>

(* PortalWorker.heartbeat, when it sends a message (one beat in five, and   *)
(* the one that drains).  A beat that finds the client closed, or the       *)
(* worker draining, ends the task and does nothing else.                    *)
heartbeat(w) ==
    /\ handled[w] /\ ~pclosed[w] /\ ~draining[w]
    /\ IF total[w] > DrainAfter
       THEN /\ draining' = [draining EXCEPT ![w] = TRUE]
            /\ ctl' = [ctl EXCEPT ![w] = Append(@, "DRAIN")]
            /\ ctlEnd' = [ctlEnd EXCEPT ![w] = TRUE]
       ELSE /\ ctl' = [ctl EXCEPT ![w] = Append(@, "ACTIVE")]
            /\ UNCHANGED <<draining, ctlEnd>>
    /\ Len(ctl'[w]) <= CtlCap
    /\ UNCHANGED <<bridgeVars, bclosed, handled, pworkers, pclosed, loadVars, cutVars>>

(* The portal's own timer, 24 hours after the last heartbeat. *)
portalTimer(w) ==
    /\ draining[w] /\ ~pclosed[w]
    /\ pclosed' = [pclosed EXCEPT ![w] = TRUE]
    /\ UNCHANGED <<bridgeVars, bclosed, portalVars, ctlVars, loadVars, cutVars>>

(* One loop of PickAvailable, over the workers in S. *)
scan(S) ==
    FoldLeft(LAMBDA best, i :
                LET w == pworkers[i]
                IN IF w \in S /\ ~pclosed[w] /\ active[w] < best.minConn
                   THEN [minConn |-> active[w], minIdx |-> i] ELSE best,
             [minConn |-> MinConn, minIdx |-> 0],
             [i \in 1..Len(pworkers) |-> i]).minIdx

PickAvailable ==
    LET fresh == scan({w \in Conns : ~draining[w]})
    IN IF fresh # 0 THEN fresh ELSE scan(Conns)

(* A user's connection: client.Dispatch on the worker picked; without one   *)
(* the user's link is interrupted.                                          *)
PortalDispatch ==
    /\ PickAvailable # 0
    /\ LET w == pworkers[PickAvailable] IN
       /\ total[w] < MaxTotal
       /\ total' = [total EXCEPT ![w] = @ + 1]
       /\ active' = [active EXCEPT ![w] = @ + 1]
    /\ UNCHANGED <<bridgeVars, bclosed, portalVars, pclosed, ctlVars, cutVars>>

(* StaticMuxPicker.cleanup *)
cleanup ==
    /\ \E w \in Range(pworkers) : pclosed[w]
    /\ pworkers' = SelectSeq(pworkers, LAMBDA w : ~pclosed[w])
    /\ UNCHANGED <<bridgeVars, bclosed, handled, draining, pclosed, ctlVars, loadVars, cutVars>>

-----------------------------------------------------------------------------
(* The Mux connection *)

controlOpen(w) == hpc[w] = "reading" /\ ~(ctl[w] = <<>> /\ ctlEnd[w])

(* A user's session ends; so does the control session once its end is read. *)
SessionEnds(w) ==
    /\ active[w] > (IF controlOpen(w) THEN 1 ELSE 0)
    /\ active' = [active EXCEPT ![w] = @ - 1]
    /\ UNCHANGED <<bridgeVars, bclosed, portalVars, pclosed, ctlVars, total, cutVars>>

(* The client's monitor finds no session: the portal's end closes. *)
IdleCloses(w) ==
    /\ handled[w] /\ active[w] = 0 /\ ~pclosed[w]
    /\ pclosed' = [pclosed EXCEPT ![w] = TRUE]
    /\ UNCHANGED <<bridgeVars, bclosed, portalVars, ctlVars, loadVars, cutVars>>

(* The connection breaks: one end notices, or none. *)
Cut(w) ==
    /\ bmade[w] /\ ~bclosed[w] /\ ~pclosed[w] /\ ~dead[w] /\ cuts < MaxCuts
    /\ cuts' = cuts + 1
    /\ \/ bclosed' = [bclosed EXCEPT ![w] = TRUE] /\ UNCHANGED <<pclosed, dead>>
       \/ pclosed' = [pclosed EXCEPT ![w] = TRUE] /\ UNCHANGED <<bclosed, dead>>
       \/ dead' = [dead EXCEPT ![w] = TRUE] /\ UNCHANGED <<bclosed, pclosed>>
    /\ UNCHANGED <<bridgeVars, portalVars, ctlVars, loadVars>>

(* One end is closed: the other one closes too. *)
OtherEndCloses(w) ==
    /\ bmade[w] /\ bclosed[w] # pclosed[w]
    /\ bclosed' = [bclosed EXCEPT ![w] = TRUE]
    /\ pclosed' = [pclosed EXCEPT ![w] = TRUE]
    /\ active' = [active EXCEPT ![w] = 0]
    /\ UNCHANGED <<bridgeVars, portalVars, ctlVars, total, cutVars>>

(* Both ends have forgotten the connection: its slot is free again. *)
Forget(w) ==
    /\ bmade[w] /\ bclosed[w] /\ pclosed[w]
    /\ creating # w /\ ~listed(bworkers, w) /\ ~listed(pworkers, w)
    /\ handled[w] /\ hpc[w] = "over"
    /\ bmade' = [bmade EXCEPT ![w] = FALSE]
    /\ timer' = [timer EXCEPT ![w] = "nil"] /\ bstate' = [bstate EXCEPT ![w] = "ACTIVE"]
    /\ bclosed' = [bclosed EXCEPT ![w] = FALSE] /\ pclosed' = [pclosed EXCEPT ![w] = FALSE]
    /\ hpc' = [hpc EXCEPT ![w] = "none"] /\ handled' = [handled EXCEPT ![w] = FALSE]
    /\ draining' = [draining EXCEPT ![w] = FALSE]
    /\ ctl' = [ctl EXCEPT ![w] = <<>>] /\ ctlEnd' = [ctlEnd EXCEPT ![w] = FALSE]
    /\ total' = [total EXCEPT ![w] = 0] /\ active' = [active EXCEPT ![w] = 0]
    /\ dead' = [dead EXCEPT ![w] = FALSE]
    /\ UNCHANGED <<mpc, creating, bworkers, pworkers, cuts>>

Bridge == monitor \/ monitorAppend

(* What happens a bounded number of times to one connection. *)
Worker(w) ==
    \/ HandleConnection(w) \/ handleControlEnd(w)
    \/ IdleCloses(w) \/ OtherEndCloses(w) \/ Forget(w)

Next ==
    \/ Bridge \/ PortalDispatch \/ cleanup
    \/ \E w \in Conns :
          \/ Worker(w) \/ handleControl(w) \/ heartbeat(w)
          \/ bridgeTimer(w) \/ portalTimer(w) \/ SessionEnds(w) \/ Cut(w)

Spec == Init /\ [][Next]_vars

(* The periodic tasks run, the goroutines and the connections go on, and    *)
(* users' sessions end; nobody need open one.                               *)
FairSpec ==
    /\ Spec
    /\ WF_vars(Bridge) /\ WF_vars(cleanup)
    /\ \A w \in Conns :
          /\ WF_vars(Worker(w)) /\ WF_vars(handleControl(w)) /\ WF_vars(heartbeat(w))
          /\ WF_vars(SessionEnds(w)) /\ WF_vars(bridgeTimer(w))

-----------------------------------------------------------------------------
TypeOK ==
    /\ mpc \in {"tick", "created"} /\ creating \in Conns \cup {0}
    /\ bworkers \in Seq(Conns) /\ pworkers \in Seq(Conns)
    /\ bmade \in [Conns -> BOOLEAN] /\ timer \in [Conns -> {"nil", "60s", "24h"}]
    /\ bstate \in [Conns -> {"ACTIVE", "DRAIN"}] /\ bclosed \in [Conns -> BOOLEAN]
    /\ hpc \in [Conns -> {"none", "reading", "over"}] /\ handled \in [Conns -> BOOLEAN]
    /\ pclosed \in [Conns -> BOOLEAN] /\ draining \in [Conns -> BOOLEAN]
    /\ total \in [Conns -> Nat] /\ active \in [Conns -> Nat]
    /\ dead \in [Conns -> BOOLEAN] /\ cuts \in 0..MaxCuts

(* The bridge lets go of an open connection only if the portal has stopped  *)
(* preferring it: a worker that is open and no longer in b.workers is one   *)
(* that the portal drains, and it will not be counted or used as fresh.     *)
DroppedIsDrained ==
    \A w \in Conns :
        bmade[w] /\ ~bclosed[w] /\ creating # w /\ ~listed(bworkers, w) =>
            draining[w] /\ bstate[w] = "DRAIN"

(* However connections drain and break, the portal is not left without a    *)
(* connection for good: again and again it has an open worker that does not *)
(* drain, which the bridge takes for active.                                *)
PortalIsServed ==
    []<>(\E w \in Range(pworkers) : ~pclosed[w] /\ ~draining[w] /\ IsActive(w))

=============================================================================
