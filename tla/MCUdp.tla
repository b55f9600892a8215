------------------------------- MODULE MCUdp -------------------------------
(***************************************************************************)
(* Small instances of UdpWorker and UdpDispatcher, which keep UDP links at  *)
(* the two ends of the program.  They share no state, so that it is enough  *)
(* to look at the behaviours in which one of them moves: which says the one. *)
(***************************************************************************)
EXTENDS UdpWorker

CONSTANTS
    a1, c1, c2, c3, d1, d2, \* model values
    Callers, MaxEntries, MaxResponses

OneID == {a1}
ThreeChains == {c1, c2, c3}
TwoCallers == {d1, d2}

VARIABLES
    which,
    conn, vclosed, finished, calls, closed, down, panicked, dpc, dconn, responses, cdone,
    dmade, dhpc, dcache

Dispatcher == INSTANCE UdpDispatcher WITH made <- dmade, hpc <- dhpc, cache <- dcache

dispatcherVars == <<conn, vclosed, finished, calls, closed, down, panicked, dpc, dconn, responses,
                    cdone, dmade, dhpc, dcache>>
allVars == <<vars, which, dispatcherVars>>

InitUdp ==
    /\ which \in {"worker", "dispatcher"}
    /\ Init /\ Dispatcher!Init

WorkerMoves(A) == which = "worker" /\ A /\ UNCHANGED <<which, dispatcherVars>>
DispatcherMoves(A) == which = "dispatcher" /\ A /\ UNCHANGED <<which, vars>>

NextUdp == WorkerMoves(Next) \/ DispatcherMoves(Dispatcher!Next)

(* The fairness of the two specifications. *)
FairUdp ==
    /\ \A k \in Chains : WF_vars(which = "worker" /\ (checkerStep(k) \/ clean(k)))
    /\ \A e \in 1..MaxEntries :
          /\ WF_dispatcherVars(which = "dispatcher" /\ (Dispatcher!terminate(e) \/ Dispatcher!bringDown(e)))
          /\ WF_dispatcherVars(/\ which = "dispatcher"
                               /\ \/ Dispatcher!inputLoop(e) \/ Dispatcher!callback(e)
                                  \/ Dispatcher!inputExit(e)
                                  \/ down[e] /\ Dispatcher!inputRead(e))

SpecUdp == InitUdp /\ [][NextUdp]_allVars /\ FairUdp

-----------------------------------------------------------------------------
(* udp.Dispatcher: the panic of terminate is not reached. *)
TerminateOnce == Dispatcher!TerminateOnce

(* udp.Dispatcher: a live entry is the current one of an open dispatcher. *)
NoOrphanEntry == Dispatcher!NoOrphanEntry

(* udp.Dispatcher: an entry that ends is wound up. *)
EntryEnds == Dispatcher!EntryEnds
=============================================================================
