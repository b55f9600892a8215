------------------------------- MODULE MCPath -------------------------------
(***************************************************************************)
(* Small instances of Dispatcher and ActivityTimer: a connection on its way *)
(* to a handler, and the timer that ends it there.  They share no state, so *)
(* that it is enough to look at the behaviours in which one of them moves:  *)
(* which says the one.                                                      *)
(***************************************************************************)
EXTENDS ActivityTimer

CONSTANTS u1, u2, MaxChunks, Deadline

TwoUsers == {u1, u2}

VARIABLES
    which,
    via, request, ctxDone, sent, src, taken, dpc, cacheDeadline, totalAttempt, sniffers, result,
    done, rmb, rerr, cache, target, routeTarget, asked, handler, hpc, delivered, writer,
    interrupted, eofLoss

Dispatch == INSTANCE Dispatcher WITH pc <- dpc

dispatchVars ==
    <<via, request, ctxDone, sent, src, taken, dpc, cacheDeadline, totalAttempt, sniffers, result,
      done, rmb, rerr, cache, target, routeTarget, asked, handler, hpc, delivered, writer,
      interrupted, eofLoss>>

(* The component that does not move has one of its initial states. *)
InitPath ==
    /\ which \in {"dispatcher", "timer"}
    /\ Init /\ Dispatch!Init
    /\ which = "dispatcher" => timeout = CHOOSE t \in Timeouts : t > 0
    /\ which = "timer" =>
          via = "Dispatch" /\ ~request.enabled /\ ~request.metadataOnly /\ ~request.routeOnly
          /\ request.override = {} /\ request.exclude = {}

NextPath ==
    \/ which = "dispatcher" /\ Dispatch!Next /\ UNCHANGED <<which, vars>>
    \/ which = "timer" /\ Next /\ UNCHANGED <<which, dispatchVars>>

SpecPath ==
    /\ InitPath
    /\ [][NextPath]_<<which, vars, dispatchVars>>
    /\ WF_dispatchVars(which = "dispatcher" /\ Dispatch!Goroutine)

-----------------------------------------------------------------------------
(* DefaultDispatcher: what sniffing read ahead is not lost or reordered. *)
StreamIntact == Dispatch!StreamIntact

(* DefaultDispatcher: a link whose rule names no handler goes to nobody. *)
RuleIsObeyed == Dispatch!RuleIsObeyed

(* DefaultDispatcher: every dispatch ends with a handler or a closed link. *)
DispatchIsDecided == which = "dispatcher" => Dispatch!DispatchIsDecided
=============================================================================
