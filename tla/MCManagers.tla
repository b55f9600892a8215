----------------------------- MODULE MCManagers -----------------------------
(***************************************************************************)
(* Small instances of SessionManager (inside one worker) and MuxPicker      *)
(* (over many).  They share no state, so that it is enough to look at the   *)
(* behaviours in which one of them moves: which says the one.               *)
(*                                                                         *)
(* Four IDs stand for the 2^16, and MaxConnection 3, the largest limit that *)
(* keeps IDs apart, for the 128 that outbound/handler.go sets.              *)
(***************************************************************************)
EXTENDS SessionManager, TLC

CONSTANTS Dispatchers, MaxWorkers, PickerConcurrency, PickerConnection, Tries, Chains, MayClose

VARIABLES
    which,
    workers, made, size, wcount, wclosed, wdone, pc, tries, picked, dchain, disturbed, running, timer, chain

Picker == INSTANCE MuxPicker WITH
    count <- wcount, closed <- wclosed, done <- wdone,
    MaxConcurrency <- PickerConcurrency, MaxConnection <- PickerConnection

pickerVars == <<workers, made, size, wcount, wclosed, wdone, pc, tries, picked, dchain, disturbed,
                running, timer, chain>>

InitManagers ==
    /\ which \in {"sessions", "picker"}
    /\ Init /\ Picker!Init

NextManagers ==
    \/ which = "sessions" /\ Next /\ UNCHANGED <<which, pickerVars>>
    \/ which = "picker" /\ Picker!Next /\ UNCHANGED <<which, vars>>

SpecManagers == InitManagers /\ [][NextManagers]_<<which, vars, pickerVars>>

Symmetric == Permutations(Dispatchers)

-----------------------------------------------------------------------------
(* ClientManager.Dispatch: an undisturbed call finds room at its second try, *)
(* unless the worker is about to be done.                                    *)
TwoTriesSuffice == Picker!TwoTriesSuffice

(* IncrementalWorkerPicker: an open worker is listed, once. *)
OpenWorkersAreListed == Picker!OpenWorkersAreListed
=============================================================================
