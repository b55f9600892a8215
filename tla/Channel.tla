------------------------------ MODULE Channel ------------------------------
(***************************************************************************)
(* What a pipe promises to the two ends that share it, with no locks, no    *)
(* signals and no blocking: a lossless FIFO until somebody interrupts it.   *)
(*                                                                         *)
(*   sent      everything a successful write put in, in order              *)
(*   received  everything a read took out, in order                        *)
(*   phase     "open", "closed" (drain, then end of file) or "errord"      *)
(***************************************************************************)
EXTENDS Naturals, Sequences

CONSTANT Unit           \* the bytes that travel through the channel

VARIABLES sent, received, phase

chanVars == <<sent, received, phase>>

ChanInit ==
    /\ sent = <<>>
    /\ received = <<>>
    /\ phase = "open"

(* A write goes in whole, and only while the channel is open. *)
Send ==
    /\ phase = "open"
    /\ sent' \in Seq(Unit)
    /\ Len(sent) <= Len(sent')
    /\ SubSeq(sent', 1, Len(sent)) = sent
    /\ UNCHANGED <<received, phase>>

(* A read takes everything that is pending, and takes it in order. *)
Receive ==
    /\ phase # "errord"
    /\ received' = sent
    /\ UNCHANGED <<sent, phase>>

Shut ==
    /\ phase = "open"
    /\ phase' = "closed"
    /\ UNCHANGED <<sent, received>>

(* Only an interrupt gives up what is pending; a closed channel that is      *)
(* already drained stays closed.                                            *)
Abort ==
    /\ phase = "open" \/ (phase = "closed" /\ received # sent)
    /\ phase' = "errord"
    /\ UNCHANGED <<sent, received>>

ChanNext == Send \/ Receive \/ Shut \/ Abort

ChanSpec == ChanInit /\ [][ChanNext]_chanVars
=============================================================================
