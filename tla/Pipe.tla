-------------------------------- MODULE Pipe --------------------------------
(***************************************************************************)
(* transport/pipe: the in-memory byte pipe that joins an inbound to an      *)
(* outbound, a mux session to its connection, a UDP worker to its handler.  *)
(*                                                                         *)
(* The content of a pipe is the sequence of bytes of its MultiBuffer, so    *)
(* Len(data) is p.data.Len() and MergeMulti is concatenation.  A byte is    *)
(* the pair <<writer, number of the write it came in>>.  What runs under    *)
(* p.Lock() is one step; the Signal() that follows the unlock, and each     *)
(* outcome of a select, are steps of their own.  The two notifiers are      *)
(* channels of one slot (common/signal/notifier.go), errChan is a channel   *)
(* of one slot, and doneCtx is cancelled exactly when state leaves "open".  *)
(*                                                                         *)
(* A reader may call ReadMultiBuffer ("plain") or ReadMultiBufferTimeout    *)
(* ("timeout"); several goroutines may use either end.                      *)
(***************************************************************************)
EXTENDS Integers, Sequences

CONSTANTS
    Readers,        \* goroutines that read
    Writers,        \* goroutines that write
    Limit,          \* option.limit; negative means no limit
    Discards,       \* the values option.discardOverflow may have
    MaxWrite,       \* bound: bytes in one write
    MaxWrites       \* bound: writes per writer

ASSUME PipeAssumption ==
    /\ Limit \in Int
    /\ Discards \in SUBSET BOOLEAN
    /\ MaxWrite \in Nat \ {0}
    /\ MaxWrites \in Nat

VARIABLES
    discardOverflow,    \* p.option.discardOverflow, set by New
    data,           \* p.data
    state,          \* p.state
    readSignal,     \* the slot of p.readSignal is taken
    writeSignal,    \* the slot of p.writeSignal is taken
    errChan,        \* the slot of p.errChan is taken
    rpc, rkind, rres,           \* per reader: where it is, which call, last result
    wpc, mb, wres, writes,      \* per writer: where it is, argument, last result, calls made
    accepted,       \* history: bytes of the writes that entered the pipe
    delivered,      \* history: bytes handed to readers
    interrupted     \* history: bytes released by Interrupt

pipeVars == <<discardOverflow, data, state, readSignal, writeSignal, errChan>>
readerVars == <<rpc, rkind, rres>>
writerVars == <<wpc, mb, wres, writes>>
history == <<accepted, delivered, interrupted>>
vars == <<pipeVars, readerVars, writerVars, history>>

Byte == Writers \X (1..MaxWrites)

(* doneCtx.Done() is ready. *)
Done == state # "open"

isFull == Limit >= 0 /\ Len(data) > Limit

New ==
    /\ discardOverflow \in Discards
    /\ data = <<>> /\ state = "open"
    /\ readSignal = FALSE /\ writeSignal = FALSE /\ errChan = FALSE

Init ==
    /\ New
    /\ rpc = [r \in Readers |-> "idle"]
    /\ rkind = [r \in Readers |-> "plain"]
    /\ rres = [r \in Readers |-> "none"]
    /\ wpc = [w \in Writers |-> "idle"]
    /\ mb = [w \in Writers |-> <<>>]
    /\ wres = [w \in Writers |-> "none"]
    /\ writes = [w \in Writers |-> 0]
    /\ accepted = <<>> /\ delivered = <<>> /\ interrupted = <<>>

-----------------------------------------------------------------------------
(* The reading end *)

ReadCall(r, kind) ==
    /\ rpc[r] = "idle"
    /\ rpc' = [rpc EXCEPT ![r] = "try"]
    /\ rkind' = [rkind EXCEPT ![r] = kind]
    /\ rres' = [rres EXCEPT ![r] = "none"]
    /\ UNCHANGED <<pipeVars, writerVars, history>>

(* Mutant of readData: p.data is not reset. *)
readData_NoReset(r) ==
    /\ state # "errord" /\ data # <<>>
    /\ delivered' = delivered \o data
    /\ rres' = [rres EXCEPT ![r] = "data"]
    /\ rpc' = [rpc EXCEPT ![r] = "signal"]
    /\ UNCHANGED data

(* readMultiBufferInternal: the reader holds the lock for the whole step.   *)
readData(r) ==
    /\ state # "errord" /\ data # <<>>
    /\ delivered' = delivered \o data
    /\ data' = <<>>
    /\ rres' = [rres EXCEPT ![r] = "data"]
    /\ rpc' = [rpc EXCEPT ![r] = "signal"]

readError(r) ==
    /\ \/ /\ state = "closed" /\ data = <<>>
          /\ rres' = [rres EXCEPT ![r] = "EOF"]
       \/ /\ state = "errord"
          /\ rres' = [rres EXCEPT ![r] = "ErrClosedPipe"]
    /\ rpc' = [rpc EXCEPT ![r] = "signal"]
    /\ UNCHANGED <<data, delivered>>

readNothing(r) ==
    /\ state = "open" /\ data = <<>>
    /\ rpc' = [rpc EXCEPT ![r] = "wait"]
    /\ UNCHANGED <<data, delivered, rres>>

readMultiBufferInternal(r) ==
    /\ rpc[r] = "try"
    /\ readData(r) \/ readError(r) \/ readNothing(r)
    /\ UNCHANGED <<discardOverflow, state, readSignal, writeSignal, errChan, rkind, writerVars,
                   accepted, interrupted>>

(* Mutant of ReadReturn: the reader does not signal. *)
ReadReturn_NoSignal(r) ==
    /\ rpc[r] = "signal"
    /\ rpc' = [rpc EXCEPT ![r] = "idle"]
    /\ UNCHANGED <<pipeVars, rkind, rres, writerVars, history>>

(* p.writeSignal.Signal(); return data, err *)
ReadReturn(r) ==
    /\ rpc[r] = "signal"
    /\ writeSignal' = TRUE
    /\ rpc' = [rpc EXCEPT ![r] = "idle"]
    /\ UNCHANGED <<discardOverflow, data, state, readSignal, errChan, rkind, rres, writerVars, history>>

(* Mutant of ReadWoken: the select has no case for doneCtx. *)
ReadWoken_NoDone(r) ==
    /\ rpc[r] = "wait"
    /\ readSignal /\ readSignal' = FALSE
    /\ rpc' = [rpc EXCEPT ![r] = "try"]
    /\ UNCHANGED <<discardOverflow, data, state, writeSignal, errChan, rkind, rres, writerVars, history>>

(* The select of the two read calls. *)
ReadWoken(r) ==
    /\ rpc[r] = "wait"
    /\ \/ readSignal /\ readSignal' = FALSE
       \/ Done /\ UNCHANGED readSignal
    /\ rpc' = [rpc EXCEPT ![r] = "try"]
    /\ UNCHANGED <<discardOverflow, data, state, writeSignal, errChan, rkind, rres, writerVars, history>>

ReadErrChan(r) ==
    /\ rpc[r] = "wait" /\ rkind[r] = "plain"
    /\ errChan /\ errChan' = FALSE
    /\ rres' = [rres EXCEPT ![r] = "err"]
    /\ rpc' = [rpc EXCEPT ![r] = "idle"]
    /\ UNCHANGED <<discardOverflow, data, state, readSignal, writeSignal, rkind, writerVars, history>>

ReadTimeout(r) ==
    /\ rpc[r] = "wait" /\ rkind[r] = "timeout"
    /\ rres' = [rres EXCEPT ![r] = "ErrReadTimeout"]
    /\ rpc' = [rpc EXCEPT ![r] = "idle"]
    /\ UNCHANGED <<pipeVars, rkind, writerVars, history>>
-----------------------------------------------------------------------------
(* The writing end *)

(* A write of no bytes returns at once and is a stutter. *)
WriteCall(w, n) ==
    /\ wpc[w] = "idle" /\ writes[w] < MaxWrites
    /\ writes' = [writes EXCEPT ![w] = @ + 1]
    /\ mb' = [mb EXCEPT ![w] = [i \in 1..n |-> <<w, writes[w] + 1>>]]
    /\ wpc' = [wpc EXCEPT ![w] = "try"]
    /\ wres' = [wres EXCEPT ![w] = "none"]
    /\ UNCHANGED <<pipeVars, readerVars, history>>

(* Mutant of writeAccepted: the limit is not tested. *)
writeAccepted_NoLimit(w) ==
    /\ state = "open"
    /\ data' = data \o mb[w]
    /\ accepted' = accepted \o mb[w]
    /\ wres' = [wres EXCEPT ![w] = "ok"]
    /\ wpc' = [wpc EXCEPT ![w] = "signal"]
    /\ mb' = [mb EXCEPT ![w] = <<>>]

writeAccepted(w) ==
    /\ state = "open" /\ ~isFull
    /\ data' = data \o mb[w]
    /\ accepted' = accepted \o mb[w]
    /\ wres' = [wres EXCEPT ![w] = "ok"]
    /\ wpc' = [wpc EXCEPT ![w] = "signal"]
    /\ mb' = [mb EXCEPT ![w] = <<>>]

(* errBufferFull with discardOverflow: drop, and report success. *)
writeDiscarded(w) ==
    /\ state = "open" /\ isFull /\ discardOverflow
    /\ wres' = [wres EXCEPT ![w] = "discarded"]
    /\ mb' = [mb EXCEPT ![w] = <<>>]
    /\ wpc' = [wpc EXCEPT ![w] = "idle"]
    /\ UNCHANGED <<data, accepted>>

(* errBufferFull without it: wait in the select. *)
writeBlocked(w) ==
    /\ state = "open" /\ isFull /\ ~discardOverflow
    /\ wpc' = [wpc EXCEPT ![w] = "wait"]
    /\ UNCHANGED <<wres, mb, data, accepted>>

(* Mutant of writeClosed: the bytes are merged before the state is tested. *)
writeClosed_Merges(w) ==
    /\ Done
    /\ data' = data \o mb[w]
    /\ accepted' = accepted \o mb[w]
    /\ wres' = [wres EXCEPT ![w] = "ErrClosedPipe"]
    /\ mb' = [mb EXCEPT ![w] = <<>>]
    /\ wpc' = [wpc EXCEPT ![w] = "signal"]

writeClosed(w) ==
    /\ Done
    /\ wres' = [wres EXCEPT ![w] = "ErrClosedPipe"]
    /\ mb' = [mb EXCEPT ![w] = <<>>]
    /\ wpc' = [wpc EXCEPT ![w] = "signal"]
    /\ UNCHANGED <<data, accepted>>

(* writeMultiBufferInternal and what WriteMultiBuffer makes of its result.  *)
writeMultiBufferInternal(w) ==
    /\ wpc[w] = "try"
    /\ writeAccepted(w) \/ writeDiscarded(w) \/ writeBlocked(w) \/ writeClosed(w)
    /\ UNCHANGED <<discardOverflow, state, readSignal, writeSignal, errChan, readerVars, writes,
                   delivered, interrupted>>

(* Mutant of WriteReturn: the writer does not signal. *)
WriteReturn_NoSignal(w) ==
    /\ wpc[w] = "signal"
    /\ wpc' = [wpc EXCEPT ![w] = "idle"]
    /\ UNCHANGED <<pipeVars, readerVars, mb, wres, writes, history>>

(* p.readSignal.Signal(); return *)
WriteReturn(w) ==
    /\ wpc[w] = "signal"
    /\ readSignal' = TRUE
    /\ wpc' = [wpc EXCEPT ![w] = "idle"]
    /\ UNCHANGED <<discardOverflow, data, state, writeSignal, errChan, readerVars, mb, wres, writes, history>>

(* The select of WriteMultiBuffer. *)
WriteWoken(w) ==
    /\ wpc[w] = "wait"
    /\ writeSignal /\ writeSignal' = FALSE
    /\ wpc' = [wpc EXCEPT ![w] = "try"]
    /\ UNCHANGED <<discardOverflow, data, state, readSignal, errChan, readerVars, mb, wres, writes, history>>

WriteDone(w) ==
    /\ wpc[w] = "wait" /\ Done
    /\ wres' = [wres EXCEPT ![w] = "ErrClosedPipe"]
    /\ mb' = [mb EXCEPT ![w] = <<>>]
    /\ wpc' = [wpc EXCEPT ![w] = "idle"]
    /\ UNCHANGED <<pipeVars, readerVars, writes, history>>
-----------------------------------------------------------------------------
(* Either end, or the session that owns the pipe *)

Close ==
    /\ state = "open"
    /\ state' = "closed"
    /\ UNCHANGED <<discardOverflow, data, readSignal, writeSignal, errChan, readerVars, writerVars, history>>

(* Mutant of Interrupt: a pipe that is closed and drained becomes errord. *)
Interrupt_Always ==
    /\ data' = <<>>
    /\ interrupted' = interrupted \o data
    /\ state' = "errord"
    /\ UNCHANGED <<discardOverflow, readSignal, writeSignal, errChan, readerVars, writerVars,
                   accepted, delivered>>

Interrupt ==
    /\ data' = <<>>
    /\ interrupted' = interrupted \o data
    /\ state' = IF state = "closed" /\ data = <<>> THEN "closed" ELSE "errord"
    /\ UNCHANGED <<discardOverflow, readSignal, writeSignal, errChan, readerVars, writerVars,
                   accepted, delivered>>

(* Sends to errChan: blocks, that is stays disabled, while the slot is taken. *)
ReturnAnError ==
    /\ ~errChan /\ errChan' = TRUE
    /\ UNCHANGED <<discardOverflow, data, state, readSignal, writeSignal, readerVars, writerVars, history>>

Recover ==
    /\ errChan /\ errChan' = FALSE
    /\ UNCHANGED <<discardOverflow, data, state, readSignal, writeSignal, readerVars, writerVars, history>>
-----------------------------------------------------------------------------
ReadStep(r) ==
    \/ readMultiBufferInternal(r)
    \/ ReadReturn(r)
    \/ ReadWoken(r)
    \/ ReadErrChan(r)
    \/ ReadTimeout(r)

WriteStep(w) ==
    \/ writeMultiBufferInternal(w)
    \/ WriteReturn(w)
    \/ WriteWoken(w)
    \/ WriteDone(w)

Next ==
    \/ \E r \in Readers, kind \in {"plain", "timeout"} : ReadCall(r, kind)
    \/ \E r \in Readers : ReadStep(r)
    \/ \E w \in Writers, n \in 1..MaxWrite : WriteCall(w, n)
    \/ \E w \in Writers : WriteStep(w)
    \/ Close
    \/ Interrupt
    \/ ReturnAnError
    \/ Recover

Spec == Init /\ [][Next]_vars

(* The Go scheduler runs every goroutine that is inside a call and can      *)
(* proceed.  Nothing makes anybody call, close or interrupt.  A timer that  *)
(* is armed fires.                                                          *)
Fairness ==
    /\ \A r \in Readers : WF_vars(ReadStep(r))
    /\ \A w \in Writers : WF_vars(WriteStep(w))

FairSpec == Spec /\ Fairness

(* Both ends in use: the reading end sits in a copy loop (buf.Copy) that    *)
(* calls again after every result.                                         *)
CopyLoopSpec ==
    /\ FairSpec
    /\ \A r \in Readers : WF_vars(\E kind \in {"plain", "timeout"} : ReadCall(r, kind))
-----------------------------------------------------------------------------
ReadResults == {"none", "data", "EOF", "ErrClosedPipe", "ErrReadTimeout", "err"}
WriteResults == {"none", "ok", "discarded", "ErrClosedPipe"}

(* Every variable of the pipe and of the goroutines in it has its type.     *)
TypeOK ==
    /\ data \in Seq(Byte) /\ accepted \in Seq(Byte)
    /\ delivered \in Seq(Byte) /\ interrupted \in Seq(Byte)
    /\ state \in {"open", "closed", "errord"}
    /\ discardOverflow \in BOOLEAN
    /\ readSignal \in BOOLEAN /\ writeSignal \in BOOLEAN /\ errChan \in BOOLEAN
    /\ rpc \in [Readers -> {"idle", "try", "wait", "signal"}]
    /\ rkind \in [Readers -> {"plain", "timeout"}]
    /\ rres \in [Readers -> ReadResults]
    /\ wpc \in [Writers -> {"idle", "try", "wait", "signal"}]
    /\ mb \in [Writers -> Seq(Byte)]
    /\ wres \in [Writers -> WriteResults]
    /\ writes \in [Writers -> 0..MaxWrites]

(* A pipe loses, repeats and reorders nothing: what writers put in is what  *)
(* readers took, then what an interrupt released, then what is still there  *)
(* (readMultiBufferInternal takes all of p.data, MergeMulti appends).       *)
Conservation == accepted = delivered \o interrupted \o data

(* io.EOF is only returned once every accepted byte has been read, and from *)
(* then on nothing is accepted, pending or interrupted.                     *)
EOFMeansDrained ==
    \A r \in Readers : rres[r] = "EOF" =>
        state = "closed" /\ data = <<>> /\ delivered = accepted

(* isFull is tested before a write, not for it: the pipe exceeds its limit  *)
(* by at most one write.                                                    *)
Bounded == Limit >= 0 => Len(data) <= Limit + MaxWrite

(* A write that reports io.ErrClosedPipe, or was discarded, has left none   *)
(* of its bytes behind; a write that is still trying has not either.        *)
RefusedWriteLeavesNothing ==
    \A w \in Writers, i \in DOMAIN accepted :
        wres[w] # "ok" => accepted[i] # <<w, writes[w]>>

(* No wake-up is lost on the reading side: while bytes wait in an open pipe *)
(* and a reader is blocked in its select, the readSignal slot is taken, or  *)
(* some writer is about to Signal, or some reader is about to look again.   *)
NoLostReadSignal ==
    (state = "open" /\ data # <<>> /\ \E r \in Readers : rpc[r] = "wait") =>
        \/ readSignal
        \/ \E w \in Writers : wpc[w] = "signal"
        \/ \E r \in Readers : rpc[r] = "try"

(* No wake-up is lost on the writing side.  A writer can stay blocked while *)
(* the pipe is no longer full, because one read gives one signal, but only  *)
(* while there are bytes whose reading will signal again.                   *)
NoLostWriteSignal ==
    (state = "open" /\ data = <<>> /\ \E w \in Writers : wpc[w] = "wait") =>
        \/ writeSignal
        \/ \E r \in Readers : rpc[r] = "signal"
        \/ \E w \in Writers : wpc[w] = "try"

(* Both together: nobody sleeps in a select of pipe.go next to what it      *)
(* waits for without a wake-up on its way.                                  *)
NoLostSignal == NoLostReadSignal /\ NoLostWriteSignal

(* The pipe implements the lossless channel of module Channel: the reading  *)
(* and writing ends see the same FIFO whatever the interleaving.            *)
Chan == INSTANCE Channel WITH
            Unit <- Byte, sent <- accepted, received <- delivered, phase <- state
ImplementsChannel == Chan!ChanSpec

(* Close or Interrupt releases everybody: a goroutine blocked in either     *)
(* select of a finished pipe returns.                                       *)
DoneWakesEveryone ==
    /\ \A r \in Readers : (rpc[r] = "wait" /\ Done) ~> (rpc[r] = "idle")
    /\ \A w \in Writers : (wpc[w] = "wait" /\ Done) ~> (wpc[w] = "idle")

(* With a copy loop at the reading end every write returns.  One read wakes *)
(* one of several blocked writers; the others are woken by the reads of     *)
(* what that one writes (pipe.go:126, 192).                                 *)
EveryWriteReturns == \A w \in Writers : (wpc[w] # "idle") ~> (wpc[w] = "idle")
=============================================================================
