----------------------------- MODULE PipeProofs -----------------------------
(***************************************************************************)
(* Proofs about Pipe for any number of readers and writers, any limit and   *)
(* either overflow policy.                                                 *)
(***************************************************************************)
EXTENDS Pipe, SequenceTheorems, TLAPS

(* Init establishes the types. *)
LEMMA InitType == Init => TypeOK
  <1> SUFFICES ASSUME Init PROVE TypeOK
    OBVIOUS
  <1>1. <<>> \in Seq(Byte)
    OBVIOUS
  <1>2. readSignal \in BOOLEAN /\ writeSignal \in BOOLEAN /\ errChan \in BOOLEAN
    BY DEF Init, New
  <1> QED BY <1>1, <1>2, PipeAssumption DEF Init, New, TypeOK, ReadResults, WriteResults

(* Every step of a reader preserves the types. *)
LEMMA ReadType ==
  ASSUME TypeOK, NEW r \in Readers,
         ReadStep(r) \/ \E kind \in {"plain", "timeout"} : ReadCall(r, kind)
  PROVE  TypeOK'
  <1> USE DEF TypeOK, pipeVars, readerVars, writerVars, history, ReadResults
  <1>1. ASSUME NEW kind \in {"plain", "timeout"}, ReadCall(r, kind) PROVE TypeOK'
    BY <1>1 DEF ReadCall
  <1>2. CASE readMultiBufferInternal(r)
    <2>1. CASE readData(r)
      BY <1>2, <2>1 DEF readMultiBufferInternal, readData
    <2>2. CASE readError(r)
      BY <1>2, <2>2 DEF readMultiBufferInternal, readError
    <2>3. CASE readNothing(r)
      BY <1>2, <2>3 DEF readMultiBufferInternal, readNothing
    <2> QED BY <1>2, <2>1, <2>2, <2>3 DEF readMultiBufferInternal
  <1>3. CASE ReadReturn(r)
    BY <1>3 DEF ReadReturn
  <1>4. CASE ReadWoken(r)
    BY <1>4 DEF ReadWoken
  <1>5. CASE ReadErrChan(r)
    BY <1>5 DEF ReadErrChan
  <1>6. CASE ReadTimeout(r)
    BY <1>6 DEF ReadTimeout
  <1> QED BY <1>1, <1>2, <1>3, <1>4, <1>5, <1>6 DEF ReadStep

(* Every step of a writer preserves the types. *)
LEMMA WriteType ==
  ASSUME TypeOK, NEW w \in Writers,
         WriteStep(w) \/ \E n \in 1..MaxWrite : WriteCall(w, n)
  PROVE  TypeOK'
  <1> USE PipeAssumption
      DEF TypeOK, pipeVars, readerVars, writerVars, history, WriteResults
  <1>1. ASSUME NEW n \in 1..MaxWrite, WriteCall(w, n) PROVE TypeOK'
    <2>1. [i \in 1..n |-> <<w, writes[w] + 1>>] \in Seq(Byte)
      <3>1. <<w, writes[w] + 1>> \in Byte
        BY <1>1 DEF Byte, WriteCall
      <3> QED BY <3>1
    <2>2. mb' \in [Writers -> Seq(Byte)]
      BY <1>1, <2>1 DEF WriteCall
    <2>3. writes' \in [Writers -> 0..MaxWrites]
      BY <1>1 DEF WriteCall
    <2> QED BY <1>1, <2>2, <2>3 DEF WriteCall
  <1>2. CASE writeMultiBufferInternal(w)
    <2>1. CASE writeAccepted(w)
      BY <1>2, <2>1 DEF writeMultiBufferInternal, writeAccepted
    <2>2. CASE writeDiscarded(w)
      BY <1>2, <2>2 DEF writeMultiBufferInternal, writeDiscarded
    <2>3. CASE writeBlocked(w)
      BY <1>2, <2>3 DEF writeMultiBufferInternal, writeBlocked
    <2>4. CASE writeClosed(w)
      BY <1>2, <2>4 DEF writeMultiBufferInternal, writeClosed
    <2> QED BY <1>2, <2>1, <2>2, <2>3, <2>4 DEF writeMultiBufferInternal
  <1>3. CASE WriteReturn(w)
    BY <1>3 DEF WriteReturn
  <1>4. CASE WriteWoken(w)
    BY <1>4 DEF WriteWoken
  <1>5. CASE WriteDone(w)
    BY <1>5 DEF WriteDone
  <1> QED BY <1>1, <1>2, <1>3, <1>4, <1>5 DEF WriteStep

(* Every step preserves the types. *)
LEMMA NextType == TypeOK /\ [Next]_vars => TypeOK'
  <1> SUFFICES ASSUME TypeOK, [Next]_vars PROVE TypeOK'
    OBVIOUS
  <1>1. CASE Close
    BY <1>1 DEF Close, TypeOK, readerVars, writerVars, history
  <1>2. CASE Interrupt
    BY <1>2 DEF Interrupt, TypeOK, readerVars, writerVars, history
  <1>3. CASE ReturnAnError
    BY <1>3 DEF ReturnAnError, TypeOK, readerVars, writerVars, history
  <1>4. CASE Recover
    BY <1>4 DEF Recover, TypeOK, readerVars, writerVars, history
  <1>5. CASE UNCHANGED vars
    BY <1>5 DEF vars, TypeOK, pipeVars, readerVars, writerVars, history
  <1> QED
    BY <1>1, <1>2, <1>3, <1>4, <1>5, ReadType, WriteType DEF Next

(* The type invariant of the pipe holds in every reachable state. *)
THEOREM TypeCorrect == Spec => []TypeOK
  BY InitType, NextType, PTL DEF Spec
-----------------------------------------------------------------------------
(* Only five kinds of steps touch the content, the state or the histories.  *)
Frame ==
    \/ UNCHANGED <<data, state, history>>
    \/ \E r \in Readers :
          /\ rpc[r] = "try" /\ readData(r)
          /\ UNCHANGED <<state, accepted, interrupted>>
    \/ \E w \in Writers :
          /\ wpc[w] = "try" /\ writeAccepted(w)
          /\ UNCHANGED <<state, delivered, interrupted>>
    \/ Close
    \/ Interrupt

(* Every step is one of the kinds of Frame. *)
LEMMA NextFrame == [Next]_vars => Frame
  <1> SUFFICES ASSUME [Next]_vars PROVE Frame
    OBVIOUS
  <1> USE DEF Frame, pipeVars, history
  <1>1. ASSUME NEW r \in Readers, ReadStep(r) PROVE Frame
    BY <1>1 DEF ReadStep, readMultiBufferInternal, readError, readNothing,
                ReadReturn, ReadWoken, ReadErrChan, ReadTimeout
  <1>2. ASSUME NEW w \in Writers, WriteStep(w) PROVE Frame
    BY <1>2 DEF WriteStep, writeMultiBufferInternal, writeDiscarded, writeBlocked,
                writeClosed, WriteReturn, WriteWoken, WriteDone
  <1> QED
    BY <1>1, <1>2 DEF Next, ReadCall, WriteCall, ReturnAnError, Recover, vars

(* The content is conserved, and only an interrupted pipe has lost bytes.   *)
FifoInv ==
    /\ Conservation
    /\ state # "errord" => interrupted = <<>>
    /\ state = "errord" => data = <<>>

(* A new pipe is empty. *)
LEMMA InitFifo == Init => FifoInv
  <1> SUFFICES ASSUME Init PROVE FifoInv
    OBVIOUS
  <1>1. <<>> \o <<>> \o <<>> = <<>>
    BY ConcatEmptySeq, EmptySeq
  <1> QED BY <1>1 DEF Init, New, FifoInv, Conservation

(* Every step preserves the FIFO invariant. *)
LEMMA NextFifo == TypeOK /\ FifoInv /\ [Next]_vars => FifoInv'
  <1> SUFFICES ASSUME TypeOK, FifoInv, Frame PROVE FifoInv'
    BY NextFrame
  <1>0. /\ data \in Seq(Byte) /\ accepted \in Seq(Byte)
        /\ delivered \in Seq(Byte) /\ interrupted \in Seq(Byte)
        /\ state \in {"open", "closed", "errord"}
    BY DEF TypeOK
  <1>1. CASE UNCHANGED <<data, state, history>>
    BY <1>1 DEF history, FifoInv, Conservation
  <1>2. ASSUME NEW r \in Readers, readData(r), UNCHANGED <<state, accepted, interrupted>>
        PROVE  FifoInv'
    <2>1. delivered' = delivered \o data /\ data' = <<>> /\ interrupted = <<>>
      BY <1>2 DEF readData, FifoInv
    <2>2. delivered \o interrupted = delivered
      BY <1>0, <2>1, ConcatEmptySeq
    <2>3. delivered' \o interrupted' \o data' = delivered \o data
      BY <1>0, <1>2, <2>1, ConcatEmptySeq, ConcatProperties
    <2> QED BY <1>2, <2>1, <2>2, <2>3 DEF readData, FifoInv, Conservation
  <1>3. ASSUME NEW w \in Writers, writeAccepted(w), UNCHANGED <<state, delivered, interrupted>>
        PROVE  FifoInv'
    <2>1. mb[w] \in Seq(Byte)
      BY DEF TypeOK
    <2>2. delivered \o interrupted \in Seq(Byte)
      BY <1>0, ConcatProperties
    <2>3. accepted' = (delivered \o interrupted \o data) \o mb[w]
      BY <1>3 DEF writeAccepted, FifoInv, Conservation
    <2>4. @ = delivered \o interrupted \o (data \o mb[w])
      <3>1. \A p, q, s \in Seq(Byte) : (p \o q) \o s = p \o (q \o s)
        OBVIOUS
      <3> QED BY <1>0, <2>1, <2>2, <3>1, Zenon
    <2> QED BY <1>3, <2>3, <2>4 DEF writeAccepted, FifoInv, Conservation
  <1>4. CASE Close
    BY <1>4 DEF Close, history, FifoInv, Conservation
  <1>5. CASE Interrupt
    <2>1. accepted' = delivered \o interrupted \o data
      BY <1>5 DEF Interrupt, FifoInv, Conservation
    <2>2. @ = delivered \o (interrupted \o data)
      BY <1>0
    <2>3. @ = delivered \o (interrupted \o data) \o <<>>
      BY <1>0, ConcatEmptySeq, ConcatProperties
    <2>4. state' = "errord" \/ (interrupted = <<>> /\ data = <<>> /\ state' = "closed")
      BY <1>0, <1>5 DEF Interrupt, FifoInv
    <2>5. interrupted' = <<>> \/ state' = "errord"
      BY <1>0, <1>5, <2>4, ConcatEmptySeq DEF Interrupt
    <2> QED BY <1>5, <2>1, <2>2, <2>3, <2>4, <2>5 DEF Interrupt, FifoInv, Conservation
  <1> QED BY <1>1, <1>2, <1>3, <1>4, <1>5 DEF Frame

(* A pipe loses, repeats and reorders nothing, with any number of           *)
(* goroutines at either end and at any limit.                               *)
THEOREM PipeConservation == Spec => []Conservation
  <1>1. FifoInv => Conservation
    BY DEF FifoInv
  <1> QED BY <1>1, InitFifo, TypeCorrect, NextFifo, PTL DEF Spec
-----------------------------------------------------------------------------
(* Every step preserves the meaning of end of file.  Only a reader that     *)
(* looks at a closed and empty pipe reports it, and such a pipe is final.   *)
LEMMA NextEOF ==
  TypeOK /\ FifoInv /\ EOFMeansDrained /\ [Next]_vars => EOFMeansDrained'
  <1> SUFFICES ASSUME TypeOK, FifoInv, EOFMeansDrained, [Next]_vars,
                      NEW r \in Readers, rres'[r] = "EOF"
               PROVE  (state = "closed" /\ data = <<>> /\ delivered = accepted)'
    BY DEF EOFMeansDrained
  <1>0. rres \in [Readers -> ReadResults]
    BY DEF TypeOK
  <1>1. CASE rres[r] = "EOF"
    <2>1. state = "closed" /\ data = <<>> /\ delivered = accepted
      BY <1>1 DEF EOFMeansDrained
    <2>2. Frame
      BY NextFrame
    <2> QED BY <2>1, <2>2 DEF Frame, history, readData, writeAccepted, Close, Interrupt
  <1>2. CASE rres[r] # "EOF"
    <2>1. /\ state = "closed" /\ data = <<>>
          /\ UNCHANGED <<state, data, history>>
      <3>1. ASSUME NEW q \in Readers, ReadStep(q)
            PROVE  /\ state = "closed" /\ data = <<>>
                   /\ UNCHANGED <<state, data, history>>
        BY <1>0, <1>2, <3>1 DEF ReadStep, readMultiBufferInternal, readData, readError,
           readNothing, ReadReturn, ReadWoken, ReadErrChan, ReadTimeout, history
      <3>2. ASSUME NEW q \in Readers, NEW kind, ReadCall(q, kind) PROVE FALSE
        BY <1>0, <1>2, <3>2 DEF ReadCall
      <3>3. ASSUME NEW w \in Writers, WriteStep(w) PROVE FALSE
        BY <1>2, <3>3 DEF WriteStep, writeMultiBufferInternal, WriteReturn, WriteWoken,
           WriteDone, readerVars
      <3> QED
        BY <1>2, <3>1, <3>2, <3>3 DEF Next, WriteCall, Close, Interrupt, ReturnAnError,
           Recover, vars, readerVars
    <2>2. interrupted = <<>> /\ accepted = delivered \o interrupted \o data
      BY <2>1 DEF FifoInv, Conservation
    <2>3. delivered = accepted
      BY <2>1, <2>2 DEF TypeOK
    <2> QED BY <2>1, <2>3 DEF history
  <1> QED BY <1>1, <1>2

(* io.EOF is returned only after every accepted byte was delivered. *)
THEOREM PipeEOF == Spec => []EOFMeansDrained
  <1>1. Init => FifoInv /\ EOFMeansDrained
    BY InitFifo DEF Init, EOFMeansDrained
  <1> QED BY <1>1, TypeCorrect, NextFifo, NextEOF, PTL DEF Spec
-----------------------------------------------------------------------------
(* A writer inside a call holds a write of 1 to MaxWrite bytes, all marked   *)
(* with its current write, and has no result yet.                           *)
ArgumentInv ==
    \A w \in Writers : wpc[w] \in {"try", "wait"} =>
        /\ Len(mb[w]) \in 1..MaxWrite
        /\ \A i \in 1..Len(mb[w]) : mb[w][i] = <<w, writes[w]>>
        /\ wres[w] = "none"

(* Every step preserves the shape of the pending writes. *)
LEMMA NextArgument == TypeOK /\ ArgumentInv /\ [Next]_vars => ArgumentInv'
  <1> SUFFICES ASSUME TypeOK, ArgumentInv, [Next]_vars PROVE ArgumentInv'
    OBVIOUS
  <1> USE DEF ArgumentInv
  <1>0. /\ wpc \in [Writers -> {"idle", "try", "wait", "signal"}]
        /\ mb \in [Writers -> Seq(Byte)] /\ wres \in [Writers -> WriteResults]
        /\ writes \in [Writers -> 0..MaxWrites]
    BY DEF TypeOK
  <1>1. ASSUME NEW w \in Writers, NEW n \in 1..MaxWrite, WriteCall(w, n)
        PROVE  ArgumentInv'
    <2>1. /\ mb'[w] = [i \in 1..n |-> <<w, writes'[w]>>]
          /\ wres'[w] = "none"
          /\ \A v \in Writers \ {w} : /\ mb'[v] = mb[v] /\ writes'[v] = writes[v]
                                      /\ wpc'[v] = wpc[v] /\ wres'[v] = wres[v]
      BY <1>0, <1>1 DEF WriteCall
    <2>2. Len(mb'[w]) = n
      BY <2>1, PipeAssumption
    <2>3. \A i \in 1..n : mb'[w][i] = <<w, writes'[w]>>
      BY <2>1
    <2> QED BY <2>1, <2>2, <2>3
  <1>2. ASSUME NEW w \in Writers, WriteStep(w) PROVE ArgumentInv'
    <2>1. CASE writeMultiBufferInternal(w)
      <3>1. CASE writeAccepted(w)
        BY <1>0, <2>1, <3>1 DEF writeMultiBufferInternal, writeAccepted
      <3>2. CASE writeDiscarded(w)
        BY <1>0, <2>1, <3>2 DEF writeMultiBufferInternal, writeDiscarded
      <3>3. CASE writeBlocked(w)
        BY <1>0, <2>1, <3>3 DEF writeMultiBufferInternal, writeBlocked
      <3>4. CASE writeClosed(w)
        BY <1>0, <2>1, <3>4 DEF writeMultiBufferInternal, writeClosed
      <3> QED BY <2>1, <3>1, <3>2, <3>3, <3>4 DEF writeMultiBufferInternal
    <2>2. CASE WriteReturn(w)
      BY <1>0, <2>2 DEF WriteReturn
    <2>3. CASE WriteWoken(w)
      BY <1>0, <2>3 DEF WriteWoken
    <2>4. CASE WriteDone(w)
      BY <1>0, <2>4 DEF WriteDone
    <2> QED BY <1>2, <2>1, <2>2, <2>3, <2>4 DEF WriteStep
  <1>3. CASE UNCHANGED writerVars
    BY <1>3 DEF writerVars
  <1>4. ASSUME NEW r \in Readers, ReadStep(r) PROVE UNCHANGED writerVars
    BY <1>4 DEF ReadStep, readMultiBufferInternal, ReadReturn, ReadWoken, ReadErrChan,
                ReadTimeout
  <1> QED BY <1>1, <1>2, <1>3, <1>4 DEF Next, ReadCall, Close, Interrupt, ReturnAnError,
             Recover, vars

(* No step loses a wake-up, on either side. *)
LEMMA NextSignal == TypeOK /\ ArgumentInv /\ NoLostSignal /\ [Next]_vars => NoLostSignal'
  <1> SUFFICES ASSUME TypeOK, ArgumentInv, NoLostSignal, [Next]_vars PROVE NoLostSignal'
    OBVIOUS
  <1> USE DEF NoLostSignal, NoLostReadSignal, NoLostWriteSignal, readerVars, writerVars, pipeVars
  <1>0. /\ data \in Seq(Byte)
        /\ rpc \in [Readers -> {"idle", "try", "wait", "signal"}]
        /\ wpc \in [Writers -> {"idle", "try", "wait", "signal"}]
    BY DEF TypeOK
  <1>1. ASSUME NEW r \in Readers, NEW kind, ReadCall(r, kind) PROVE NoLostSignal'
    BY <1>0, <1>1 DEF ReadCall
  <1>2. ASSUME NEW r \in Readers, readMultiBufferInternal(r) PROVE NoLostSignal'
    <2>1. CASE readData(r)
      BY <1>0, <1>2, <2>1 DEF readMultiBufferInternal, readData
    <2>2. CASE readError(r)
      BY <1>0, <1>2, <2>2 DEF readMultiBufferInternal, readError
    <2>3. CASE readNothing(r)
      BY <1>0, <1>2, <2>3 DEF readMultiBufferInternal, readNothing
    <2> QED BY <1>2, <2>1, <2>2, <2>3 DEF readMultiBufferInternal
  <1>3. ASSUME NEW r \in Readers, ReadReturn(r) PROVE NoLostSignal'
    BY <1>0, <1>3 DEF ReadReturn
  <1>4. ASSUME NEW r \in Readers, ReadWoken(r) PROVE NoLostSignal'
    BY <1>0, <1>4 DEF ReadWoken, Done
  <1>5. ASSUME NEW r \in Readers, ReadErrChan(r) \/ ReadTimeout(r) PROVE NoLostSignal'
    BY <1>0, <1>5 DEF ReadErrChan, ReadTimeout
  <1>6. ASSUME NEW w \in Writers, NEW n, WriteCall(w, n) PROVE NoLostSignal'
    BY <1>0, <1>6 DEF WriteCall
  <1>7. ASSUME NEW w \in Writers, writeMultiBufferInternal(w) PROVE NoLostSignal'
    <2>1. CASE writeAccepted(w)
      <3>1. data' # <<>>
        BY <1>0, <1>7, <2>1, PipeAssumption
           DEF writeMultiBufferInternal, writeAccepted, ArgumentInv, TypeOK
      <3> QED BY <1>0, <1>7, <2>1, <3>1 DEF writeMultiBufferInternal, writeAccepted
    <2>2. CASE writeDiscarded(w)
      <3>1. data # <<>>
        BY <1>0, <2>2, PipeAssumption DEF writeDiscarded, isFull
      <3> QED BY <1>0, <1>7, <2>2, <3>1 DEF writeMultiBufferInternal, writeDiscarded
    <2>3. CASE writeBlocked(w)
      <3>1. data # <<>>
        BY <1>0, <2>3, PipeAssumption DEF writeBlocked, isFull
      <3> QED BY <1>0, <1>7, <2>3, <3>1 DEF writeMultiBufferInternal, writeBlocked
    <2>4. CASE writeClosed(w)
      BY <1>0, <1>7, <2>4 DEF writeMultiBufferInternal, writeClosed, Done
    <2> QED BY <1>7, <2>1, <2>2, <2>3, <2>4 DEF writeMultiBufferInternal
  <1>8. ASSUME NEW w \in Writers, WriteReturn(w) PROVE NoLostSignal'
    BY <1>0, <1>8 DEF WriteReturn
  <1>9. ASSUME NEW w \in Writers, WriteWoken(w) PROVE NoLostSignal'
    BY <1>0, <1>9 DEF WriteWoken
  <1>10. ASSUME NEW w \in Writers, WriteDone(w) PROVE NoLostSignal'
    BY <1>0, <1>10 DEF WriteDone, Done
  <1>11. CASE Close \/ Interrupt
    BY <1>11 DEF Close, Interrupt
  <1>12. CASE ReturnAnError \/ Recover
    BY <1>12 DEF ReturnAnError, Recover
  <1>13. CASE UNCHANGED vars
    BY <1>13 DEF vars
  <1> QED BY <1>1, <1>2, <1>3, <1>4, <1>5, <1>6, <1>7, <1>8, <1>9, <1>10, <1>11,
             <1>12, <1>13 DEF Next, ReadStep, WriteStep

(* With one-slot notifiers and any number of goroutines, no reader sleeps   *)
(* on bytes and no writer sleeps on an empty pipe without a wake-up on its  *)
(* way.                                                                     *)
THEOREM PipeSignals == Spec => []NoLostSignal
  <1>1. Init => ArgumentInv /\ NoLostSignal
    BY DEF Init, New, ArgumentInv, NoLostSignal, NoLostReadSignal, NoLostWriteSignal
  <1> QED BY <1>1, TypeCorrect, NextArgument, NextSignal, PTL DEF Spec
-----------------------------------------------------------------------------
(* A pipe with a limit never holds more than the limit and one write.  This *)
(* is what isFull, tested before the write, bounds.                         *)
THEOREM PipeBounded == Spec => []Bounded
  <1>1. Init => ArgumentInv /\ Bounded
    <2> SUFFICES ASSUME Init PROVE ArgumentInv /\ Bounded
      OBVIOUS
    <2>1. Len(data) = 0
      BY DEF Init, New
    <2> QED BY <2>1, PipeAssumption DEF Init, ArgumentInv, Bounded
  <1>2. TypeOK /\ ArgumentInv /\ Bounded /\ [Next]_vars => Bounded'
    <2> SUFFICES ASSUME TypeOK, ArgumentInv, Bounded, Frame PROVE Bounded'
      BY NextFrame
    <2>1. data \in Seq(Byte) /\ Len(data) \in Nat
      BY DEF TypeOK
    <2>2. ASSUME data' = <<>> PROVE Bounded'
      BY <2>2, PipeAssumption DEF Bounded
    <2>3. ASSUME NEW w \in Writers, wpc[w] = "try", writeAccepted(w) PROVE Bounded'
      <3>1. mb[w] \in Seq(Byte) /\ Len(mb[w]) \in 1..MaxWrite
        BY <2>3 DEF TypeOK, ArgumentInv
      <3>2. Len(data') = Len(data) + Len(mb[w])
        BY <2>1, <2>3, <3>1, ConcatProperties DEF writeAccepted
      <3> QED BY <2>1, <2>3, <3>1, <3>2, PipeAssumption DEF Bounded, writeAccepted, isFull
    <2> QED BY <2>2, <2>3 DEF Frame, Bounded, readData, Close, Interrupt
  <1> QED BY <1>1, <1>2, TypeCorrect, NextArgument, PTL DEF Spec
-----------------------------------------------------------------------------
(* Bytes are numbered by the writes they came in: none is from the future,  *)
(* and one of the current write is there only if that write succeeded.      *)
MarkInv ==
    /\ \A w \in Writers, i \in DOMAIN accepted :
          accepted[i][1] = w => accepted[i][2] <= writes[w]
    /\ RefusedWriteLeavesNothing

(* Every step preserves the marks. *)
LEMMA NextMark == TypeOK /\ ArgumentInv /\ MarkInv /\ [Next]_vars => MarkInv'
  <1> SUFFICES ASSUME TypeOK, ArgumentInv, MarkInv, [Next]_vars PROVE MarkInv'
    OBVIOUS
  <1> USE DEF MarkInv, RefusedWriteLeavesNothing
  <1>0. /\ accepted \in Seq(Byte)
        /\ wpc \in [Writers -> {"idle", "try", "wait", "signal"}]
        /\ mb \in [Writers -> Seq(Byte)] /\ wres \in [Writers -> WriteResults]
        /\ writes \in [Writers -> 0..MaxWrites]
    BY DEF TypeOK
  <1>1. \A i \in DOMAIN accepted : /\ accepted[i] \in Byte
                                   /\ accepted[i] = <<accepted[i][1], accepted[i][2]>>
    BY <1>0 DEF Byte
  <1>2. ASSUME NEW w \in Writers, NEW n \in 1..MaxWrite, WriteCall(w, n) PROVE MarkInv'
    <2>1. /\ accepted' = accepted
          /\ writes' = [writes EXCEPT ![w] = writes[w] + 1]
          /\ \A v \in Writers \ {w} : wres'[v] = wres[v]
      BY <1>0, <1>2 DEF WriteCall, history
    <2>2. /\ writes[w] \in Nat /\ writes'[w] = writes[w] + 1
          /\ \A v \in Writers \ {w} : writes'[v] = writes[v]
          /\ \A v \in Writers : writes[v] \in Nat
      BY <1>0, <2>1, PipeAssumption
    <2>3. \A i \in DOMAIN accepted : accepted[i][2] \in Nat
      BY <1>1, PipeAssumption DEF Byte
    <2>4. \A v \in Writers, i \in DOMAIN accepted' :
             accepted'[i][1] = v => accepted'[i][2] <= writes'[v]
      BY <2>1, <2>2, <2>3
    <2>5. \A i \in DOMAIN accepted : accepted[i] # <<w, writes'[w]>>
      BY <2>2, <2>3
    <2> QED BY <2>1, <2>2, <2>4, <2>5
  <1>3. ASSUME NEW w \in Writers, wpc[w] = "try", writeAccepted(w), writes' = writes
        PROVE  MarkInv'
    <2>1. /\ accepted' = accepted \o mb[w]
          /\ wres'[w] = "ok"
          /\ \A v \in Writers \ {w} : wres'[v] = wres[v]
      BY <1>0, <1>3 DEF writeAccepted
    <2>2. \A i \in 1..Len(mb[w]) : mb[w][i] = <<w, writes[w]>>
      BY <1>3 DEF ArgumentInv
    <2>3. \A i \in DOMAIN accepted' :
             \/ i \in DOMAIN accepted /\ accepted'[i] = accepted[i]
             \/ accepted'[i] = <<w, writes[w]>>
      <3>1. mb[w] \in Seq(Byte)
        BY <1>0
      <3> QED BY <1>0, <2>1, <2>2, <3>1
    <2>4. writes[w] \in Int
      BY <1>0, PipeAssumption
    <2>5. ASSUME NEW v \in Writers, NEW i \in DOMAIN accepted', accepted'[i][1] = v
          PROVE  accepted'[i][2] <= writes[v]
      BY <2>3, <2>4, <2>5
    <2>6. ASSUME NEW v \in Writers, NEW i \in DOMAIN accepted', wres'[v] # "ok"
          PROVE  accepted'[i] # <<v, writes[v]>>
      <3>1. v # w /\ wres[v] # "ok"
        BY <2>1, <2>6
      <3>2. <<w, writes[w]>> # <<v, writes[v]>>
        BY <3>1
      <3>3. CASE i \in DOMAIN accepted /\ accepted'[i] = accepted[i]
        BY <3>1, <3>3
      <3> QED BY <2>3, <3>2, <3>3
    <2> QED BY <1>3, <2>5, <2>6
  <1>4. ASSUME NEW w \in Writers, WriteStep(w), accepted' = accepted PROVE MarkInv'
    <2>1. writes' = writes
      BY <1>4 DEF WriteStep, writeMultiBufferInternal, WriteReturn, WriteWoken, WriteDone
    <2>2. \A v \in Writers : wres'[v] # "ok" => wres[v] # "ok"
      <3>1. CASE writeMultiBufferInternal(w)
        <4>1. wres[w] = "none"
          BY <3>1 DEF writeMultiBufferInternal, ArgumentInv
        <4>2. \A v \in Writers \ {w} : wres'[v] = wres[v]
          BY <1>0, <3>1 DEF writeMultiBufferInternal, writeAccepted, writeDiscarded,
             writeBlocked, writeClosed
        <4> QED BY <4>1, <4>2
      <3>2. CASE WriteReturn(w) \/ WriteWoken(w)
        BY <3>2 DEF WriteReturn, WriteWoken
      <3>3. CASE WriteDone(w)
        BY <1>0, <3>3 DEF WriteDone, ArgumentInv
      <3> QED BY <1>4, <3>1, <3>2, <3>3 DEF WriteStep
    <2> QED BY <1>4, <2>1, <2>2
  <1>5. ASSUME NEW w \in Writers, WriteStep(w) PROVE MarkInv'
    BY <1>3, <1>4, <1>5 DEF WriteStep, writeMultiBufferInternal, writeDiscarded, writeBlocked,
       writeClosed, WriteReturn, WriteWoken, WriteDone, history
  <1>6. CASE UNCHANGED <<writerVars, accepted>>
    BY <1>6 DEF writerVars
  <1>7. ASSUME NEW r \in Readers, ReadStep(r) PROVE UNCHANGED <<writerVars, accepted>>
    BY <1>7 DEF ReadStep, readMultiBufferInternal, ReadReturn, ReadWoken, ReadErrChan,
                ReadTimeout, history
  <1> QED BY <1>2, <1>5, <1>6, <1>7 DEF Next, ReadCall, Close, Interrupt, ReturnAnError,
             Recover, vars, history

(* A write that was refused or discarded has left no byte in the pipe.      *)
THEOREM PipeRefused == Spec => []RefusedWriteLeavesNothing
  <1>1. Init => ArgumentInv /\ MarkInv
    BY DEF Init, ArgumentInv, MarkInv, RefusedWriteLeavesNothing
  <1>2. MarkInv => RefusedWriteLeavesNothing
    BY DEF MarkInv
  <1> QED BY <1>1, <1>2, TypeCorrect, NextArgument, NextMark, PTL DEF Spec
-----------------------------------------------------------------------------
(* Every step of the pipe is a step of the channel, or invisible to it.     *)
LEMMA StepRefines ==
  TypeOK /\ FifoInv /\ [Next]_vars => [Chan!ChanNext]_(Chan!chanVars)
  <1> SUFFICES ASSUME TypeOK, FifoInv, Frame PROVE [Chan!ChanNext]_(Chan!chanVars)
    BY NextFrame
  <1>0. /\ data \in Seq(Byte) /\ accepted \in Seq(Byte)
        /\ delivered \in Seq(Byte) /\ interrupted \in Seq(Byte)
        /\ state \in {"open", "closed", "errord"}
    BY DEF TypeOK
  <1>1. CASE UNCHANGED <<data, state, history>>
    BY <1>1 DEF history, Chan!chanVars
  <1>2. ASSUME NEW r \in Readers, readData(r), UNCHANGED <<state, accepted, interrupted>>
        PROVE  Chan!Receive
    <2>1. delivered' = delivered \o data /\ interrupted = <<>> /\ state # "errord"
      BY <1>2 DEF readData, FifoInv
    <2>2. delivered \o interrupted = delivered
      BY <1>0, <2>1, ConcatEmptySeq
    <2> QED BY <1>2, <2>1, <2>2 DEF Chan!Receive, FifoInv, Conservation
  <1>3. ASSUME NEW w \in Writers, writeAccepted(w), UNCHANGED <<state, delivered, interrupted>>
        PROVE  Chan!Send
    <2>1. mb[w] \in Seq(Byte) /\ accepted' = accepted \o mb[w] /\ state = "open"
      BY <1>3 DEF TypeOK, writeAccepted
    <2>2. accepted' \in Seq(Byte) /\ Len(accepted) <= Len(accepted')
      BY <1>0, <2>1
    <2>3. SubSeq(accepted', 1, Len(accepted)) = accepted
      BY <1>0, <2>1
    <2> QED BY <1>3, <2>1, <2>2, <2>3 DEF Chan!Send
  <1>4. CASE Close
    BY <1>4 DEF Close, history, Chan!Shut, Chan!ChanNext
  <1>5. CASE Interrupt
    <2>1. CASE state' = state
      BY <1>5, <2>1 DEF Interrupt, Chan!chanVars
    <2>2. CASE state' # state
      <3>1. /\ state' = "errord" /\ UNCHANGED <<accepted, delivered>>
            /\ state = "open" \/ (state = "closed" /\ data # <<>>)
        BY <1>0, <1>5, <2>2 DEF Interrupt
      <3>2. ASSUME state = "closed", data # <<>> PROVE delivered # accepted
        <4>1. interrupted = <<>> /\ accepted = delivered \o interrupted \o data
          BY <3>2 DEF FifoInv, Conservation
        <4>2. Len(accepted) = Len(delivered) + Len(data)
          BY <1>0, <4>1
        <4>3. Len(data) > 0
          BY <1>0, <3>2
        <4> QED BY <1>0, <4>2, <4>3
      <3> QED BY <3>1, <3>2 DEF Chan!Abort, Chan!ChanNext
    <2> QED BY <2>1, <2>2
  <1> QED BY <1>1, <1>2, <1>3, <1>4, <1>5 DEF Frame, Chan!ChanNext

(* The pipe implements the lossless channel: locks, signals, limits and     *)
(* retries are invisible at its two ends.                                   *)
THEOREM PipeRefinement == Spec => ImplementsChannel
  <1>1. Init => FifoInv /\ Chan!ChanInit
    BY InitFifo DEF Init, New, Chan!ChanInit
  <1> QED
    BY <1>1, TypeCorrect, NextFifo, StepRefines, PTL
       DEF Spec, ImplementsChannel, Chan!ChanSpec
=============================================================================
