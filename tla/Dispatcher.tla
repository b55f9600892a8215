----------------------------- MODULE Dispatcher -----------------------------
(***************************************************************************)
(* app/dispatcher: one connection, from Dispatch or DispatchLink to the     *)
(* handler that takes its link.                                             *)
(*                                                                         *)
(* What the client sends is the sequence of chunks 1, 2, ...; a MultiBuffer *)
(* is a sequence of chunks.  With Dispatch the source is the uplink pipe,   *)
(* seen as the channel that module Pipe implements; with DispatchLink it is *)
(* the client's connection behind buf.TimeoutWrapperReader, whose goroutine *)
(* reads ahead while the sniffer waits for at most the deadline.  The time  *)
(* left for sniffing is counted in ticks.                                   *)
(*                                                                         *)
(* There is no fake DNS engine in this build, so that SniffMetadata always  *)
(* ends with ErrNoClue and what sniffer() returns is the content's result.  *)
(* The Router is an interface: any answer that PickRoute may give is an     *)
(* input, and so is the outbound manager's answer to a lookup.              *)
(***************************************************************************)
EXTENDS Naturals, Sequences, SequencesExt

CONSTANTS
    MaxChunks,      \* bound: chunks the client sends
    Deadline        \* cacheDeadline in ticks

VARIABLES
    via,            \* "Dispatch" or "DispatchLink"
    request,        \* content.SniffingRequest
    ctxDone,        \* the connection's context is cancelled
    sent, src,      \* chunks sent; the source is "open", "closed" (EOF) or "errord"
    taken,          \* chunks read out of the source
    pc,             \* where the dispatching goroutine is
    cacheDeadline, totalAttempt, sniffers, result,
    done, rmb, rerr,    \* TimeoutWrapperReader: "nil", "reading" or "ready"; r.mb, r.err
    cache,          \* cachedReader.cache
    target, routeTarget,    \* ob.Target and ob.RouteTarget
    asked, handler, \* the tag a rule asked for; the handler that took the link
    hpc, delivered, \* the handler: where it is, what it has read
    writer,         \* link.Writer: "open" or "closed"
    interrupted,    \* history: chunks were released by an Interrupt
    eofLoss         \* history: Cache met a read that gave both data and an error

srcVars == <<sent, src, taken>>
sniffVars == <<cacheDeadline, totalAttempt, sniffers, result>>
wrapVars == <<done, rmb, rerr>>
routeVars == <<target, routeTarget, asked, handler>>
handlerVars == <<hpc, delivered, writer>>
history == <<interrupted, eofLoss>>
config == <<via, request>>
vars == <<config, ctxDone, srcVars, pc, sniffVars, wrapVars, cache, routeVars, handlerVars, history>>

Chunks(from, to) == [i \in 1..(to - from) |-> from + i]

(* The answers of a protocol sniffer; the domain may be empty.  Two of the  *)
(* sniffers for a network stand for all of them.                            *)
Results == [protocol : {"http", "tls"}, domain : {"", "site"}]
NoResult == [protocol |-> "", domain |-> ""]

Requests == [enabled : BOOLEAN, metadataOnly : BOOLEAN, routeOnly : BOOLEAN,
             override : {{}, {"tls"}}, exclude : {{}, {"site"}}]

Init ==
    /\ via \in {"Dispatch", "DispatchLink"}
    /\ request \in Requests
    /\ ctxDone = FALSE
    /\ sent = 0 /\ src = "open" /\ taken = 0
    /\ pc = "call"
    /\ cacheDeadline = Deadline /\ totalAttempt = 0
    /\ sniffers = <<"http", "tls">> /\ result = NoResult
    /\ done = "nil" /\ rmb = <<>> /\ rerr = FALSE
    /\ cache = <<>>
    /\ target = "original" /\ routeTarget = "none"
    /\ asked = "none" /\ handler = "none"
    /\ hpc = "none" /\ delivered = <<>> /\ writer = "open"
    /\ interrupted = FALSE /\ eofLoss = FALSE

-----------------------------------------------------------------------------
(* The client end. *)

ClientSend ==
    /\ src = "open" /\ sent < MaxChunks
    /\ sent' = sent + 1
    /\ UNCHANGED <<config, ctxDone, src, taken, pc, sniffVars, wrapVars, cache, routeVars, handlerVars, history>>

(* The inbound closes the uplink, or interrupts it: a pipe then drops what  *)
(* it holds, a connection fails at the next read.                           *)
ClientEnd ==
    /\ src = "open"
    /\ src' \in {"closed", "errord"}
    /\ interrupted' = (interrupted \/ src' = "errord")
    /\ UNCHANGED <<config, ctxDone, sent, taken, pc, sniffVars, wrapVars, cache, routeVars, handlerVars, eofLoss>>

Cancel ==
    /\ ~ctxDone /\ ctxDone' = TRUE
    /\ UNCHANGED <<config, srcVars, pc, sniffVars, wrapVars, cache, routeVars, handlerVars, history>>

(* One successful read of the source: a pipe gives all it holds, a          *)
(* connection some of it.                                                   *)
sourceData(to) ==
    /\ src # "errord" /\ taken < sent
    /\ to \in IF via = "Dispatch" THEN {sent} ELSE (taken + 1)..sent
    /\ taken' = to

sourceFails == src = "errord" \/ (src = "closed" /\ taken = sent)

-----------------------------------------------------------------------------
(* buf.TimeoutWrapperReader *)

startRead == done' = IF done = "nil" THEN "reading" ELSE done

(* The goroutine's ReadMultiBuffer.  A connection may hand over its last    *)
(* data together with the error that ends it.                               *)
WrapperRead ==
    /\ done = "reading" /\ done' = "ready"
    /\ \/ \E to \in 1..sent :
             /\ sourceData(to)
             /\ rmb' = Chunks(taken, to)
             /\ rerr' \in {FALSE, to = sent /\ src = "closed"}
       \/ /\ sourceFails
          /\ rmb' = <<>> /\ rerr' = TRUE
          /\ UNCHANGED taken
    /\ UNCHANGED <<config, ctxDone, sent, src, pc, sniffVars, cache, routeVars, handlerVars, history>>

-----------------------------------------------------------------------------
(* Dispatch and DispatchLink, up to sniffer() *)

Call ==
    /\ pc = "call"
    /\ \/ pc' = "refused"               \* the destination is not valid
       \/ pc' = IF ~request.enabled \/ request.metadataOnly THEN "apply" ELSE "loop"
    /\ UNCHANGED <<config, ctxDone, srcVars, sniffVars, wrapVars, cache, routeVars, handlerVars, history>>

(* The select of the loop, and the start of Cache. *)
Loop ==
    /\ pc = "loop"
    /\ IF ctxDone
       THEN pc' = "apply" /\ UNCHANGED done
       ELSE /\ pc' = "caching"
            /\ IF via = "DispatchLink" THEN startRead ELSE UNCHANGED done
    /\ UNCHANGED <<config, ctxDone, srcVars, sniffVars, rmb, rerr, cache, routeVars, handlerVars, history>>

(* Cache, under the lock. *)
merge(mb) == cache' = cache \o mb

(* Cache returns data after some of the time. *)
CacheData ==
    /\ pc = "caching" /\ pc' = "sniff"
    /\ \/ /\ via = "Dispatch"
          /\ sourceData(sent)
          /\ merge(Chunks(taken, sent))
          /\ UNCHANGED done
       \/ /\ via = "DispatchLink"
          /\ done = "ready" /\ ~rerr
          /\ done' = "nil"
          /\ merge(rmb)
          /\ UNCHANGED taken
    /\ cacheDeadline' \in 0..cacheDeadline
    /\ UNCHANGED <<config, ctxDone, sent, src, totalAttempt, sniffers, result, rmb, rerr,
                   routeVars, handlerVars, history>>

(* Cache returns an error: what came with it is not cached. *)
CacheFails ==
    /\ pc = "caching" /\ pc' = "apply"
    /\ \/ /\ via = "Dispatch" /\ sourceFails
          /\ UNCHANGED <<done, eofLoss>>
       \/ /\ via = "DispatchLink"
          /\ done = "ready" /\ rerr
          /\ done' = "nil"
          /\ eofLoss' = (eofLoss \/ rmb # <<>>)
    /\ UNCHANGED <<config, ctxDone, srcVars, sniffVars, rmb, rerr, cache, routeVars, handlerVars, interrupted>>

(* The deadline passes: ErrReadTimeout from a pipe; the wrapper returns     *)
(* nothing and no error, and its goroutine reads on.                        *)
CacheTimeout ==
    /\ pc = "caching"
    /\ pc' = IF via = "Dispatch" THEN "apply" ELSE "sniff"
    /\ cacheDeadline' = 0
    /\ UNCHANGED <<config, ctxDone, srcVars, totalAttempt, sniffers, result, wrapVars, cache,
                   routeVars, handlerVars, history>>

(* Sniffer.Sniff: the verdict of each protocol sniffer on the payload, the  *)
(* outcome, and the sniffers that are left.                                 *)
Verdicts == [{"http", "tls"} -> {"noClue", "more", "no", "yes"}]

settled(v) == SelectSeq(sniffers, LAMBDA s : v[s] \in {"more", "yes"})
pending(v) == SelectSeq(sniffers, LAMBDA s : v[s] = "noClue")

Sniff(v, outcome) ==
    LET first == settled(v)[1]
    IN  IF settled(v) # <<>>
        THEN IF v[first] = "more"
             THEN outcome = "more" /\ sniffers' = <<first>> /\ UNCHANGED result
             ELSE /\ outcome = "found" /\ UNCHANGED sniffers
                  /\ result' \in {r \in Results : r.protocol = first}
        ELSE /\ UNCHANGED result
             /\ IF pending(v) # <<>>
                THEN outcome = "noClue" /\ sniffers' = pending(v)
                ELSE outcome = "unknown" /\ UNCHANGED sniffers

(* Mutant of goOn: the time is not looked at. *)
goOn_NoDeadline(attempts) == pc' = IF attempts >= 2 THEN "apply" ELSE "loop"

goOn(attempts) ==
    pc' = IF attempts >= 2 \/ cacheDeadline = 0 THEN "apply" ELSE "loop"

SniffStep ==
    /\ pc = "sniff"
    /\ IF cache = <<>>
       THEN /\ totalAttempt' = totalAttempt + 1
            /\ goOn(totalAttempt')
            /\ UNCHANGED <<sniffers, result>>
       ELSE \E v \in Verdicts, outcome \in {"found", "unknown", "more", "noClue"} :
               /\ Sniff(v, outcome)
               /\ totalAttempt' = totalAttempt + (IF outcome = "noClue" THEN 1 ELSE 0)
               /\ IF outcome \in {"found", "unknown"} THEN pc' = "apply" ELSE goOn(totalAttempt')
    /\ UNCHANGED <<config, ctxDone, srcVars, cacheDeadline, wrapVars, cache, routeVars, handlerVars, history>>

-----------------------------------------------------------------------------
(* The destination, and routedDispatch *)

shouldOverride ==
    /\ result.domain # "" /\ result.domain \notin request.exclude
    /\ result.protocol \in request.override

ApplyResult ==
    /\ pc = "apply" /\ pc' = "route"
    /\ target' = IF shouldOverride /\ ~request.routeOnly THEN result.domain ELSE target
    /\ routeTarget' = IF shouldOverride /\ request.routeOnly THEN result.domain ELSE routeTarget
    /\ UNCHANGED <<config, ctxDone, srcVars, sniffVars, wrapVars, cache, asked, handler, handlerVars, history>>

(* cachedReader.Interrupt; without sniffing a pipe is interrupted directly, *)
(* and the reader of DispatchLink has no Interrupt.                         *)
interruptReader ==
    /\ cache' = <<>>
    /\ src' = IF via = "Dispatch" THEN "errord" ELSE src
    /\ interrupted' = (interrupted \/ cache # <<>> \/ via = "Dispatch")

closeLink ==
    /\ writer' = "closed"
    /\ interruptReader

handOver(h) ==
    /\ handler' = h
    /\ pc' = "handed" /\ hpc' = "read"
    /\ UNCHANGED <<writer, cache, src, interrupted>>

giveUp ==
    /\ pc' = "closed"
    /\ closeLink
    /\ UNCHANGED <<handler, hpc>>

(* Mutant of RouteTo: a tag nobody has falls through to the default. *)
RouteTo_Default(tag, found) ==
    /\ asked' = tag
    /\ IF found THEN handOver(tag) ELSE handOver("default")

(* A forced tag, or the tag of the rule that PickRoute found. *)
RouteTo(tag, found) ==
    /\ asked' = tag
    /\ IF found THEN handOver(tag) ELSE giveUp

RouteDefault(found) ==
    /\ UNCHANGED asked
    /\ IF found THEN handOver("default") ELSE giveUp

routedDispatch ==
    /\ pc = "route"
    /\ \E found \in BOOLEAN : RouteTo("out", found) \/ RouteDefault(found)
    /\ UNCHANGED <<config, ctxDone, sent, taken, sniffVars, wrapVars, target, routeTarget,
                   delivered, eofLoss>>

-----------------------------------------------------------------------------
(* The handler that took the link: a loop of ReadMultiBuffer. *)

readInternal ==
    /\ hpc = "read"
    /\ IF cache # <<>>
       THEN delivered' = delivered \o cache /\ cache' = <<>> /\ UNCHANGED hpc
       ELSE hpc' = "source" /\ UNCHANGED <<cache, delivered>>
    /\ UNCHANGED <<config, ctxDone, srcVars, pc, sniffVars, wrapVars, routeVars, writer, history>>

(* The pipe's ReadMultiBuffer. *)
readPipe ==
    /\ hpc = "source" /\ via = "Dispatch"
    /\ \/ /\ sourceData(sent)
          /\ delivered' = delivered \o Chunks(taken, sent)
          /\ hpc' = "read"
       \/ /\ sourceFails
          /\ hpc' = IF src = "closed" THEN "EOF" ELSE "failed"
          /\ UNCHANGED <<taken, delivered>>
    /\ UNCHANGED <<config, ctxDone, sent, src, pc, sniffVars, wrapVars, cache, routeVars, writer, history>>

(* Mutant of readWrapper: what the goroutine is reading is forgotten. *)
readWrapper_NewRead ==
    /\ hpc = "source" /\ via = "DispatchLink"
    /\ \/ \E to \in 1..sent :
             /\ sourceData(to)
             /\ delivered' = delivered \o Chunks(taken, to)
             /\ hpc' = "read"
       \/ /\ sourceFails
          /\ hpc' = IF src = "closed" THEN "EOF" ELSE "failed"
          /\ UNCHANGED <<taken, delivered>>
    /\ UNCHANGED <<config, ctxDone, sent, src, pc, sniffVars, wrapVars, cache, routeVars, writer, history>>

(* TimeoutWrapperReader.ReadMultiBuffer: it waits for the goroutine that is *)
(* reading, if there is one.  The caller writes the data it gets before it  *)
(* looks at the error (buf.Copy).                                           *)
readWrapper ==
    /\ hpc = "source" /\ via = "DispatchLink"
    /\ \/ /\ done = "ready" /\ done' = "nil"
          /\ delivered' = delivered \o rmb
          /\ hpc' = IF ~rerr THEN "read" ELSE IF src = "closed" THEN "EOF" ELSE "failed"
          /\ UNCHANGED taken
       \/ /\ done = "nil" /\ UNCHANGED done
          /\ \/ \E to \in 1..sent :
                   /\ sourceData(to)
                   /\ delivered' = delivered \o Chunks(taken, to)
                   /\ hpc' = "read"
             \/ /\ sourceFails
                /\ hpc' = IF src = "closed" THEN "EOF" ELSE "failed"
                /\ UNCHANGED <<taken, delivered>>
    /\ UNCHANGED <<config, ctxDone, sent, src, pc, sniffVars, rmb, rerr, cache, routeVars, writer, history>>

(* The handler gives up: it interrupts the reader and closes the writer. *)
HandlerStops ==
    /\ hpc \in {"read", "source"} /\ hpc' = "stopped"
    /\ closeLink
    /\ UNCHANGED <<config, ctxDone, sent, taken, pc, sniffVars, wrapVars, routeVars, delivered, eofLoss>>

Client == ClientSend \/ ClientEnd \/ Cancel
Cache == CacheData \/ CacheFails \/ CacheTimeout
Goroutine == Call \/ Loop \/ Cache \/ SniffStep \/ ApplyResult \/ routedDispatch
Reader == readInternal \/ readPipe \/ readWrapper

Next == Client \/ Goroutine \/ WrapperRead \/ Reader \/ HandlerStops

Spec == Init /\ [][Next]_vars

(* The goroutine goes on when it can, and the sniffing timer expires. *)
FairSpec == Spec /\ WF_vars(Goroutine)

-----------------------------------------------------------------------------
TypeOK ==
    /\ via \in {"Dispatch", "DispatchLink"} /\ request \in Requests
    /\ sent \in 0..MaxChunks /\ taken \in 0..sent
    /\ src \in {"open", "closed", "errord"}
    /\ pc \in {"call", "refused", "loop", "caching", "sniff", "apply", "route", "handed", "closed"}
    /\ cacheDeadline \in 0..Deadline /\ totalAttempt \in 0..2
    /\ result \in Results \cup {NoResult}
    /\ done \in {"nil", "reading", "ready"} /\ rerr \in BOOLEAN
    /\ hpc \in {"none", "read", "source", "EOF", "failed", "stopped"}
    /\ writer \in {"open", "closed"}

(* What sniffing read ahead is not lost, repeated or reordered: the handler *)
(* reads a prefix of what the client sent, wherever the deadline fell and   *)
(* whichever reader was left reading, and after EOF it has read all of it.  *)
(* The exception is a connection whose last read brings data and EOF        *)
(* together while the sniffer waits for it (CacheFails).                    *)
StreamIntact ==
    /\ IsPrefix(delivered, Chunks(0, sent))
    /\ hpc = "EOF" /\ ~interrupted /\ ~eofLoss => delivered = Chunks(0, sent)

(* "the traffic shouldn't be processed by default outbound if the specified *)
(* outbound tag doesn't exist (yet)": a link whose tag was not found is     *)
(* closed at both ends and nobody handles it, whatever sniffing cached.     *)
RuleIsObeyed ==
    /\ asked # "none" => handler \in {asked, "none"}
    /\ pc = "closed" => writer = "closed" /\ cache = <<>> /\ handler = "none"

(* Every dispatch is decided: a client that sends nothing, or data that     *)
(* sniffers find promising without end, holds it up until the deadline and  *)
(* no longer; then a handler has the link or it is closed.                  *)
DispatchIsDecided == <>(pc \in {"refused", "handed", "closed"})

=============================================================================
