# A TLA+ model of the proxy core

This directory models the concurrent core of the server in `src/fork/xray-core`
(a reduced Xray: VLESS inbound with Vision, freedom outbound, mux, reverse).
Every module is translated from the Go source; TLC checks small instances, and
TLAPS proves the main invariants for every value of the constants.
`PROJECT.json` lists the components, the runs, the mutants, the theorems, the
hazards, and for every definition the lines it stands for. Paths below are
relative to `src/fork/xray-core`.

## 1. The system

A connection passes through these parts, in this order:

1. `app/proxyman/inbound` accepts it: a `tcpWorker` runs one goroutine per
   connection, a `udpWorker` sorts datagrams by source into connections.
2. `proxy/vless/inbound` reads the request (with `proxy/vless/encryption` and
   the Vision flow of `proxy/proxy.go` around it) and calls the dispatcher.
3. `app/dispatcher` makes a link out of two pipes (`transport/pipe`), may sniff
   the first bytes, chooses an outbound handler and starts it.
4. `app/proxyman/outbound` runs the handler's proxy (`proxy/freedom`) or hands
   the link to a mux client (`common/mux`). A mux server on the inbound side
   takes such a connection apart again; `app/reverse` uses mux in the other
   direction.
5. `proxy/freedom` dials (`transport/internet`, with happy eyeballs) and
   relays both directions as two tasks of `task.Run`, ended by an
   `ActivityTimer`.

What the parts share:

| part | state | operations | what makes it hard |
|---|---|---|---|
| `transport/pipe` | buffered bytes, open/closed/errored, two one-slot signals, an injected error | read (plain, timeout), write, Close, Interrupt, ReturnAnError, Recover | signals are sent outside the lock; several readers and writers; the limit is tested before the write |
| `common/task` Run | a semaphore, a one-slot error channel | start tasks, collect, return | the caller returns while tasks still run; select takes any ready case |
| `common/task` Periodic | running flag, timer | Start, step, Close | Execute runs outside the lock |
| `common/signal` ActivityTimer | timeout, timer, finished | Update, SetTimeout, fire | a timer that fired waits for the lock |
| `common/mux` SessionManager | session table, count, closed | Allocate, Add, Remove, Close, idle check | links are attached after the table entry; ticks use sizes read earlier |
| `common/mux` workers | frame streams, sessions at both ends | dispatch, copy, frame loops, monitors | one connection carries many sessions; loops write to what they read from; the connection dies at any point |
| `common/mux` XUDP | global map of links with a status | take over, expire, close | a UDP link moves between connections in several unlocked steps |
| `udpWorker` | table of connections, checker | packet callback, handler, clean, Close | flag and table change separately; keys are reused |
| udp `Dispatcher` | current link, its timer | Dispatch, RemoveRay, reader, timer | four ways to end a link without a common lock |
| `proxy/freedom` | a dial loop, two copies, a timer | dial, retry, copy, time out, return | cancellation, failures and timeouts in both directions |
| happy eyeballs | tries, results, timer | try, receive, cancel | late successes, limits, a panic that must stay unreachable |
| `core.Instance`, managers | features, handlers | register, resolve, start, close | callbacks in registration order; partial starts |
| `app/dispatcher` | cached first bytes | sniff, route, link | a reader shared by two goroutines under a timeout |
| Vision | padding and TLS filter state | read, write, pad, splice | both ends must switch to direct copy at the same byte |
| VLESS inbound, encryption | users, tickets, nonces | handshake, 0-RTT, rekey | replays, expiry, counter boundaries |
| `app/reverse` | bridge and portal workers | heartbeat, drain, pick | workers disappear while they are picked |

Parts without concurrent state of their own (configuration parsing, value
types, interfaces, header formats) are listed in `PROJECT.json` as not modelled,
each with its reason.

## 2. Modules

| module | code | state and actions |
|---|---|---|
| `Channel` | (abstract) | what a pipe promises: a FIFO that is open, closed or errored |
| `Pipe` | `transport/pipe/pipe.go`, `common/signal/notifier.go` | content as a sequence of bytes, each named by its write; a call is at `try` (under the lock), `signal` (after it), `wait` (in the select) or `idle` |
| `Periodic` | `common/task/periodic.go` | chains of step and timer; each critical section is one action |
| `TaskRun` | `common/task/task.go` | tokens in `s`, the slot `done`, the two loops of Run, N goroutines |
| `ActivityTimer` | `common/signal/timer.go` | a clock in ticks, the timers ever armed, users inside Update and SetTimeout |
| `SessionManager` | `common/mux/session.go`, `client.go` | the table, the counter modulo `IDSpace`, the sessions' flags, the monitor loop |
| `Mux` | `common/mux/client.go`, `server.go`, `writer.go` | two instances of `SessionManager` joined by two bounded streams of frames; a copy goroutine per session and side, a frame loop per side |
| `Xudp` | `common/mux/server.go` (New with a global ID), `session.go` | one entry of the XUDP map, its links, the attempts to take it over, step by step |
| `UdpWorker` | `app/proxyman/inbound/worker.go`, `transport/internet/udp/hub.go` | the connection table, handlers, and `Periodic` as the checker |
| `UdpDispatcher` | `transport/internet/udp/dispatcher.go` | the entries, their timer and reading goroutine, the response cache |
| `Freedom` | `proxy/freedom/freedom.go`, `common/buf/copy.go`, the end of `outbound/handler.go` Dispatch | the retry loop, two copy tasks inside an instance of `TaskRun`, the link's two ends |
| `Dispatcher` | `app/dispatcher/default.go`, `sniffer.go`, `TimeoutWrapperReader` of `common/buf/io.go` | one connection: the sniffing loop, the goroutine that reads ahead, the cache, routing, the handler's reads |
| `MuxPicker` | `ClientManager` and `IncrementalWorkerPicker` of `common/mux/client.go` | the worker list, the load of each worker, the callers of Dispatch, `Periodic` as the cleanup task |
| `Reverse` | `app/reverse/portal.go`, `bridge.go` | both ends of each mux connection: the bridge's monitor and timers, the portal's heartbeats, picker and cleanup |
| `SortIPs` | `sortIPs` of `transport/internet/happy_eyeballs.go` | a pure operator |
| `HappyEyeballs` | `TcpRaceDial`, `tcpTryDial` | the tries, the result channel, the loop's timer |

`X`'s proofs are in `XProofs`, and `MCX` holds the values TLC uses for `X`.
Three MC modules hold two components each: `MCPath` (`ActivityTimer` and
`Dispatcher`), `MCManagers` (`SessionManager` and `MuxPicker`), `MCUdp`
(`UdpWorker` and `UdpDispatcher`). The two share no state, so their product
would show nothing more: a variable `which`, chosen in the initial state, says
which of them moves. These modules are not compositions.
Composition: `Freedom` runs `TaskRun`, `Mux` runs two `SessionManager`s,
`UdpWorker` and `MuxPicker` run `Periodic`, `HappyEyeballs` uses `SortIPs`, and
`Pipe` implements `Channel`.

Conventions. What the code does under one lock is one action; whatever it does
between two locks, sends or receives is an action of its own. A goroutine's
place is a string named after what it is about to do. A definition named
`X_Something` is a mutant of `X`: the code with a plausible mistake, which the
property named beside it in `PROJECT.json` detects.

## 3. What the runs check

| run | instance | what it shows |
|---|---|---|
| `pipe` | 1 reader, 2 writers, limit 0, two writes of 1 byte each, with and without discard | nothing is lost or repeated; the limit is overshot by at most one write; a refused write leaves nothing; no wake-up is lost; everyone is released at the end; every write returns if somebody reads; `Pipe` implements `Channel` (order, EOF only when drained) |
| `managers` | 4 sessions, 4 IDs, 2 at a time, 3 in all; 2 callers, 2 workers of 1 session at a time and 2 in all, 3 tries | table and sessions agree; the strategy's limits hold however Dispatch calls interleave; an undisturbed Dispatch fails at its second try only at a worker whose manager is closed and that is not yet done; a worker that is not done stays listed, once |
| `mux_copy` | 2 sessions, up to 3 items in one direction or 1 in each, streams of 2 frames | no item reaches another session; a session that ends well was delivered completely |
| `mux_ends` | 1 session and one kind of mishap (readers that leave, connection, dispatch, either monitor) at any point, or 2 sessions, one closed and one whose reader left; streams of 1 frame | managers that closed left no session; when one end of a session is closed the other is closed in the end, unless the two loops wait for each other for good |
| `mux_notify` | 2 sessions, streams of 1 frame | violation, see section 6 |
| `xudp` | 2 attempts, 2 links that may end, 1 packet; 3 attempts, 1 link | at most one open session per link; a link in use is not interrupted, unless an overtaken worker has closed another's session; no entry stays reserved |
| `udp` | 1 source, 2 connections, 3 checker chains; 2 callers, 2 entries, a cache of 1 | an ended handler leaves no entry; after Close all timers die out; a dispatcher entry is terminated once, none outlives its place, and one that ends is wound up |
| `udp_panic` | 1 source, 3 connections | violation, see section 6 |
| `freedom` | 1 item per direction, 5 dial attempts | no connection leaks; nil means complete; EOF at the client means the whole response, a cancellation, or a last dial that failed with EOF; everything ends |
| `happy_eyeballs` | all answers of 2 to 6 addresses, interleave 0 to 3, 3 tries at a time | families take turns as configured; the panic is unreachable; nothing leaks; failure only after every address; the race ends |
| `path` | timer: 2 users, timeouts 0, 1, 2 ticks, 4 timers; dispatcher: 2 chunks, a deadline of 1 tick, every sniffing request | the timer's function runs once; no timer fires before its time is over, counted from the last Update; an idle connection is cancelled in time; what sniffing read ahead reaches the handler in order; a rule's missing tag leads to nobody; every dispatch is decided |
| `reverse` | 2 connections, draining after 1 session, 1 break | the bridge lets go only of connections that the portal drains; the portal has a fresh connection again and again |

Bounds. They are chosen so that the cases the hazards name occur, and the
mutants show that they do: each property is violated on the same instance by
the code with one mistake. The pipe needs two writers for a
stolen wake-up and for two writes that wait at once, and a limit that one write
passes; what several readers could do to each other is left to `PipeProofs`,
whose theorems are for any number of them. Four session IDs
stand for 2^16 and the largest total limit below it for 128, so the counter
reaches its last value. One or two frames
fill a stream. What the users of the two sessions do in one behaviour of `Mux`
(which sessions open, how much each end writes, which ends close or leave, which
mishap may happen) is a plan, chosen from a set in the initial state: `MCMux`
lists the sets. In the same way a behaviour of `Xudp` has its own bounds. A third
attempt is what it takes to take a link from a session that a worker of an
earlier attempt is closing. Three chains are
what one Close and one restart can leave of a checker. Six addresses give each
family more than one turn of up to three. Two chunks let one be cached and one be
read late. Draining after 1 session stands for 256; one break per behaviour is
enough to leave the bridge with a connection that only its timer ends, but
several breaks in a row are not covered. Bounds that appear in guards are
constants with the comment "bound".

Fairness. Weak fairness stands for the Go scheduler: a goroutine that can go on
does. It is assumed for goroutines inside a call, for timers that are armed and
for system dials (which have a timeout), never for users: nobody need write,
read, close, or send. `EveryWriteReturns` also assumes a copy loop at the
reading end, which every link has. In `Mux` the monitors have strong fairness
at their wait, because a tick and the worker's end both leave it, and the
output of a session takes a payload in the end, which `EverythingEnds` of
`Freedom` justifies: the handler behind it copies, times out or lets go. In
`Dispatcher` only the dispatching goroutine is fair. In `Reverse` the periodic
tasks, the goroutines and the bridge's timers are, and three things are assumed
of the surroundings, without which `PortalIsServed` does not hold: users'
sessions end, opening a connection succeeds in the end, and the portal takes a
connection up within the 60 seconds of the bridge's timer.

Deadlock is not checked where the instance may stop by design: bounded inputs
run out, connections end.

## 4. What is proved

All proofs hold for every value of the constants, under the assumptions named
in the modules (`PipeAssumption`, `TimerAssumption`, `SessionManagerAssumption`)
or stated in the theorem.

* `PipeProofs`. `TypeCorrect`; `PipeConservation` (content is conserved, from
  the type invariant: each of the operations moves bytes between four
  sequences); `PipeEOF` (with the strengthening that an error once reported
  stays true); `PipeBounded` (with: the argument of a blocked writer is no
  longer than MaxWrite); `PipeRefused` (with: bytes in the pipe carry the number
  of a write that was accepted); `PipeSignals` (`NoLostSignal`, for readers and
  writers together: a waiting goroutine is justified by a full slot, a goroutine about
  to signal or one about to look); `PipeRefinement`: initial states map to
  initial states and each step to a step of `Channel` or a stutter.
* `PeriodicProofs`. `PeriodicType`, `PeriodicAlive` (running implies an active
  chain), and `PeriodicSingle`: one chain as long as nobody calls Close, with
  the strengthening that an active chain is running or about to give up.
* `TaskRunProofs`. For any number of tasks: `TaskRunNil`, by counting tokens
  (`s` plus those collected plus those held by tasks is N, so N collected tokens
  leave nobody holding one), and `TaskRunErr`.
* `ActivityTimerProofs`. `TimerOnce`, `TimerFiresWhenIdle` (with: an armed timer is
  the one that the last Update armed) and `TimerIdle` for any
  number of users, timers and timeouts.
* `SessionManagerProofs`. `SessionsTable` and `SessionsLimits` for any set of
  sessions, any concurrency limit and any total limit below the ID space. The
  invariant adds that the counter equals the number of IDs handed out, so that
  the next one is fresh. The hypothesis on the limit is needed: see section 6.

Only model-checked: everything under fairness; `Mux`, `Xudp`, `UdpWorker`,
`UdpDispatcher`, `Freedom`, `HappyEyeballs`, `Dispatcher`, `MuxPicker`,
`Reverse` and the operator `sortIPs`, whose loop is a fold and would need induction over data.

## 5. Plan

In this order; each line is a module, or several that share a run.

1. `core.Instance` and the handler managers: registration, dependency callbacks
   that must run once when all they ask for is there (core/xray.go:279), Start
   and Close with partial failure.
2. Vision (`proxy/proxy.go`): padding as a codec against its reference, and the
   reader and writer that must leave it at the same byte (proxy.go:204); buffers
   and their pool with ownership.
3. VLESS inbound and `proxy/vless/encryption`: tickets, replays, nonces, and the
   record counter that forces a new key (encryption/common.go:152).
4. Listeners and the log queue.
5. What `Dispatcher` and `Reverse` leave out (section 7).
6. Proofs: `HappyEyeballs` (no panic, no leak), `UdpDispatcher` (once, no
   orphan), `Freedom` (no leak, honest end), `MuxPicker`, `Dispatcher`.

Runs stay few: components that share a composed module are checked there
(`Periodic` inside `UdpWorker` and `MuxPicker`, `TaskRun` inside `Freedom`).

## 6. Where the code and its comments disagree

Two runs show what TLC finds against a statement of the code:

* `udp_panic`. `udpWorker.callback` panics if the checker's Start fails
  (worker.go:336). Start fails when `clean` finds an empty table. The handler of
  an old connection deletes the entry of its key without looking whose it is
  (worker.go:380-382), so the entry just made can be gone when Start runs
  `clean`.
* `mux_notify`. Both frame loops send "Notify remote peer to close this
  session." (client.go:360, server.go:309) from the loop that reads the
  connection. With both streams full neither notification is sent and neither
  loop reads. `ClosedTogether` of `mux_ends` makes an exception for this state,
  and a plan that reaches it is part of that run.

Smaller ones, seen while modelling and left out of the runs:

* `Periodic`: a Close and a Start during Execute leave two timers
  (periodic.go:37); a Start between a failing Execute and `running = false` is
  lost (periodic.go:32). `PeriodicSingle` states where the first cannot happen.
* `Session`: a manager closed between Allocate and the assignment of the link
  (client.go:323-328) marks the session closed with nothing to release.
* `ActivityTimer`: an Update that gets the lock after the timer fired and before
  `finish` has it arms a new timer, and `finish` cancels the connection all the
  same (timer.go:31). `FiresOnlyWhenIdle` says no more than that the firing
  itself was due.
* `Handler.Dispatch` (handler.go:245) closes the link when the cause of the error
  is io.EOF. A dial may fail with it (a TLS handshake that is cut short), and the
  client then sees the end of an empty response; `CloseIsHonest` names the case.
* The idle tick closes the manager before it cancels doneCtx (client.go:245-246).
  In between the picker offers the worker and Allocate refuses; a caller may
  spend its tries on it. `TwoTriesSuffice` names the case.
* XUDP: x.Mux is read again after the entry became Active (server.go:258-262). A
  worker that was overtaken there adds the session of the other worker to its
  own manager and copies from it too: the link has one open session and two
  goroutines that read it. When such a worker ends, its manager closes the
  session without the lock of the session's own manager; a third attempt may
  pass this Close half-way and have its entry marked Expiring by the other half
  while the link is in use. `InUseIsNotCut` names the case.
* XUDP: the error put in to stop an old reader may be withdrawn before the
  reader looks (session.go:188-193), and two goroutines then read one link.
* `SessionManager`: with a total limit of 0, as the portal has, the counter
  wraps at 2^16 and Allocate may overwrite a live session; the theorems assume a
  limit.
* `cachedReader.Cache` drops data that a reader returns together with an error
  (default.go:38-41). `StreamIntact` excepts that case by a history variable.
* `pickInternal` returns the worker that gave up its place to the available one
  (client.go:95-97), which may be full; the next try makes up for it.

## 7. Limits of the models

Bytes carry no content beyond their identity, and a frame no encoding. Memory
races on plain fields are modelled as reads and writes in any order. The
downlink that `freedom` hands to `splice` is not in `Freedom`: there the copy
loop is the one of `common/buf`. In `Xudp` nobody
sees the session without a manager that x.Mux is between server.go:243 and 249
(an overtaken worker that read it there would fail on its missing manager). The
clock is in `ActivityTimer` only; elsewhere
a timer that is armed may fire at any moment. `Dispatcher` leaves out the
traffic counters and fake DNS (no engine is registered in this build); sniffers,
router and handler lookups may give any answer. `Reverse` leaves out control
messages that do not parse and the Close of bridge and portal, and takes pick
and dispatch of a user's connection as one step.
