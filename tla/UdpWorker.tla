----------------------------- MODULE UdpWorker -----------------------------
(***************************************************************************)
(* app/proxyman/inbound/worker.go (udpWorker) with transport/internet/udp   *)
(* (Hub): datagrams are sorted by source into connections, each connection  *)
(* has a goroutine that runs the proxy, and a periodic checker removes the  *)
(* ones that have been idle for two minutes.                                *)
(*                                                                         *)
(* Actors: the hub's read loop, handlePackets (one goroutine, which also    *)
(* runs the checker's first step inside Start), the checker's timers, one   *)
(* handler goroutine per connection, and the owner, who may Close.  The     *)
(* checker is module Periodic with Execute = clean.                         *)
(***************************************************************************)
EXTENDS Naturals, Sequences

CONSTANTS
    IDs,            \* connIDs, that is sources
    MaxConns,       \* bound: connections ever made
    CacheSize,      \* capacity of hub.cache
    MayIdle,        \* whether connections may be idle for two minutes
    Chains, MayClose

ASSUME UdpWorkerAssumption ==
    /\ MaxConns \in Nat /\ CacheSize \in Nat \ {0}
    /\ MayIdle \in BOOLEAN /\ MayClose \in BOOLEAN
    /\ 0 \notin Chains

Conns == 1..MaxConns

VARIABLES
    cache,          \* hub.cache: the sources of the packets in it
    hubOpen,        \* the socket is open
    activeConn,     \* per connID: its connection, 0 if there is none
    made,           \* connections made so far
    connID,         \* per connection: its connID
    done,           \* per connection: doneCtx is cancelled
    inactive,       \* per connection
    idle,           \* per connection: lastActivityTime is over two minutes ago
    hpc,            \* per connection: where its handler is
    cpc,            \* where handlePackets is: "receive", "Start" (about to call),
                    \* "step" (inside), "panic"
    cconn, cchain,  \* the connection and the chain it is busy with
    running, timer, chain               \* the checker

Checker == INSTANCE Periodic

checkerVars == <<running, timer, chain>>
connVars == <<activeConn, made, connID, done, inactive, idle>>
cbVars == <<cpc, cconn, cchain>>
vars == <<cache, hubOpen, connVars, hpc, cbVars, checkerVars>>

Init ==
    /\ cache = <<>> /\ hubOpen = TRUE
    /\ activeConn = [a \in IDs |-> 0]
    /\ made = 0
    /\ connID = [c \in Conns |-> CHOOSE a \in IDs : TRUE]
    /\ done = [c \in Conns |-> FALSE]
    /\ inactive = [c \in Conns |-> FALSE]
    /\ idle = [c \in Conns |-> FALSE]
    /\ hpc = [c \in Conns |-> "none"]
    /\ cpc = "receive" /\ cconn = 0 /\ cchain = 0
    /\ Checker!Init

(* Hub.start: a packet is read; it is dropped when the cache is full. *)
hubStart(a) ==
    /\ hubOpen /\ cpc # "panic"
    /\ Len(cache) < CacheSize
    /\ cache' = Append(cache, a)
    /\ UNCHANGED <<hubOpen, connVars, hpc, cbVars, checkerVars>>

(* The table has a connection for the connID, and it is not closed. *)
found(a) == activeConn[a] # 0 /\ ~done[activeConn[a]]

(* getConnection, existing: the packet goes into the connection's pipe. *)
getExisting(a) ==
    /\ found(a)
    /\ idle' = [idle EXCEPT ![activeConn[a]] = FALSE]
    /\ UNCHANGED <<activeConn, made, connID, done, inactive, cbVars>>

(* getConnection, new: handlePackets goes on to start the checker. *)
getNew(a) ==
    /\ ~found(a)
    /\ made < MaxConns
    /\ made' = made + 1
    /\ activeConn' = [activeConn EXCEPT ![a] = made + 1]
    /\ connID' = [connID EXCEPT ![made + 1] = a]
    /\ cpc' = "Start" /\ cconn' = made + 1
    /\ UNCHANGED <<done, inactive, idle, cchain>>

callback ==
    /\ cpc = "receive" /\ cache # <<>>
    /\ cache' = Tail(cache)
    /\ getExisting(Head(cache)) \/ getNew(Head(cache))
    /\ UNCHANGED <<hubOpen, hpc, checkerVars>>

(* go func() { ... } at the end of callback. *)
goHandler ==
    /\ hpc' = [hpc EXCEPT ![cconn] = "Process"]
    /\ cpc' = "receive" /\ cconn' = 0 /\ cchain' = 0

(* w.checker.Start(): a no-op while it runs, otherwise handlePackets itself *)
(* runs the first step.                                                     *)
callStart ==
    /\ cpc = "Start" /\ Checker!Start
    /\ IF running
         THEN goHandler
         ELSE /\ \E k \in Chains : chain'[k] # chain[k] /\ cchain' = k
              /\ cpc' = "step"
              /\ UNCHANGED <<cconn, hpc>>
    /\ UNCHANGED <<cache, hubOpen, connVars>>

(* Start returns to handlePackets when its step ends. *)
startReturns(k) ==
    IF k = cchain /\ chain'[k] \in {"armed", "none"}
      THEN IF chain[k] = "failed"
             THEN cpc' = "panic" /\ UNCHANGED <<cconn, cchain, hpc>>
             ELSE goHandler
      ELSE UNCHANGED <<cbVars, hpc>>

checkerStep(k) ==
    /\ cpc # "panic"
    /\ Checker!Fire(k) \/ Checker!Check(k) \/ Checker!Reschedule(k) \/ Checker!GiveUp(k)
    /\ startReturns(k)
    /\ UNCHANGED <<cache, hubOpen, connVars>>

(* Mutant of clean: the entry is marked but not deleted. *)
clean_KeepsEntry(k) ==
    /\ cpc # "panic"
    /\ LET old == {c \in Conns : activeConn[connID[c]] = c /\ idle[c]} IN
         IF \A a \in IDs : activeConn[a] = 0
           THEN Checker!ExecuteFail(k) /\ UNCHANGED connVars
           ELSE /\ Checker!ExecutePass(k)
                /\ inactive' = [c \in Conns |-> inactive[c] \/ c \in old]
                /\ done' = [c \in Conns |-> done[c] \/ c \in old]
                /\ UNCHANGED <<activeConn, made, connID, idle>>
    /\ UNCHANGED <<cache, hubOpen, hpc, cbVars>>

(* clean, under the worker's lock. *)
clean(k) ==
    /\ cpc # "panic"
    /\ LET old == {c \in Conns : activeConn[connID[c]] = c /\ idle[c]} IN
         IF \A a \in IDs : activeConn[a] = 0
           THEN Checker!ExecuteFail(k) /\ UNCHANGED connVars
           ELSE /\ Checker!ExecutePass(k)
                /\ inactive' = [c \in Conns |-> inactive[c] \/ c \in old]
                /\ activeConn' = [a \in IDs |->
                     IF activeConn[a] \in old /\ ~inactive[activeConn[a]]
                       THEN 0 ELSE activeConn[a]]
                /\ done' = [c \in Conns |-> done[c] \/ c \in old]
                /\ UNCHANGED <<made, connID, idle>>
    /\ UNCHANGED <<cache, hubOpen, hpc, cbVars>>

(* Two minutes without a packet either way. *)
elapse(c) ==
    /\ MayIdle /\ cpc # "panic" /\ c <= made
    /\ idle' = [idle EXCEPT ![c] = TRUE]
    /\ UNCHANGED <<cache, hubOpen, activeConn, made, connID, done, inactive, hpc,
                   cbVars, checkerVars>>

(* A datagram is sent or taken by the proxy: updateActivity. *)
updateActivity(c) ==
    /\ hpc[c] = "Process" /\ cpc # "panic"
    /\ idle' = [idle EXCEPT ![c] = FALSE]
    /\ UNCHANGED <<cache, hubOpen, activeConn, made, connID, done, inactive, hpc,
                   cbVars, checkerVars>>

Goto(c, from, to) == hpc[c] = from /\ hpc' = [hpc EXCEPT ![c] = to] /\ cpc # "panic"

(* w.proxy.Process returns, then conn.Close(). *)
handlerClose(c) ==
    /\ Goto(c, "Process", "test")
    /\ done' = [done EXCEPT ![c] = TRUE]
    /\ UNCHANGED <<cache, hubOpen, activeConn, made, connID, inactive, idle,
                   cbVars, checkerVars>>

(* if !conn.inactive: read without the worker's lock. *)
handlerTest(c) ==
    /\ Goto(c, "test", IF inactive[c] THEN "over" ELSE "setInactive")
    /\ UNCHANGED <<cache, hubOpen, connVars, cbVars, checkerVars>>

handlerSetInactive(c) ==
    /\ Goto(c, "setInactive", "removeConn")
    /\ inactive' = [inactive EXCEPT ![c] = TRUE]
    /\ UNCHANGED <<cache, hubOpen, activeConn, made, connID, done, idle,
                   cbVars, checkerVars>>

(* Mutant of removeConn: the entry stays. *)
removeConn_Nothing(c) ==
    /\ Goto(c, "removeConn", "over")
    /\ UNCHANGED <<cache, hubOpen, connVars, cbVars, checkerVars>>

(* removeConn deletes whatever connection the connID has now. *)
removeConn(c) ==
    /\ Goto(c, "removeConn", "over")
    /\ activeConn' = [activeConn EXCEPT ![connID[c]] = 0]
    /\ UNCHANGED <<cache, hubOpen, made, connID, done, inactive, idle,
                   cbVars, checkerVars>>

(* Close: the hub and the checker; connections end by themselves. *)
Close ==
    /\ cpc # "panic"
    /\ hubOpen' = FALSE
    /\ Checker!Close
    /\ UNCHANGED <<cache, connVars, hpc, cbVars>>

Next ==
    \/ \E a \in IDs : hubStart(a)
    \/ callback
    \/ callStart
    \/ \E k \in Chains : checkerStep(k) \/ clean(k)
    \/ \E c \in Conns :
          \/ elapse(c)
          \/ updateActivity(c)
          \/ handlerClose(c)
          \/ handlerTest(c)
          \/ handlerSetInactive(c)
          \/ removeConn(c)
    \/ Close

Spec == Init /\ [][Next]_vars

(* The checker's timers fire, and its steps and clean run to their end. *)
FairSpec == Spec /\ \A k \in Chains : WF_vars(checkerStep(k) \/ clean(k))
-----------------------------------------------------------------------------
(* A connection whose handler has ended is not in the table: neither the    *)
(* checker nor the handler leaves the removal to the other when both meet   *)
(* an idle connection at the same time.                                     *)
NoDeadEntry == \A a \in IDs : activeConn[a] # 0 => hpc[activeConn[a]] # "over"

(* After Close the worker goes quiet.  A callback that is under way starts  *)
(* the checker again, and a stopped timer may leave another one behind, but *)
(* once the connections have ended every timer of the checker dies out.     *)
ShutdownIsComplete ==
    <>[](~hubOpen /\ cpc = "receive" /\ \A c \in Conns : hpc[c] \in {"none", "over"})
        => <>[](Checker!Active = {})

(* callback panics if the checker's first run fails, and so takes it that   *)
(* clean finds the connection that getConnection has just put in the table. *)
StartNeverPanics == cpc # "panic"

=============================================================================
