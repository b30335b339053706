----------------------------- MODULE ApiService -----------------------------
(***************************************************************************)
(* The life of an API process: start-up once its upstream services are     *)
(* connected, the gate that turns requests away while one is down, and the *)
(* shutdown (api/src/lib/Api.ts); the liveness pings that tell it whether  *)
(* the database is there (database/src/lib/ElasticsearchDb.ts); and its    *)
(* entry in the Hub's registry (core/src/lib/HubClient.ts).  A worker      *)
(* process has the same link to the Hub (worker/src/lib/BaseWorker.ts).    *)
(*                                                                         *)
(* Calls to the database are pings and requests of handlers; each takes a  *)
(* slot from the moment it is sent until its answer is acted upon, and may *)
(* be overtaken by others.                                                 *)
(*                                                                         *)
(* A process also serves the requests of Accounts; no name here is one of  *)
(* that module's, so that ApiProofs can be about both.                     *)
(***************************************************************************)
EXTENDS Naturals, FiniteSets

CONSTANTS Slot,       \* bound: calls to the database in flight
          Others,     \* the other upstream services: message queue, Redis
          MaxOutages, \* bound: outages, of any service
          MaxLosses,  \* bound: POSTs to the Hub that fail, or whose answer is lost
          MaxWipes,   \* bound: restarts of the Hub
          noCall

ASSUME ServiceAssumption ==
    /\ noCall \notin Slot /\ "db" \notin Others
    /\ MaxOutages \in Nat /\ MaxLosses \in Nat /\ MaxWipes \in Nat

Service == Others \cup {"db"}

VARIABLES
    phase,     \* of init and close
    up,        \* serviceState
    ready,     \* waitUntilAllConnected has resolved
    reachable, \* the database answers
    connected, \* the adapter's view of it
    stopped,   \* disconnect() was called
    timer,     \* the ping timer is set
    current,   \* the ping the current loop waits for
    call,      \* per slot: free, or what the call is for and how it went
    outages,
    entry,     \* the Hub lists the node
    attempt,   \* a registration in hand: none, build, sent, handled, lost
    nodeId,    \* set by the first registration, for close() to unregister
    registered,\* the first registration has succeeded
    loop,      \* the re-register timer is set
    disposed,  \* the Hub client is disposed of
    stray,     \* POSTs that the client has given up and the Hub has yet to handle
    losses, wipes,
    leaky      \* history: a POST was out when close() began, also one given up, the first
               \* registration was not through, or the DELETE failed

database == <<reachable, connected, stopped, timer, current, call, outages>>
hub == <<entry, stray, attempt, nodeId, registered, loop, disposed, losses, wipes, leaky>>
processVars == <<phase, up, ready, database, hub>>

Free == [for |-> "none", answer |-> "none"]
Sent(what) == [for |-> what, answer |-> "none"]
Phases == {"off", "connecting", "load", "loading", "listen", "manage", "running", "delete",
           "unmanage", "drain", "disconnect", "closed", "failed"}
Serving == {"manage", "running", "delete", "unmanage"}

ProcessTypeOK ==
    /\ phase \in Phases
    /\ up \in [Service -> BOOLEAN]
    /\ {ready, reachable, connected, stopped, timer, entry, nodeId, registered, loop, disposed, leaky} \subseteq BOOLEAN
    /\ current \in Slot \cup {noCall}
    /\ current # noCall => call[current].for = "ping"
    /\ call \in [Slot -> [for : {"none", "ping", "load", "request"}, answer : {"none", "ok", "failed"}]]
    /\ attempt \in {"none", "build", "sent", "handled", "lost"}
    /\ outages \in 0..MaxOutages /\ stray \in 0..MaxLosses /\ losses \in 0..MaxLosses /\ wipes \in 0..MaxWipes

ProcessInit ==
    /\ phase = "off"
    /\ up = [s \in Service |-> FALSE] /\ ready = FALSE
    /\ reachable \in BOOLEAN
    /\ connected = FALSE /\ stopped = FALSE /\ timer = FALSE /\ current = noCall
    /\ call = [c \in Slot |-> Free]
    /\ outages = 0
    /\ entry = FALSE /\ attempt = "none" /\ nodeId = FALSE /\ registered = FALSE /\ loop = FALSE /\ disposed = FALSE
    /\ stray = 0 /\ losses = 0 /\ wipes = 0 /\ leaky = FALSE

IsAvailable(u) == \A s \in Service : u[s]
----------------------------------------------------------------------------
(* Upstream services *)

MarkServiceUp(s) ==
    /\ up' = [up EXCEPT ![s] = TRUE]
    /\ ready' = (ready \/ IsAvailable(up'))

MarkServiceDown(s) ==
    /\ up' = [up EXCEPT ![s] = FALSE]
    /\ UNCHANGED ready

OutageOf(s) ==
    /\ up[s] /\ outages < MaxOutages
    /\ outages' = outages + 1
    /\ MarkServiceDown(s)
    /\ UNCHANGED <<phase, reachable, connected, stopped, timer, current, call, hub>>

Connects(s) ==
    /\ ~up[s] /\ phase \notin {"off", "closed"}
    /\ MarkServiceUp(s)
    /\ UNCHANGED <<phase, database, hub>>

DatabaseOutage ==
    /\ reachable /\ outages < MaxOutages
    /\ outages' = outages + 1
    /\ reachable' = FALSE
    /\ UNCHANGED <<phase, up, ready, connected, stopped, timer, current, call, hub>>

DatabaseReturns ==
    /\ ~reachable
    /\ reachable' = TRUE
    /\ UNCHANGED <<phase, up, ready, connected, stopped, timer, current, call, outages, hub>>
----------------------------------------------------------------------------
(* The ping loop *)

\* Mutant of StartPingLoop: without the guard.
StartPingLoopAlways(c) ==
    /\ call' = [call EXCEPT ![c] = Sent("ping")]
    /\ current' = c /\ timer' = TRUE

\* startPingLoop with a first tick at once, whose ping takes slot c; the loop before it is
\* forgotten, its ping is not.
StartPingLoop(c) ==
    IF stopped THEN call' = [call EXCEPT ![c] = Free] /\ current' = noCall /\ UNCHANGED timer
    ELSE call' = [call EXCEPT ![c] = Sent("ping")] /\ current' = c /\ timer' = TRUE

PingTick(c) ==
    /\ timer /\ current = noCall /\ call[c] = Free
    /\ call' = [call EXCEPT ![c] = Sent("ping")]
    /\ current' = c
    /\ UNCHANGED <<phase, up, ready, reachable, connected, stopped, timer, outages, hub>>

\* The call gets its answer, or times out; the process has yet to act on it.
Answered(c) ==
    /\ call[c] # Free /\ call[c].answer = "none"
    /\ call' = [call EXCEPT ![c].answer = IF reachable THEN "ok" ELSE "failed"]
    /\ UNCHANGED <<phase, up, ready, reachable, connected, stopped, timer, current, outages, hub>>

\* Mutant of Settled: a ping that fails leaves the loop waiting for it.
SettledOnSuccess(c) ==
    /\ call' = [call EXCEPT ![c] = Free]
    /\ current' = IF current = c /\ call[c].answer = "ok" THEN noCall ELSE current
    /\ UNCHANGED timer

\* The loop's own ping is over (`finally`).
Settled(c) ==
    /\ call' = [call EXCEPT ![c] = Free]
    /\ current' = IF current = c THEN noCall ELSE current
    /\ UNCHANGED timer

\* loadApps goes on or rejects init; any other call has nothing to do with the phase.
AfterCall(c) ==
    phase' = IF call[c].for # "load" THEN phase
             ELSE IF call[c].answer = "ok" THEN "listen" ELSE "failed"

\* The tick and esRequestWrapper: markConnected or markDisconnected, which on a change
\* emit the event and start the loop with the other interval.
ActOn(c) ==
    /\ call[c].answer # "none"
    /\ AfterCall(c)
    /\ CASE call[c].answer = "ok" /\ ~connected ->
              connected' = TRUE /\ MarkServiceUp("db") /\ StartPingLoop(c)
         [] call[c].answer = "failed" /\ connected ->
              connected' = FALSE /\ MarkServiceDown("db") /\ StartPingLoop(c)
         [] OTHER -> Settled(c) /\ UNCHANGED <<connected, up, ready>>
    /\ UNCHANGED <<reachable, stopped, outages, hub>>
----------------------------------------------------------------------------
(* init *)

Boot(c) ==
    /\ phase = "off"
    /\ phase' = "connecting"
    /\ StartPingLoop(c)
    /\ UNCHANGED <<up, ready, reachable, connected, stopped, outages, hub>>

AllConnected ==
    /\ phase = "connecting" /\ ready
    /\ phase' = "load"
    /\ UNCHANGED <<up, ready, database, hub>>

LoadApps(c) ==
    /\ phase = "load" /\ call[c] = Free
    /\ phase' = "loading"
    /\ call' = [call EXCEPT ![c] = Sent("load")]
    /\ UNCHANGED <<up, ready, reachable, connected, stopped, timer, current, outages, hub>>

\* The HTTP server listens, or its port is taken.
Listening ==
    /\ phase = "listen"
    /\ phase' \in {"manage", "failed"}
    /\ UNCHANGED <<up, ready, database, hub>>

\* Then the management server; then the first registration starts.
ManagementListening ==
    /\ phase = "manage"
    /\ \/ phase' = "running" /\ attempt' = "build"
       \/ phase' = "failed" /\ UNCHANGED attempt
    /\ UNCHANGED <<up, ready, database, stray, entry, nodeId, registered, loop, disposed, losses, wipes, leaky>>

\* A request passes the gate and uses the database.
Serve(c) ==
    /\ phase \in Serving /\ IsAvailable(up) /\ call[c] = Free
    /\ call' = [call EXCEPT ![c] = Sent("request")]
    /\ UNCHANGED <<phase, up, ready, reachable, connected, stopped, timer, current, outages, hub>>
----------------------------------------------------------------------------
(* The Hub *)

\* Mutant of Unwanted: no look at the flag.
NeverUnwanted == FALSE

\* Only a re-registration looks again whether the client is disposed of.
Unwanted == registered /\ disposed

\* The payload is built, with a snapshot of the statistics.
Post ==
    /\ attempt = "build"
    /\ attempt' = IF Unwanted THEN "none" ELSE "sent"
    /\ UNCHANGED <<phase, up, ready, database, stray, entry, nodeId, registered, loop, disposed, losses, wipes, leaky>>

HubHandles ==
    /\ attempt = "sent"
    /\ attempt' = "handled" /\ entry' = TRUE
    /\ UNCHANGED <<phase, up, ready, database, stray, nodeId, registered, loop, disposed, losses, wipes, leaky>>

\* Refused, or its answer lost, or given up after the time-out while it is still on its way.
PostFails ==
    /\ attempt \in {"sent", "handled"} /\ losses < MaxLosses
    /\ attempt' = "lost" /\ losses' = losses + 1
    /\ stray' = stray \/ (attempt = "sent" /\ stray' = stray + 1)
    /\ UNCHANGED <<phase, up, ready, database, entry, nodeId, registered, loop, disposed, wipes, leaky>>

HubHandlesLate ==
    /\ stray > 0
    /\ stray' = stray - 1 /\ entry' = TRUE
    /\ UNCHANGED <<phase, up, ready, database, attempt, nodeId, registered, loop, disposed, losses, wipes, leaky>>

\* Mutant of StartLoop: the first registration is the only one.
StartNoLoop == FALSE

StartLoop == ~disposed

\* startReregisterLoop, after the first success.
Registered ==
    /\ attempt = "handled"
    /\ attempt' = "none" /\ registered' = TRUE
    /\ IF registered THEN UNCHANGED <<nodeId, loop>> ELSE nodeId' = TRUE /\ loop' = StartLoop
    /\ UNCHANGED <<phase, up, ready, database, stray, entry, disposed, losses, wipes, leaky>>

\* retryUntilSuccess after its sleep, or a tick that waits for the next.
Retry ==
    /\ attempt = "lost"
    /\ attempt' = IF registered \/ disposed THEN "none" ELSE "build"
    /\ UNCHANGED <<phase, up, ready, database, stray, entry, nodeId, registered, loop, disposed, losses, wipes, leaky>>

Reregister ==
    /\ loop /\ attempt = "none"
    /\ attempt' = "build"
    /\ UNCHANGED <<phase, up, ready, database, stray, entry, nodeId, registered, loop, disposed, losses, wipes, leaky>>

HubRestarts ==
    /\ entry /\ wipes < MaxWipes
    /\ entry' = FALSE /\ wipes' = wipes + 1
    /\ UNCHANGED <<phase, up, ready, database, stray, attempt, nodeId, registered, loop, disposed, losses, leaky>>
----------------------------------------------------------------------------
(* close *)

dispose == disposed' = TRUE /\ loop' = FALSE

\* dispose, then at once the test whether there is anything to unregister.
Close ==
    /\ phase = "running"
    /\ phase' = IF nodeId THEN "delete" ELSE "unmanage"
    /\ dispose
    /\ leaky' = (stray > 0 \/ attempt \in {"sent", "handled"} \/ (attempt # "none" /\ ~registered))
    /\ UNCHANGED <<up, ready, database, stray, entry, attempt, nodeId, registered, losses, wipes>>

\* unregisterFromHub: one try, failures are swallowed.
Unregister ==
    /\ phase = "delete"
    /\ phase' = "unmanage"
    /\ nodeId' = FALSE
    /\ \/ entry' = FALSE /\ UNCHANGED leaky
       \/ leaky' = TRUE /\ UNCHANGED entry
    /\ UNCHANGED <<up, ready, database, stray, attempt, registered, loop, disposed, losses, wipes>>

ManagementClosed ==
    /\ phase = "unmanage"
    /\ phase' = "drain"
    /\ UNCHANGED <<up, ready, database, hub>>

Drained == \A c \in Slot : call[c].for # "request"

disconnect == stopped' = TRUE /\ timer' = FALSE

\* The HTTP server has closed.
Drain ==
    /\ phase = "drain" /\ Drained
    /\ phase' = "disconnect"
    /\ disconnect
    /\ UNCHANGED <<up, ready, reachable, connected, current, call, outages, hub>>

Closed ==
    /\ phase = "disconnect"
    /\ phase' = "closed"
    /\ up' = [s \in Service |-> s = "db" /\ up[s]]
    /\ UNCHANGED <<ready, database, hub>>
----------------------------------------------------------------------------
ProcessNext ==
    \/ \E s \in Others : OutageOf(s) \/ Connects(s)
    \/ DatabaseOutage \/ DatabaseReturns
    \/ \E c \in Slot : PingTick(c) \/ Answered(c) \/ ActOn(c) \/ Boot(c) \/ LoadApps(c) \/ Serve(c)
    \/ AllConnected \/ Listening \/ ManagementListening
    \/ Post \/ HubHandles \/ PostFails \/ HubHandlesLate \/ Registered \/ Retry \/ Reregister \/ HubRestarts
    \/ Close \/ Unregister \/ ManagementClosed \/ Drain \/ Closed

\* Timers fire, calls are answered or time out, and what is done next is done.
Fairness ==
    /\ WF_processVars(\E c \in Slot : PingTick(c))
    /\ \A c \in Slot : WF_processVars(Answered(c)) /\ WF_processVars(ActOn(c))
    /\ WF_processVars(Post) /\ WF_processVars(HubHandles) /\ WF_processVars(Registered)
    /\ WF_processVars(Retry) /\ WF_processVars(Reregister)

ProcessSpec == ProcessInit /\ [][ProcessNext]_processVars /\ Fairness
----------------------------------------------------------------------------
(* Properties *)

\* After disconnect() an answer that was still on its way starts no new ping.
StopsPinging == [][stopped => \A c \in Slot : call'[c] = Sent("ping") => call[c] = Sent("ping")]_processVars

\* From start to disconnect() the ping loop is alive: its timer is set, what it waits for is
\* the ping of a call still in flight, also after another loop took over while one was out,
\* and the gate shows the adapter's view of the database.
PingLoopLives ==
    phase # "off" /\ ~stopped =>
      /\ timer /\ (current # noCall => call[current].for = "ping")
      /\ up["db"] = connected

\* Answers that overtake each other, and loops that start while the ping of another is out,
\* do not keep the gate from following the database: once it stays up, or down, so does the gate.
GateFollowsDatabase ==
    /\ <>[](reachable /\ timer) => <>[](up["db"] \/ stopped)
    /\ <>[](~reachable /\ timer) => <>[](~up["db"] \/ stopped)

\* A node that runs is listed, again after the Hub has restarted.
StaysListed == phase = "running" /\ ~entry ~> entry \/ phase # "running"

\* While a node runs and the Hub does not list it, an attempt is in hand or a tick will make one.
NodeIsKept == phase = "running" /\ ~entry => attempt # "none" \/ loop

\* A node that has closed is not listed, unless a POST was out when it began to, also one that it
\* had given up, the first registration was not through, or the DELETE failed.
IsUnlisted == phase = "closed" /\ ~leaky => ~entry
=============================================================================
