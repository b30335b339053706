-------------------------- MODULE MessageDelivery --------------------------
(***************************************************************************)
(* How NexxusMessageQueueAdapter takes a message off a stage queue, runs   *)
(* the worker's handler on it and settles it, over connections that come   *)
(* and go and services that fail (message_queue/src/lib/                   *)
(* MessageQueueAdapter.ts, with the settlement primitives of RabbitMq.ts   *)
(* and the availability gate of worker/src/lib/BaseWorker.ts).             *)
(*                                                                         *)
(* One queue and one worker process.  A delivery is a message together     *)
(* with the channel it arrived on: after a reconnect the broker sends the  *)
(* same message again while the handler of the old delivery may still be   *)
(* running.  The broker and the client notice a broken connection          *)
(* separately.  When the broker's consumer really opens and closes is in   *)
(* module MqConsumers; here it follows consumingPaused with a delay.       *)
(***************************************************************************)
EXTENDS Naturals, FiniteSets

CONSTANTS Message,      \* the messages published to the queue
          Undecodable,  \* those whose payload deserializePayload rejects
          MaxRetries,   \* retryDelaysMs.length
          Prefetch,     \* config.prefetch
          MaxChannels,  \* bound: channels opened in a behaviour
          MaxOutages    \* bound: database / Redis outages in a behaviour

ASSUME DeliveryAssumption ==
    /\ Undecodable \subseteq Message
    /\ MaxRetries \in Nat
    /\ Prefetch \in Nat \ {0}
    /\ MaxChannels \in Nat \ {0}
    /\ MaxOutages \in Nat

Channel == 1..MaxChannels
NoChannel == 0          \* this.channel === null
Delivery == Message \X Channel
Msg(d) == d[1]
Chan(d) == d[2]

VARIABLES
    queue,      \* broker: messages ready for delivery
    unacked,    \* broker: per channel, the messages sent and not settled
    acked,      \* broker: messages removed by an ack
    dlq,        \* broker: messages rejected without requeue
    open,       \* broker: the channels it believes alive
    consuming,  \* broker: the client's current channel has a consumer
    channel,    \* client: this.channel
    opened,     \* client: how many channels it has opened
    tryInFlight, \* client: tryOnce is restoring consumers, its 'connect' to come
    paused,     \* client: consumingPaused
    pc,         \* client: where each delivery is in processDelivery
    retries,    \* client: processDelivery's local counter
    stop,       \* worker: progress of close(): `closing`, stopConsuming(), disconnect()
    svc,        \* worker: serviceState.db && serviceState.redis
    mq,         \* worker: serviceState.mq
    outages,    \* bound: outages so far
    succeeded,  \* history: messages some run of the handler resolved for
    terminal,   \* history: messages the handler rejected as terminal
    upFails     \* history: per delivery, failures while every service was up

brokerVars == <<queue, unacked, acked, dlq, open, consuming>>
connection == <<channel, opened, tryInFlight>>
clientVars == <<connection, paused, pc, retries, stop>>
workerVars == <<svc, mq, outages>>
history == <<succeeded, terminal, upFails>>
vars == <<brokerVars, clientVars, workerVars, history>>

\* "arriving": sent by the broker, not yet read by the client.
Pc == {"none", "arriving", "decoding", "handling", "awaitReady", "delay"}
Stop == {"no", "closing", "stopping", "returned", "timedOut", "closed", "closedLate"}

TypeOK ==
    /\ queue \in SUBSET Message
    /\ unacked \in [Channel -> SUBSET Message]
    /\ acked \in SUBSET Message
    /\ dlq \in SUBSET Message
    /\ open \in SUBSET Channel
    /\ consuming \in BOOLEAN
    /\ channel \in Channel \cup {NoChannel}
    /\ opened \in Channel
    /\ tryInFlight \in BOOLEAN
    /\ paused \in BOOLEAN
    /\ pc \in [Delivery -> Pc]
    /\ retries \in [Delivery -> 0..MaxRetries]
    /\ stop \in Stop
    /\ svc \in BOOLEAN
    /\ mq \in BOOLEAN
    /\ outages \in 0..MaxOutages
    /\ succeeded \in SUBSET Message
    /\ terminal \in SUBSET Message
    /\ upFails \in [Delivery -> 0..(MaxRetries + 1)]

----------------------------------------------------------------------------
(* Derived state *)

closing == stop # "no"
stopping == stop \notin {"no", "closing"}
isAvailable == svc /\ mq
isLive(d) == Chan(d) = channel
inFlight == {d \in Delivery : pc[d] \notin {"none", "arriving"}}
Waiting == {d \in Delivery : pc[d] \in {"awaitReady", "delay"}}

\* Mutant of Held: the outcome goes to whatever channel is there now.
HeldOnAnyChannel(d) == \E c \in Channel : Msg(d) \in unacked[c]

\* The broker still holds d's message on a channel the client believes live.
Held(d) == isLive(d) /\ Msg(d) \in unacked[Chan(d)]

Init ==
    /\ queue = Message
    /\ unacked = [c \in Channel |-> {}]
    /\ acked = {} /\ dlq = {}
    /\ open = {1} /\ consuming = FALSE
    /\ channel = 1 /\ opened = 1 /\ tryInFlight = FALSE
    /\ paused = FALSE
    /\ pc = [d \in Delivery |-> "none"]
    /\ retries = [d \in Delivery |-> 0]
    /\ stop = "no"
    /\ svc = TRUE /\ mq = TRUE /\ outages = 0
    /\ succeeded = {} /\ terminal = {}
    /\ upFails = [d \in Delivery |-> 0]

----------------------------------------------------------------------------
(* Settlement: handleDelivery's tail.  The outcome reaches the broker only *)
(* on the channel the message came on; a broker that has dropped that      *)
(* channel has the message back in the queue and ignores it.               *)

Settle(d, outcome) ==
    LET m == Msg(d) IN
    /\ pc' = [pc EXCEPT ![d] = "none"]
    /\ unacked' = IF Held(d) THEN [unacked EXCEPT ![Chan(d)] = @ \ {m}] ELSE unacked
    /\ queue' = IF Held(d) /\ outcome = "requeue" THEN queue \cup {m} ELSE queue
    /\ acked' = IF Held(d) /\ outcome = "ack" THEN acked \cup {m} ELSE acked
    /\ dlq' = IF Held(d) /\ outcome = "deadLetter" THEN dlq \cup {m} ELSE dlq

KeepBroker == UNCHANGED <<queue, unacked, acked, dlq>>

GoTo(d, where) ==
    /\ pc' = [pc EXCEPT ![d] = where]
    /\ KeepBroker

\* A retry that is due: the delivery's channel may have gone meanwhile.
RetryOrRequeue(d) ==
    IF isLive(d) THEN GoTo(d, "handling") ELSE Settle(d, "requeue")

----------------------------------------------------------------------------
(* The broker *)

\* The consumer follows the flag: doConsume while not paused ...
BrokerConsume ==
    /\ channel # NoChannel /\ channel \in open
    /\ ~paused /\ ~consuming
    /\ consuming' = TRUE
    /\ UNCHANGED <<queue, unacked, acked, dlq, open, clientVars, workerVars, history>>

\* ... and doCancelAll while paused.
BrokerCancel ==
    /\ consuming /\ paused
    /\ consuming' = FALSE
    /\ UNCHANGED <<queue, unacked, acked, dlq, open, clientVars, workerVars, history>>

BrokerSend(m) ==
    /\ consuming /\ channel \in open
    /\ m \in queue
    /\ Cardinality(unacked[channel]) < Prefetch
    /\ pc[<<m, channel>>] = "none"
    /\ queue' = queue \ {m}
    /\ unacked' = [unacked EXCEPT ![channel] = @ \cup {m}]
    /\ pc' = [pc EXCEPT ![<<m, channel>>] = "arriving"]
    /\ UNCHANGED <<acked, dlq, open, consuming, connection, paused, retries,
                   stop, workerVars, history>>

\* The broker gives a connection up and takes back what it had sent on it.
BrokerDropsChannel(c) ==
    /\ c \in open
    /\ c = channel => opened < MaxChannels
    /\ open' = open \ {c}
    /\ queue' = queue \cup unacked[c]
    /\ unacked' = [unacked EXCEPT ![c] = {}]
    /\ consuming' = (consuming /\ c # channel)
    /\ UNCHANGED <<acked, dlq, clientVars, workerVars, history>>

----------------------------------------------------------------------------
(* The client: one delivery *)

HandleDelivery(d) ==
    /\ pc[d] = "arriving"
    /\ IF stopping THEN Settle(d, "requeue") ELSE GoTo(d, "decoding")
    /\ retries' = [retries EXCEPT ![d] = 0]
    /\ upFails' = [upFails EXCEPT ![d] = 0]
    /\ UNCHANGED <<open, consuming, connection, paused, stop, workerVars,
                   succeeded, terminal>>

\* Mutant of Decode: a payload that cannot be decoded is acked away.
DecodeAcks(d) ==
    /\ pc[d] = "decoding"
    /\ IF Msg(d) \in Undecodable THEN Settle(d, "ack") ELSE GoTo(d, "handling")
    /\ UNCHANGED <<open, consuming, connection, paused, retries, stop,
                   workerVars, history>>

Decode(d) ==
    /\ pc[d] = "decoding"
    /\ IF Msg(d) \in Undecodable THEN Settle(d, "deadLetter") ELSE GoTo(d, "handling")
    /\ UNCHANGED <<open, consuming, connection, paused, retries, stop,
                   workerVars, history>>

HandlerResolves(d) ==
    /\ pc[d] = "handling"
    /\ Settle(d, "ack")
    /\ succeeded' = succeeded \cup {Msg(d)}
    /\ UNCHANGED <<open, consuming, connection, paused, retries, stop,
                   workerVars, terminal, upFails>>

\* Mutant of HeldForServices: an outage uses retries up.
NeverHeld == FALSE

\* !options.isReady(), the worker's isAvailable.
HeldForServices == ~isAvailable

RetriesExhausted(d) == retries[d] = MaxRetries

\* The catch block of processDelivery, in its order.
HandlerRejects(d, isTerminal) ==
    /\ pc[d] = "handling"
    /\ \/ /\ stopping \/ ~isLive(d)
          /\ Settle(d, "requeue")
          /\ UNCHANGED retries
       \/ /\ ~stopping /\ isLive(d)
          /\ isTerminal
          /\ Settle(d, "deadLetter")
          /\ UNCHANGED retries
       \/ /\ ~stopping /\ isLive(d) /\ ~isTerminal
          /\ HeldForServices
          /\ GoTo(d, "awaitReady")
          /\ UNCHANGED retries
       \/ /\ ~stopping /\ isLive(d) /\ ~isTerminal /\ ~HeldForServices
          /\ RetriesExhausted(d)
          /\ Settle(d, "deadLetter")
          /\ UNCHANGED retries
       \/ /\ ~stopping /\ isLive(d) /\ ~isTerminal /\ ~HeldForServices
          /\ ~RetriesExhausted(d)
          /\ GoTo(d, "delay")
          /\ retries' = [retries EXCEPT ![d] = @ + 1]
    /\ terminal' = IF isTerminal THEN terminal \cup {Msg(d)} ELSE terminal
    /\ upFails' = IF isAvailable /\ isLive(d) /\ ~isTerminal /\ ~stopping
                  THEN [upFails EXCEPT ![d] = @ + 1] ELSE upFails
    /\ UNCHANGED <<open, consuming, connection, paused, stop, workerVars, succeeded>>

DelayElapsed(d) ==
    /\ pc[d] = "delay"
    /\ RetryOrRequeue(d)
    /\ UNCHANGED <<open, consuming, connection, paused, retries, stop,
                   workerVars, history>>

----------------------------------------------------------------------------
(* Availability: markServiceDown, markServiceUp and what they wake *)

\* Every whenReady() resolves; a delivery whose channel is gone ends there.
WakeReady ==
    pc' = [d \in Delivery |->
              IF pc[d] = "awaitReady"
              THEN IF isLive(d) THEN "handling" ELSE "none"
              ELSE pc[d]]

\* Mutants of AllConnected: resume as soon as one service is back; forget the
\* deliveries that wait for the services.
OneConnected(up) == WakeReady /\ paused' = stopping
WaitersForgotten(up) ==
    /\ paused' = IF up THEN stopping ELSE paused
    /\ UNCHANGED pc

\* What markServiceUp does once it has set the flag.
AllConnected(up) ==
    IF up
    THEN /\ WakeReady
         /\ paused' = stopping
    ELSE UNCHANGED <<pc, paused>>

\* What markServiceDown makes of consumingPaused: it pauses when the service was
\* the first to go, and leaves a closing worker alone.
Gate == paused \/ (isAvailable /\ ~closing)

ServiceDown ==
    /\ svc /\ outages < MaxOutages
    /\ svc' = FALSE
    /\ outages' = outages + 1
    /\ paused' = Gate
    /\ UNCHANGED <<brokerVars, connection, pc, retries, stop, mq, history>>

ServiceUp ==
    /\ ~svc
    /\ svc' = TRUE
    /\ AllConnected(mq)
    /\ UNCHANGED <<brokerVars, connection, retries, stop, mq, outages, history>>

----------------------------------------------------------------------------
(* The connection *)

\* What was on the wire is gone with the socket.
LoseArriving ==
    pc' = [d \in Delivery |-> IF isLive(d) /\ pc[d] = "arriving" THEN "none" ELSE pc[d]]

\* The client's 'close' handler, then onConnectionLost and its 'disconnect'.
ConnectionLost ==
    /\ channel # NoChannel /\ opened < MaxChannels
    /\ channel' = NoChannel
    /\ consuming' = FALSE
    /\ mq' = FALSE
    /\ paused' = Gate
    /\ LoseArriving
    /\ UNCHANGED <<queue, unacked, acked, dlq, open, opened, tryInFlight, retries, stop, svc,
                   outages, history>>

\* tryOnce's emit('connect') reaches markServiceUp('mq').
Connected ==
    /\ mq' = TRUE
    /\ IF mq THEN UNCHANGED <<pc, paused>> ELSE AllConnected(svc)

\* tryOnce: doConnect succeeded while the connection is still wanted.  With
\* consumers to restore, 'connect' has to wait for them.
Reconnect ==
    /\ channel = NoChannel /\ opened < MaxChannels
    /\ ~tryInFlight
    /\ stop \notin {"closed", "closedLate"}
    /\ opened' = opened + 1
    /\ channel' = opened + 1
    /\ open' = open \cup {opened + 1}
    /\ \/ paused /\ Connected /\ UNCHANGED tryInFlight
       \/ ~paused /\ tryInFlight' = TRUE /\ UNCHANGED <<mq, pc, paused>>
    /\ UNCHANGED <<queue, unacked, acked, dlq, consuming, retries, stop, svc, outages, history>>

\* Once they are, though the connection may be lost again by then.
ConnectEvent ==
    /\ tryInFlight
    /\ tryInFlight' = FALSE
    /\ Connected
    /\ UNCHANGED <<brokerVars, channel, opened, retries, stop, svc, outages, history>>

----------------------------------------------------------------------------
(* Shutdown: close() sets `closing`, leaves the hub and the management      *)
(* server, and only then calls stopConsuming() and disconnect().            *)

Close ==
    /\ stop = "no"
    /\ stop' = "closing"
    /\ UNCHANGED <<brokerVars, connection, paused, pc, retries, workerVars, history>>

\* Mutant of StopConsuming: waits are left to run out.
StopKeepsWaiters ==
    /\ stop = "closing"
    /\ stop' = "stopping"
    /\ paused' = TRUE
    /\ UNCHANGED <<brokerVars, connection, pc, retries, workerVars, history>>

\* Every wait is cut short and its message handed back.
StopConsuming ==
    LET back == {Msg(d) : d \in {w \in Waiting : Held(w)}} IN
    /\ stop = "closing"
    /\ stop' = "stopping"
    /\ paused' = TRUE
    /\ pc' = [d \in Delivery |-> IF d \in Waiting THEN "none" ELSE pc[d]]
    /\ queue' = queue \cup back
    /\ unacked' = [c \in Channel |-> IF c = channel THEN unacked[c] \ back ELSE unacked[c]]
    /\ UNCHANGED <<acked, dlq, open, consuming, connection, retries, workerVars, history>>

\* Mutant of StopReturns: does not wait for what is being processed.
StopReturnsAtOnce ==
    /\ stop = "stopping"
    /\ stop' = "returned"
    /\ UNCHANGED <<brokerVars, connection, paused, pc, retries, workerVars, history>>

\* Every in-flight delivery is settled; doCancelAll may have found nothing to
\* cancel, and what still arrives goes straight back ...
StopReturns ==
    /\ stop = "stopping" /\ inFlight = {}
    /\ stop' = "returned"
    /\ UNCHANGED <<brokerVars, connection, paused, pc, retries, workerVars, history>>

\* ... or timeoutMs passed first.
StopTimesOut ==
    /\ stop = "stopping" /\ inFlight # {}
    /\ stop' = "timedOut"
    /\ UNCHANGED <<brokerVars, connection, paused, pc, retries, workerVars, history>>

\* disconnect(), which close() calls once stopConsuming has returned.
Disconnect ==
    /\ stop \in {"returned", "timedOut"}
    /\ stop' = IF stop = "returned" THEN "closed" ELSE "closedLate"
    /\ channel' = NoChannel
    /\ mq' = (mq /\ channel = NoChannel)
    /\ open' = open \ {channel}
    /\ queue' = IF channel \in open THEN queue \cup unacked[channel] ELSE queue
    /\ unacked' = [c \in Channel |-> IF c = channel THEN {} ELSE unacked[c]]
    /\ LoseArriving
    /\ UNCHANGED <<acked, dlq, consuming, opened, tryInFlight, paused, retries, svc, outages, history>>

----------------------------------------------------------------------------
DeliveryStep(d) ==
    \/ HandleDelivery(d)
    \/ Decode(d)
    \/ HandlerResolves(d)
    \/ \E isTerminal \in BOOLEAN : HandlerRejects(d, isTerminal)
    \/ DelayElapsed(d)

Next ==
    \/ BrokerConsume \/ BrokerCancel
    \/ \E m \in Message : BrokerSend(m)
    \/ \E c \in Channel : BrokerDropsChannel(c)
    \/ \E d \in Delivery : DeliveryStep(d)
    \/ ServiceDown \/ ServiceUp
    \/ ConnectionLost \/ Reconnect \/ ConnectEvent
    \/ Close \/ StopConsuming \/ StopReturns \/ StopTimesOut \/ Disconnect

Spec == Init /\ [][Next]_vars

\* The broker and the event loop make progress, a handler ends, a service that
\* is down comes back, a client notices a connection its broker gave up.
Fairness ==
    /\ WF_vars(BrokerConsume) /\ WF_vars(BrokerCancel)
    /\ \A m \in Message : SF_vars(BrokerSend(m))
    /\ \A c \in Channel : WF_vars(c # channel /\ BrokerDropsChannel(c))
    /\ \A d \in Delivery : WF_vars(DeliveryStep(d))
    /\ WF_vars(ServiceUp)
    /\ WF_vars(channel \notin open /\ ConnectionLost)
    /\ WF_vars(Reconnect) /\ WF_vars(ConnectEvent)
    /\ WF_vars(StopConsuming) /\ WF_vars(StopReturns \/ StopTimesOut) /\ WF_vars(Disconnect)

FairSpec == Spec /\ Fairness

----------------------------------------------------------------------------
(* Properties *)

Queue == INSTANCE StageQueue
         WITH ready <- queue, taken <- UNION {unacked[c] : c \in Channel},
              done <- acked, dead <- dlq, ok <- succeeded

\* The adapter over a broker whose connections break keeps the at-least-once
\* contract of a stage queue: every settlement, loss and shutdown is one of the
\* abstract queue's steps, and acked and dead-lettered are final.
ImplementsStageQueue == Queue!Spec

\* No message is lost or doubled by reconnects, retries and shutdown: each is
\* ready, held on exactly one channel, acked or dead-lettered, never two of them
\* (isLive in doConsume, handleDelivery's single settlement).
Conservation ==
    /\ \A m \in Message : \/ m \in queue \cup acked \cup dlq
                         \/ \E c \in Channel : m \in unacked[c]
    /\ queue \cap acked = {} /\ queue \cap dlq = {} /\ acked \cap dlq = {}
    /\ \A c \in Channel : unacked[c] \cap (queue \cup acked \cup dlq) = {}
    /\ \A c, e \in Channel : c # e => unacked[c] \cap unacked[e] = {}

\* A message leaves its queue for good by an ack only if a run of the handler
\* resolved for it, and one that cannot be decoded never does
\* (processDelivery's 'ack' outcome).
AckedWasHandled == acked \subseteq succeeded \ Undecodable

\* A message is dead-lettered only if it cannot be decoded, the handler said it
\* is hopeless, or one delivery of it failed MaxRetries + 1 times with every
\* service up: an outage never uses retries up (processDelivery's catch block).
DeadLetterJustified ==
    \A m \in dlq :
        \/ m \in Undecodable
        \/ m \in terminal
        \/ \E c \in Channel : upFails[<<m, c>>] = MaxRetries + 1

\* Why the two above are preserved.  A delivery's retry counter is the number of
\* its failures with every service up; nothing undecodable reaches the handler;
\* what is on the wire is on the live channel and not settled yet; a channel the
\* broker gave up holds nothing.
DeliveryInvariant ==
    /\ \A d \in Delivery :
          /\ pc[d] \in {"handling", "awaitReady", "delay"} =>
                upFails[d] = retries[d] /\ Msg(d) \notin Undecodable
          /\ pc[d] = "decoding" => upFails[d] = 0 /\ retries[d] = 0
          /\ pc[d] = "arriving" => isLive(d) /\ Msg(d) \notin acked \cup dlq
    /\ \A c \in Channel \ open : unacked[c] = {}

\* stopConsuming() that returned without timing out left no message being
\* processed, also none of an earlier connection, so close() may go on to close
\* the services the handlers use.
CleanStop == stop \in {"returned", "closed"} => inFlight = {}

\* Once stopConsuming() is called no failed message is tried again, not even when
\* the wait it was in ends at the same time (stopWaiters).
NoRetryAfterStop ==
    [][stopping => \A d \in Delivery :
           pc'[d] = "handling" => pc[d] \in {"handling", "decoding"}]_vars

\* The consumption gate agrees with the services, whatever order they fail and
\* recover in: paused exactly while one of them is down, and for good once
\* stopConsuming() is called (markServiceDown's edge test, markServiceUp).  A
\* worker that is closing no longer pauses, but never stays paused by mistake.
GateFollowsAvailability ==
    /\ stopping => paused
    /\ paused /\ ~stopping => ~isAvailable
    /\ ~closing /\ ~isAvailable => paused

\* Whenever every service is up, consumption is on and no delivery waits for them, whichever
\* service came back last and whatever became of the connection meanwhile: no wake-up is
\* missed (markServiceUp's whenReady waiters, resumeConsuming).
WaitsOnlyInOutage ==
    isAvailable => (~paused \/ stopping) /\ \A d \in Delivery : pc[d] # "awaitReady"

\* While the worker runs every message is eventually acked or dead-lettered: no
\* delivery is left in whenReady() or delay() and none is stranded on a channel
\* that closed.
EventuallySettled == \A m \in Message : <>(m \in acked \cup dlq \/ stopping)

============================================================================
