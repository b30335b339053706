---------------------------- MODULE MqConsumers ----------------------------
(***************************************************************************)
(* The consumer a worker keeps on its queue: consumeMessages, pause,       *)
(* resume, stop and the restoring of consumers after a reconnect           *)
(* (message_queue/src/lib/MessageQueueAdapter.ts), with the round trips    *)
(* to the broker that doConsume and doCancelAll await (RabbitMq.ts), under *)
(* the gate of worker/src/lib/BaseWorker.ts.  The messages themselves are  *)
(* in module MessageDelivery.                                              *)
(*                                                                         *)
(* A call on a channel is answered after those made before it.  What an    *)
(* async function does between two awaits is one step: here, everything    *)
(* from an answer or an event to the next call.                            *)
(***************************************************************************)
EXTENDS Naturals, Sequences

CONSTANTS MaxTags,      \* bound: consumer tags in use at a time
          MaxOutages,   \* bound: database / Redis outages
          MaxLosses     \* bound: connections lost

ASSUME ConsumerAssumption ==
    /\ MaxTags \in Nat \ {0}
    /\ MaxOutages \in Nat /\ MaxLosses \in Nat

NoTag == 0
Tag == 1..MaxTags

VARIABLES
    volatile,   \* the queue is a slot queue: exclusive and auto-delete
    conn,       \* client: "down"; "broken", the channel closed and the connection about to
    registered, \* client: the consumers map has the queue
    paused,     \* client: consumingPaused
    tag,        \* client: consumerTags
    calls,      \* client: the calls waiting for an answer, in order
    restoring,  \* client: tryOnce waits for doConsume
    stop,       \* worker: progress of close(); "failed" when init() rejected
    svc,        \* worker: serviceState.db && serviceState.redis
    mq,         \* worker: serviceState.mq
    live,       \* broker: the consumers on the queue
    exists,     \* broker: the queue exists
    crowded,    \* history: three pauses overlapped, and no resume has started afresh since
    outages, losses

vars == <<volatile, conn, registered, paused, tag, calls, restoring, stop, svc, mq, live,
          exists, crowded, outages, losses>>

\* `again`: the tag this cancel was made for has left the map, so the loop over
\* the map goes on to a tag that came in since.
Call == [kind : {"consume"}, who : {"initial", "resume", "restore"}]
        \cup [kind : {"cancel"}, who : {"pause", "stop"}, tag : Tag, again : BOOLEAN]
Stop == {"no", "closing", "cancelling", "drained", "closed", "failed"}

TypeOK ==
    /\ volatile \in BOOLEAN
    /\ conn \in {"up", "broken", "down"}
    /\ registered \in BOOLEAN
    /\ paused \in BOOLEAN
    /\ tag \in Tag \cup {NoTag}
    /\ calls \in Seq(Call)
    /\ restoring \in BOOLEAN
    /\ stop \in Stop
    /\ svc \in BOOLEAN /\ mq \in BOOLEAN
    /\ live \subseteq Tag
    /\ exists \in BOOLEAN /\ crowded \in BOOLEAN
    /\ outages \in 0..MaxOutages /\ losses \in 0..MaxLosses

connected == conn # "down"
closing == stop \notin {"no", "failed"}
stopping == stop \in {"cancelling", "drained", "closed"}
running == stop \notin {"closed", "failed"}
isAvailable == svc /\ mq

\* init() at its call of consumeMessages: every service is up and the slot queue,
\* if it is one, declared.
Init ==
    /\ volatile \in BOOLEAN
    /\ conn = "up" /\ svc = TRUE /\ mq = TRUE
    /\ registered = FALSE /\ paused = FALSE /\ tag = NoTag
    /\ calls = <<>> /\ restoring = FALSE
    /\ stop = "no"
    /\ live = {} /\ exists = TRUE /\ crowded = FALSE
    /\ outages = 0 /\ losses = 0

----------------------------------------------------------------------------
(* What the client does with the calls `c` that are waiting                *)

Consume(who) == [kind |-> "consume", who |-> who]
Cancel(who, t) == [kind |-> "cancel", who |-> who, tag |-> t, again |-> FALSE]

doCancelAll(who, c) == IF tag = NoTag THEN c ELSE Append(c, Cancel(who, tag))

Cancels(c) == {i \in DOMAIN c : c[i].kind = "cancel"}

pauseConsuming(c) ==
    /\ paused' = TRUE
    /\ calls' = IF connected /\ ~paused THEN doCancelAll("pause", c) ELSE c
    /\ crowded' = (crowded \/ (calls' # c /\ \E i, j \in Cancels(c) : i # j))

\* Mutant of resumeConsuming: leaves the consumers to the next reconnect.
ResumeFlagOnly(c) ==
    /\ paused' = (paused /\ stopping)
    /\ calls' = c
    /\ crowded' = crowded

resumeConsuming(c) ==
    /\ paused' = (paused /\ stopping)
    /\ calls' = IF paused /\ ~stopping /\ conn' # "down" /\ registered
                THEN Append(c, Consume("resume")) ELSE c
    /\ crowded' = (crowded /\ (calls' = c \/ Cancels(c) # {}))

\* markServiceUp('mq'), on the adapter's 'connect'.
MqUp(c) ==
    /\ mq' = TRUE
    /\ IF svc /\ ~mq THEN resumeConsuming(c) ELSE paused' = paused /\ crowded' = crowded /\ calls' = c

\* consumeMessages; init() awaits the consumer.
consumeMessages ==
    /\ stop = "no" /\ ~registered
    /\ registered' = TRUE
    /\ calls' = IF connected /\ ~paused THEN Append(calls, Consume("initial")) ELSE calls
    /\ UNCHANGED <<volatile, conn, paused, tag, restoring, stop, svc, mq, live, exists, crowded,
                   outages, losses>>

----------------------------------------------------------------------------
(* Answers *)

Answered(kind) == conn = "up" /\ calls # <<>> /\ Head(calls).kind = kind

Cancelled(c) == {c[i].tag : i \in {j \in DOMAIN c : c[j].kind = "cancel"}}

\* doConsume goes on with a tag nobody else has; a restore was the last thing tryOnce waited for.
ConsumeOk ==
    /\ Answered("consume") /\ exists
    /\ UNCHANGED <<volatile, conn, registered, stop, svc, exists, outages, losses>>
    /\ \E t \in Tag :
          /\ t \notin live \cup {tag} \cup Cancelled(calls)
          /\ live' = live \cup {t}
          /\ tag' = t
    /\ IF Head(calls).who = "restore"
       THEN restoring' = FALSE /\ MqUp(Tail(calls))
       ELSE calls' = Tail(calls) /\ UNCHANGED <<restoring, mq, paused, crowded>>

\* The queue is gone (404): the broker closes the channel, and "amqplib escalates
\* the unhandled channel-emitted 'error' into a full CONNECTION teardown".
ConsumeRefused ==
    /\ Answered("consume") /\ ~exists
    /\ conn' = "broken"
    /\ live' = {}
    /\ IF Head(calls).who = "restore"
       THEN restoring' = FALSE /\ MqUp(Tail(calls))
       ELSE calls' = Tail(calls) /\ UNCHANGED <<restoring, mq, paused, crowded>>
    /\ stop' = IF Head(calls).who = "initial" THEN "failed" ELSE stop
    /\ UNCHANGED <<volatile, registered, tag, svc, exists, outages, losses>>

Emptied(c) == [i \in DOMAIN c |-> IF c[i].kind = "cancel" THEN [c[i] EXCEPT !.again = TRUE] ELSE c[i]]

\* doCancelAll goes on: to a tag it has not seen, or to clear().  Without its last
\* consumer an auto-delete queue goes.
CancelOk ==
    LET h == Head(calls) IN
    /\ Answered("cancel")
    /\ live' = live \ {h.tag}
    /\ exists' = (exists /\ ~(volatile /\ live = {h.tag}))
    /\ IF h.again /\ tag # NoTag
       THEN calls' = doCancelAll(h.who, Tail(calls)) /\ UNCHANGED <<tag, stop>>
       ELSE /\ tag' = NoTag
            /\ calls' = Emptied(Tail(calls))
            /\ stop' = IF h.who = "stop" THEN "drained" ELSE stop
    /\ UNCHANGED <<volatile, conn, registered, paused, restoring, svc, mq, crowded, outages, losses>>

----------------------------------------------------------------------------
(* The connection *)

Waits(who) == \E i \in DOMAIN calls : calls[i].who = who

\* The connection is gone for client and broker, and every call is rejected.
Closed ==
    /\ conn' = "down"
    /\ live' = {} /\ exists' = (exists /\ ~volatile)
    /\ tag' = NoTag /\ calls' = <<>> /\ crowded' = FALSE

\* The 'close' handler and onConnectionLost; then the rejected calls: tryOnce goes
\* on to emit 'connect', stopConsuming to its drain, init() fails.
ConnectionLost ==
    LET down == paused \/ (isAvailable /\ ~closing) IN
    /\ connected
    /\ conn = "broken" \/ losses < MaxLosses
    /\ losses' = IF conn = "up" THEN losses + 1 ELSE losses
    /\ Closed
    /\ mq' = Waits("restore")
    /\ paused' = IF Waits("restore") /\ svc THEN down /\ stopping ELSE down
    /\ restoring' = FALSE
    /\ stop' = IF Waits("initial") THEN "failed"
               ELSE IF Waits("stop") THEN "drained" ELSE stop
    /\ UNCHANGED <<volatile, registered, svc, outages>>

\* Mutant of Reconnect: restores whether paused or not.
RestoreAlways ==
    /\ conn = "down" /\ running
    /\ conn' = "up"
    /\ calls' = IF registered THEN <<Consume("restore")>> ELSE <<>>
    /\ restoring' = registered
    /\ mq' = (mq \/ ~registered)
    /\ UNCHANGED <<volatile, registered, paused, tag, stop, svc, live, exists, crowded, outages, losses>>

\* tryOnce, up to its first await after doConnect.
Reconnect ==
    /\ conn = "down" /\ running
    /\ conn' = "up"
    /\ IF ~paused /\ registered
       THEN calls' = <<Consume("restore")>> /\ restoring' = TRUE /\ UNCHANGED <<mq, paused, crowded>>
       ELSE MqUp(<<>>) /\ UNCHANGED restoring
    /\ UNCHANGED <<volatile, registered, tag, stop, svc, live, exists, outages, losses>>

----------------------------------------------------------------------------
(* The other services *)

ServiceDown ==
    /\ svc /\ running
    /\ outages < MaxOutages
    /\ svc' = FALSE
    /\ outages' = outages + 1
    /\ IF mq /\ ~closing THEN pauseConsuming(calls) ELSE UNCHANGED <<paused, calls, crowded>>
    /\ UNCHANGED <<volatile, conn, registered, tag, restoring, stop, mq, live, exists, losses>>

ServiceUp ==
    /\ ~svc
    /\ svc' = TRUE
    /\ UNCHANGED <<volatile, conn, registered>>
    /\ IF mq THEN resumeConsuming(calls) ELSE UNCHANGED <<paused, calls, crowded>>
    /\ UNCHANGED <<tag, restoring, stop, mq, live, exists, outages, losses>>

----------------------------------------------------------------------------
(* close(): a volatile transport stops consuming first, the others say that *)
(* they are closing first.                                                 *)

Close ==
    /\ stop = "no" /\ registered /\ ~Waits("initial") /\ ~volatile
    /\ stop' = "closing"
    /\ UNCHANGED <<volatile, conn, registered, paused, tag, calls, restoring, svc, mq, live, exists,
                   crowded, outages, losses>>

stopConsuming ==
    /\ stop = (IF volatile THEN "no" ELSE "closing")
    /\ registered /\ ~Waits("initial")
    /\ paused' = TRUE
    /\ calls' = IF connected THEN doCancelAll("stop", calls) ELSE calls
    /\ stop' = IF connected /\ tag # NoTag THEN "cancelling" ELSE "drained"
    /\ UNCHANGED <<volatile, conn, registered, tag, restoring, svc, mq, live, exists, crowded,
                   outages, losses>>

\* disconnect(), which a volatile transport precedes by deleteQueue.
Disconnect ==
    /\ stop = "drained"
    /\ stop' = "closed"
    /\ Closed
    /\ mq' = (Waits("restore") \/ (mq /\ ~connected))
    /\ restoring' = FALSE
    /\ UNCHANGED <<volatile, registered, paused, svc, outages, losses>>

----------------------------------------------------------------------------
Next ==
    \/ consumeMessages
    \/ ConsumeOk \/ ConsumeRefused \/ CancelOk
    \/ ConnectionLost \/ Reconnect
    \/ ServiceDown \/ ServiceUp
    \/ Close \/ stopConsuming \/ Disconnect

Spec == Init /\ [][Next]_vars

\* init() goes on, the broker answers, the adapter reconnects, an outage ends.
FairSpec ==
    /\ Spec
    /\ WF_vars(consumeMessages)
    /\ WF_vars(ConsumeOk \/ ConsumeRefused \/ CancelOk)
    /\ WF_vars(conn = "broken" /\ ConnectionLost)
    /\ WF_vars(Reconnect) /\ WF_vars(ServiceUp)

----------------------------------------------------------------------------
(* Properties *)

Settled == calls = <<>> /\ conn = "up"

\* Pauses, resumes and reconnects overlap without leaving a worker whose services
\* are up without a consumer once every call is answered (resumeConsuming against
\* a pause whose cancels are in flight, and against tryOnce's restore), unless a
\* third pause began with the cancels of two still waiting.  Even then the next
\* resume that finds no cancel waiting, or reconnect, brings a consumer back.
AvailableConsumes ==
    (Settled /\ registered /\ isAvailable /\ stop = "no" /\ ~crowded) => live # {}

\* Until close() the worker never takes MQ for connected while it is not: a
\* 'connect' that comes late, for a connection lost while consumers were being
\* restored, cannot happen, since the loss has paused consumption and a paused
\* adapter restores nothing (tryOnce).
ConnectIsNeverLate == (stop = "no" /\ conn = "down") => ~mq

Recovers == <>(stop # "no" \/ [](stop = "no" /\ ~crowded => live # {}))

\* After the last outage the worker on a durable queue gets its consumer back ("It
\* resumes once all three are connected again"): restored or resumed, and not
\* taken away again by a pause that ends late, unless three pauses overlapped in
\* the last outages (as for AvailableConsumes).
ConsumesAgain == ~volatile => Recovers

\* "registered consumers are restored automatically when the connection returns",
\* those of a slot queue too.
SlotConsumesAgain == volatile => Recovers

\* What the same sentence promises however many pauses overlap.
AlwaysConsumes == (Settled /\ registered /\ isAvailable /\ stop = "no") => live # {}

\* "While the database, the message queue or Redis is disconnected, the worker
\* stops consuming": no consumer is left open by a pause.
PausedStops == (Settled /\ paused /\ ~isAvailable) => live = {}

============================================================================
