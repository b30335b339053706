------------------------ MODULE MqConsumersProofs ------------------------
(***************************************************************************)
(* Proofs about MqConsumers, for any number of tags, outages and lost      *)
(* connections: the types; that a worker that is not closing never takes   *)
(* the message queue for connected while it is not; and that a worker      *)
(* whose services are up ends with a consumer, unless three pauses have    *)
(* overlapped since a resume last started afresh.                          *)
(***************************************************************************)
EXTENDS MqConsumers, TLAPS

CancelCall == [kind : {"cancel"}, who : {"pause", "stop"}, tag : Tag, again : BOOLEAN]
ConsumeCall == [kind : {"consume"}, who : {"initial", "resume", "restore"}]

\* Of a worker that has not begun to close: what is down has paused consumption,
\* so a reconnect has nothing to restore, and none is waiting for a restore.
NothingToRestore ==
    stop = "no" =>
        /\ ~isAvailable => paused
        /\ conn = "down" => ~mq
        /\ ~restoring
        /\ ~Waits("restore")

ConsumerInvariant == TypeOK /\ NothingToRestore

----------------------------------------------------------------------------
(* Calls *)

\* The tag type is a set of positive numbers, so NoTag is none of them.
LEMMA NoTagIsNone == NoTag \notin Tag
  BY DEF NoTag, Tag

\* What doCancelAll adds to the waiting calls is a cancel.
LEMMA CancelAllType ==
    ASSUME NEW c \in Seq(Call), TypeOK, NEW who \in {"pause", "stop"}
    PROVE  doCancelAll(who, c) \in Seq(Call)
  <1>1. CASE tag = NoTag
    BY <1>1 DEF doCancelAll
  <1>2. CASE tag # NoTag
    <2>1. tag \in Tag
      BY <1>2 DEF TypeOK
    <2>2. Cancel(who, tag) \in Call
      BY <2>1 DEF Cancel, Call
    <2> QED BY <1>2, <2>2 DEF doCancelAll
  <1> QED BY <1>1, <1>2

\* ... and it adds no restore.
LEMMA CancelAllNoRestore ==
    ASSUME NEW c \in Seq(Call), NEW who \in {"pause", "stop"},
           \A i \in DOMAIN c : c[i].who # "restore"
    PROVE  \A i \in DOMAIN doCancelAll(who, c) : doCancelAll(who, c)[i].who # "restore"
  <1>1. CASE tag = NoTag
    BY <1>1 DEF doCancelAll
  <1>2. CASE tag # NoTag
    <2>1. doCancelAll(who, c) = Append(c, Cancel(who, tag))
      BY <1>2 DEF doCancelAll
    <2>2. Cancel(who, tag).who # "restore"
      BY DEF Cancel
    <2> QED BY <2>1, <2>2
  <1> QED BY <1>1, <1>2

\* A consume of any kind may be added to the calls.
LEMMA ConsumeType ==
    ASSUME NEW c \in Seq(Call), NEW who \in {"initial", "resume", "restore"}
    PROVE  Append(c, Consume(who)) \in Seq(Call)
  <1>1. Consume(who) \in Call
    BY DEF Consume, Call
  <1> QED BY <1>1

\* Only the marks of cancels change when the tags are cleared.
LEMMA EmptiedType ==
    ASSUME NEW c \in Seq(Call)
    PROVE  /\ Emptied(c) \in Seq(Call)
           /\ DOMAIN Emptied(c) = DOMAIN c
           /\ \A i \in DOMAIN c : Emptied(c)[i].who = c[i].who
  <1> DEFINE f(i) == IF c[i].kind = "cancel" THEN [c[i] EXCEPT !.again = TRUE] ELSE c[i]
  <1>1. ASSUME NEW i \in DOMAIN c
        PROVE  f(i) \in Call /\ f(i).who = c[i].who
    <2>1. c[i] \in CancelCall \/ c[i] \in ConsumeCall
      BY DEF Call, CancelCall, ConsumeCall
    <2>2. CASE c[i] \in CancelCall
      <3>1. [c[i] EXCEPT !.again = TRUE] \in CancelCall
        BY <2>2 DEF CancelCall
      <3>2. [c[i] EXCEPT !.again = TRUE].who = c[i].who
        BY <2>2 DEF CancelCall
      <3> QED BY <2>2, <3>1, <3>2 DEF Call, CancelCall
    <2>3. CASE c[i] \in ConsumeCall
      BY <2>3 DEF Call, ConsumeCall
    <2> QED BY <2>1, <2>2, <2>3
  <1>2. Emptied(c) = [i \in DOMAIN c |-> f(i)]
    BY DEF Emptied
  <1>3. DOMAIN c = 1..Len(c) /\ Len(c) \in Nat
    OBVIOUS
  <1> HIDE DEF f
  <1>4. Emptied(c) \in [1..Len(c) -> Call]
    BY <1>1, <1>2, <1>3
  <1> QED BY <1>1, <1>2, <1>3, <1>4

\* The calls after the first.
LEMMA TailType ==
    ASSUME NEW c \in Seq(Call), c # <<>>
    PROVE  /\ Tail(c) \in Seq(Call) /\ Head(c) \in Call
           /\ (\A i \in DOMAIN c : c[i].who # "restore")
                => /\ \A i \in DOMAIN Tail(c) : Tail(c)[i].who # "restore"
                   /\ Head(c).who # "restore"
  OBVIOUS

----------------------------------------------------------------------------
(* The parts of the steps *)

\* resumeConsuming keeps the types and waits for no restore.
LEMMA ResumeKeeps ==
    ASSUME NEW c \in Seq(Call), TypeOK, resumeConsuming(c)
    PROVE  /\ calls' \in Seq(Call) /\ paused' \in BOOLEAN
           /\ (\A i \in DOMAIN c : c[i].who # "restore") => ~Waits("restore")'
           /\ stop = "no" => ~paused'
           /\ crowded' \in BOOLEAN
  <1>1. calls' = c \/ calls' = Append(c, Consume("resume"))
    BY DEF resumeConsuming
  <1>2. Append(c, Consume("resume")) \in Seq(Call)
    BY ConsumeType
  <1>3. Consume("resume").who # "restore"
    BY DEF Consume
  <1>4. paused' \in BOOLEAN /\ (stop = "no" => ~paused') /\ crowded' \in BOOLEAN
    BY DEF resumeConsuming, TypeOK, stopping
  <1> QED BY <1>1, <1>2, <1>3, <1>4 DEF Waits

\* markServiceUp('mq') as well; afterwards the gate is open or as it was.
LEMMA MqUpKeeps ==
    ASSUME NEW c \in Seq(Call), TypeOK, MqUp(c)
    PROVE  /\ calls' \in Seq(Call) /\ paused' \in BOOLEAN /\ mq' = TRUE /\ crowded' \in BOOLEAN
           /\ (\A i \in DOMAIN c : c[i].who # "restore") => ~Waits("restore")'
           /\ ~svc => paused' = paused
  <1>1. CASE svc /\ ~mq
    BY <1>1, ResumeKeeps DEF MqUp
  <1>2. CASE ~(svc /\ ~mq)
    BY <1>2 DEF MqUp, Waits, TypeOK
  <1> QED BY <1>1, <1>2

----------------------------------------------------------------------------
(* The invariant *)

LEMMA InitHolds == Init => ConsumerInvariant
  <1> SUFFICES ASSUME Init PROVE ConsumerInvariant
    OBVIOUS
  <1>1. calls \in Seq(Call) /\ DOMAIN calls = {}
    BY DEF Init
  <1>2. TypeOK
    <2>1. outages \in 0..MaxOutages /\ losses \in 0..MaxLosses
      BY ConsumerAssumption DEF Init
    <2>2. tag \in Tag \cup {NoTag} /\ live \subseteq Tag
      BY DEF Init
    <2> QED BY <1>1, <2>1, <2>2 DEF Init, TypeOK, Stop
  <1>3. NothingToRestore
    BY <1>1 DEF Init, NothingToRestore, isAvailable, Waits
  <1> QED BY <1>2, <1>3 DEF ConsumerInvariant

\* Calls made and answered.
LEMMA AnswersKeep ==
    ASSUME ConsumerInvariant, consumeMessages \/ ConsumeOk \/ ConsumeRefused \/ CancelOk
    PROVE  ConsumerInvariant'
  <1> USE DEF ConsumerInvariant
  <1>0. TypeOK /\ calls \in Seq(Call)
    BY DEF TypeOK
  <1>1. CASE consumeMessages
    <2>1. calls' = calls \/ calls' = Append(calls, Consume("initial"))
      BY <1>1 DEF consumeMessages
    <2>2. Append(calls, Consume("initial")) \in Seq(Call) /\ Consume("initial").who # "restore"
      BY <1>0, ConsumeType DEF Consume
    <2>3. TypeOK'
      BY <1>0, <1>1, <2>1, <2>2 DEF consumeMessages, TypeOK
    <2>4. ~Waits("restore") => ~Waits("restore")'
      BY <1>0, <2>1, <2>2 DEF Waits
    <2>5. NothingToRestore'
      BY <1>1, <2>4 DEF consumeMessages, NothingToRestore, isAvailable
    <2> QED BY <2>3, <2>5
  <1>2. CASE ConsumeOk
    <2>1. calls # <<>> /\ Head(calls).kind = "consume"
      BY <1>2 DEF ConsumeOk, Answered
    <2>2. Tail(calls) \in Seq(Call)
      BY <1>0, <2>1, TailType
    <2>3. calls' \in Seq(Call) /\ paused' \in BOOLEAN /\ mq' \in BOOLEAN /\ restoring' \in BOOLEAN
          /\ crowded' \in BOOLEAN
      <3>1. CASE Head(calls).who = "restore"
        <4>1. MqUp(Tail(calls)) /\ restoring' = FALSE
          BY <1>2, <3>1 DEF ConsumeOk
        <4> QED BY <1>0, <2>2, <4>1, MqUpKeeps
      <3>2. CASE Head(calls).who # "restore"
        BY <1>0, <1>2, <2>2, <3>2 DEF ConsumeOk, TypeOK
      <3> QED BY <3>1, <3>2
    <2>4. live' \subseteq Tag /\ tag' \in Tag
      BY <1>0, <1>2 DEF ConsumeOk, TypeOK
    <2>5. TypeOK'
      BY <1>0, <1>2, <2>3, <2>4 DEF ConsumeOk, TypeOK
    <2>6. NothingToRestore'
      <3> SUFFICES ASSUME stop' = "no" PROVE NothingToRestore'
        BY DEF NothingToRestore
      <3>1. stop = "no" /\ ~Waits("restore")
        BY <1>2 DEF ConsumeOk, NothingToRestore
      <3>2. \A i \in DOMAIN calls : calls[i].who # "restore"
        BY <3>1 DEF Waits
      <3>3. Head(calls).who # "restore" /\ \A i \in DOMAIN Tail(calls) : Tail(calls)[i].who # "restore"
        BY <1>0, <2>1, <3>2, TailType
      <3>4. calls' = Tail(calls) /\ UNCHANGED <<restoring, mq, paused, conn, svc>>
        BY <1>2, <3>3 DEF ConsumeOk
      <3> QED BY <3>1, <3>3, <3>4 DEF NothingToRestore, Waits, isAvailable
    <2> QED BY <2>5, <2>6
  <1>3. CASE ConsumeRefused
    <2>1. calls # <<>> /\ Head(calls).kind = "consume"
      BY <1>3 DEF ConsumeRefused, Answered
    <2>2. Tail(calls) \in Seq(Call)
      BY <1>0, <2>1, TailType
    <2>3. calls' \in Seq(Call) /\ paused' \in BOOLEAN /\ mq' \in BOOLEAN /\ restoring' \in BOOLEAN
          /\ crowded' \in BOOLEAN
      <3>1. CASE Head(calls).who = "restore"
        <4>1. MqUp(Tail(calls)) /\ restoring' = FALSE
          BY <1>3, <3>1 DEF ConsumeRefused
        <4> QED BY <1>0, <2>2, <4>1, MqUpKeeps
      <3>2. CASE Head(calls).who # "restore"
        BY <1>0, <1>3, <2>2, <3>2 DEF ConsumeRefused, TypeOK
      <3> QED BY <3>1, <3>2
    <2>5. TypeOK'
      BY <1>0, <1>3, <2>3 DEF ConsumeRefused, TypeOK, Stop
    <2>6. NothingToRestore'
      <3> SUFFICES ASSUME stop' = "no" PROVE NothingToRestore'
        BY DEF NothingToRestore
      <3>1. stop = "no" /\ ~Waits("restore")
        BY <1>3 DEF ConsumeRefused, NothingToRestore
      <3>2. \A i \in DOMAIN calls : calls[i].who # "restore"
        BY <3>1 DEF Waits
      <3>3. Head(calls).who # "restore" /\ \A i \in DOMAIN Tail(calls) : Tail(calls)[i].who # "restore"
        BY <1>0, <2>1, <3>2, TailType
      <3>4. calls' = Tail(calls) /\ conn' = "broken" /\ UNCHANGED <<restoring, mq, paused, svc>>
        BY <1>3, <3>3 DEF ConsumeRefused
      <3> QED BY <3>1, <3>3, <3>4 DEF NothingToRestore, Waits, isAvailable
    <2> QED BY <2>5, <2>6
  <1>4. CASE CancelOk
    <2>1. calls # <<>> /\ Head(calls).kind = "cancel" /\ conn = "up"
      BY <1>4 DEF CancelOk, Answered
    <2>2. Tail(calls) \in Seq(Call) /\ Head(calls) \in Call
      BY <1>0, <2>1, TailType
    <2>3. Head(calls).who \in {"pause", "stop"}
      BY <2>1, <2>2 DEF Call
    <2>4. \/ calls' = doCancelAll(Head(calls).who, Tail(calls)) /\ UNCHANGED <<tag, stop>>
          \/ tag' = NoTag /\ calls' = Emptied(Tail(calls))
             /\ stop' = IF Head(calls).who = "stop" THEN "drained" ELSE stop
      BY <1>4 DEF CancelOk
    <2>5. calls' \in Seq(Call) /\ tag' \in Tag \cup {NoTag} /\ stop' \in Stop
      BY <1>0, <2>2, <2>3, <2>4, CancelAllType, EmptiedType DEF TypeOK, Stop
    <2>6. TypeOK'
      BY <1>0, <1>4, <2>5 DEF CancelOk, TypeOK
    <2>7. ~Waits("restore") => ~Waits("restore")'
      <3> SUFFICES ASSUME ~Waits("restore") PROVE ~Waits("restore")'
        OBVIOUS
      <3>1. \A i \in DOMAIN Tail(calls) : Tail(calls)[i].who # "restore"
        BY <1>0, <2>1, TailType DEF Waits
      <3>2. CASE calls' = doCancelAll(Head(calls).who, Tail(calls))
        BY <2>2, <2>3, <3>1, <3>2, CancelAllNoRestore DEF Waits
      <3>3. CASE calls' = Emptied(Tail(calls))
        BY <2>2, <3>1, <3>3, EmptiedType DEF Waits
      <3> QED BY <2>4, <3>2, <3>3
    <2>8. NothingToRestore'
      <3>1. stop' = "no" => stop = "no"
        BY <2>4
      <3> QED BY <1>4, <2>1, <2>7, <3>1 DEF CancelOk, NothingToRestore, isAvailable
    <2> QED BY <2>6, <2>8
  <1> QED BY <1>1, <1>2, <1>3, <1>4

\* The connection, and what it does to the calls.
LEMMA ConnectionKeeps ==
    ASSUME ConsumerInvariant, ConnectionLost \/ Reconnect \/ Disconnect
    PROVE  ConsumerInvariant'
  <1> USE DEF ConsumerInvariant
  <1>0. <<>> \in Seq(Call) /\ TypeOK
    OBVIOUS
  <1>1. CASE ConnectionLost
    <2>1. calls' = <<>> /\ DOMAIN calls' = {} /\ live' = {} /\ tag' = NoTag /\ conn' = "down"
      BY <1>1 DEF ConnectionLost, Closed
    <2>2. losses' \in 0..MaxLosses
      BY <1>1, ConsumerAssumption DEF ConnectionLost, TypeOK
    <2>3. paused' \in BOOLEAN /\ exists' \in BOOLEAN /\ mq' \in BOOLEAN /\ crowded' \in BOOLEAN
      BY <1>0, <1>1 DEF ConnectionLost, Closed, TypeOK, stopping, isAvailable, closing, Waits
    <2>4. TypeOK'
      BY <1>0, <1>1, <2>1, <2>2, <2>3 DEF ConnectionLost, TypeOK, Stop
    <2>5. NothingToRestore'
      <3> SUFFICES ASSUME stop' = "no" PROVE NothingToRestore'
        BY DEF NothingToRestore
      <3>1. stop = "no" /\ ~Waits("restore") /\ (~isAvailable => paused)
        BY <1>1 DEF ConnectionLost, NothingToRestore
      <3>2. paused' = TRUE /\ ~mq' /\ ~restoring'
        BY <1>0, <1>1, <3>1 DEF ConnectionLost, closing, TypeOK
      <3> QED BY <2>1, <3>2 DEF NothingToRestore, Waits
    <2> QED BY <2>4, <2>5
  <1>2. CASE Reconnect
    <2>1. CASE ~paused /\ registered
      <3>1. calls' = <<Consume("restore")>> /\ restoring' = TRUE /\ UNCHANGED <<mq, paused, crowded>>
        BY <1>2, <2>1 DEF Reconnect
      <3>2. calls' \in Seq(Call)
        BY <3>1 DEF Consume, Call
      <3>3. TypeOK'
        BY <1>0, <1>2, <3>1, <3>2 DEF Reconnect, TypeOK
      <3>4. stop # "no" /\ stop' = stop
        BY <1>2, <2>1 DEF Reconnect, NothingToRestore, isAvailable
      <3> QED BY <3>3, <3>4 DEF NothingToRestore
    <2>2. CASE ~(~paused /\ registered)
      <3>1. MqUp(<<>>) /\ restoring' = restoring
        BY <1>2, <2>2 DEF Reconnect
      <3>2. /\ calls' \in Seq(Call) /\ paused' \in BOOLEAN /\ mq' = TRUE
            /\ ~Waits("restore")' /\ (~svc => paused' = paused) /\ crowded' \in BOOLEAN
        <4>1. \A i \in DOMAIN <<>> : <<>>[i].who # "restore"
          OBVIOUS
        <4> QED BY <1>0, <3>1, <4>1, MqUpKeeps
      <3>3. TypeOK'
        BY <1>0, <1>2, <3>1, <3>2 DEF Reconnect, TypeOK
      <3>4. NothingToRestore'
        BY <1>2, <3>1, <3>2 DEF Reconnect, NothingToRestore, isAvailable
      <3> QED BY <3>3, <3>4
    <2> QED BY <2>1, <2>2
  <1>3. CASE Disconnect
    <2>1. mq' \in BOOLEAN /\ exists' \in BOOLEAN /\ crowded' \in BOOLEAN
      BY <1>0, <1>3 DEF Disconnect, Closed, TypeOK, connected, Waits
    <2>2. TypeOK'
      BY <1>0, <1>3, <2>1 DEF Disconnect, Closed, TypeOK, Stop
    <2>3. stop' # "no"
      BY <1>3 DEF Disconnect
    <2> QED BY <2>2, <2>3 DEF NothingToRestore
  <1> QED BY <1>1, <1>2, <1>3

\* The other services and the worker's close().
LEMMA WorkerKeeps ==
    ASSUME ConsumerInvariant, ServiceDown \/ ServiceUp \/ Close \/ stopConsuming
    PROVE  ConsumerInvariant'
  <1> USE DEF ConsumerInvariant
  <1>0. TypeOK /\ calls \in Seq(Call)
    BY DEF TypeOK
  <1>1. CASE ServiceDown
    <2>1. \/ pauseConsuming(calls) /\ paused' = TRUE
          \/ ~(mq /\ ~closing) /\ UNCHANGED <<paused, calls, crowded>>
      BY <1>1 DEF ServiceDown, pauseConsuming
    <2>2. calls' = calls \/ calls' = doCancelAll("pause", calls)
      BY <2>1 DEF pauseConsuming
    <2>3. calls' \in Seq(Call)
      BY <1>0, <2>2, CancelAllType
    <2>4. TypeOK'
      <3>1. outages \in 0..MaxOutages /\ outages < MaxOutages /\ outages' = outages + 1
        BY <1>0, <1>1 DEF ServiceDown, TypeOK
      <3>2. outages' \in 0..MaxOutages
        BY <3>1, ConsumerAssumption
      <3>3. paused' \in BOOLEAN /\ svc' \in BOOLEAN /\ crowded' \in BOOLEAN
        BY <1>0, <1>1, <2>1 DEF ServiceDown, pauseConsuming, TypeOK
      <3>4. UNCHANGED <<volatile, conn, registered, tag, restoring, stop, mq, live, exists, losses>>
        BY <1>1 DEF ServiceDown
      <3> QED BY <1>0, <2>3, <3>2, <3>3, <3>4 DEF TypeOK
    <2>5. NothingToRestore'
      <3> SUFFICES ASSUME stop' = "no" PROVE NothingToRestore'
        BY DEF NothingToRestore
      <3>1. stop = "no" /\ ~closing
        BY <1>1 DEF ServiceDown, closing
      <3>2. ~Waits("restore")'
        <4>1. \A i \in DOMAIN calls : calls[i].who # "restore"
          BY <3>1 DEF NothingToRestore, Waits
        <4> QED BY <1>0, <2>2, <4>1, CancelAllNoRestore DEF Waits
      <3>3. paused'
        BY <2>1, <3>1 DEF NothingToRestore, isAvailable
      <3> QED BY <1>1, <3>1, <3>2, <3>3 DEF ServiceDown, NothingToRestore
    <2> QED BY <2>4, <2>5
  <1>2. CASE ServiceUp
    <2>1. CASE mq
      <3>1. resumeConsuming(calls)
        BY <1>2, <2>1 DEF ServiceUp
      <3>2. calls' \in Seq(Call) /\ paused' \in BOOLEAN /\ crowded' \in BOOLEAN
        BY <1>0, <3>1, ResumeKeeps
      <3>3. TypeOK'
        BY <1>0, <1>2, <3>2 DEF ServiceUp, TypeOK
      <3>4. NothingToRestore'
        <4>1. stop = "no" => ~Waits("restore")'
          BY <1>0, <3>1, ResumeKeeps DEF NothingToRestore, Waits
        <4> QED BY <1>2, <2>1, <4>1 DEF ServiceUp, NothingToRestore, isAvailable
      <3> QED BY <3>3, <3>4
    <2>2. CASE ~mq
      <3>1. UNCHANGED <<paused, calls, crowded>>
        BY <1>2, <2>2 DEF ServiceUp
      <3>2. TypeOK'
        BY <1>0, <1>2, <3>1 DEF ServiceUp, TypeOK
      <3>3. NothingToRestore'
        BY <1>2, <2>2, <3>1 DEF ServiceUp, NothingToRestore, isAvailable, Waits
      <3> QED BY <3>2, <3>3
    <2> QED BY <2>1, <2>2
  <1>3. CASE Close
    BY <1>0, <1>3 DEF Close, TypeOK, Stop, NothingToRestore
  <1>4. CASE stopConsuming
    <2>1. calls' \in Seq(Call)
      BY <1>0, <1>4, CancelAllType DEF stopConsuming
    <2>2. TypeOK'
      BY <1>0, <1>4, <2>1 DEF stopConsuming, TypeOK, Stop
    <2>3. stop' # "no"
      BY <1>4 DEF stopConsuming
    <2> QED BY <2>2, <2>3 DEF NothingToRestore
  <1> QED BY <1>1, <1>2, <1>3, <1>4

LEMMA Inductive == ConsumerInvariant /\ [Next]_vars => ConsumerInvariant'
  <1> SUFFICES ASSUME ConsumerInvariant, [Next]_vars PROVE ConsumerInvariant'
    OBVIOUS
  <1>1. CASE Next
    BY <1>1, AnswersKeep, ConnectionKeeps, WorkerKeeps DEF Next
  <1>2. CASE UNCHANGED vars
    BY <1>2 DEF vars, ConsumerInvariant, TypeOK, NothingToRestore, isAvailable, Waits
  <1> QED BY <1>1, <1>2

LEMMA InvariantHolds == Spec => []ConsumerInvariant
  BY InitHolds, Inductive, PTL DEF Spec

\* The types, for every bound: in particular the calls waiting for the broker are
\* the sequences the loops of doCancelAll and tryOnce make.
THEOREM TypeCorrect == Spec => []TypeOK
  <1>1. ConsumerInvariant => TypeOK
    BY DEF ConsumerInvariant
  <1> QED BY <1>1, InvariantHolds, PTL

\* However often services and connections come and go, a worker that is not closing
\* does not take a lost connection for an open one: tryOnce's late 'connect' cannot
\* happen, because a worker that lost its connection has paused, and a paused
\* adapter restores nothing.
THEOREM ConnectNeverLate == Spec => []ConnectIsNeverLate
  <1>1. ConsumerInvariant => ConnectIsNeverLate
    BY DEF ConsumerInvariant, NothingToRestore, ConnectIsNeverLate
  <1> QED BY <1>1, InvariantHolds, PTL

----------------------------------------------------------------------------
(* What the waiting calls come to.  A sequence of calls is looked at with  *)
(* the tag `t` the client has and the consumers `l` the broker has when    *)
(* the first of them is answered.                                          *)

Consumes(c) == {i \in DOMAIN c : c[i].kind = "consume"}

\* A consumer that no call takes away, now or later: the client has forgotten it.
Spare(c, t, l) == \E u \in l : u # t /\ u \notin Cancelled(c)

\* The consumer the client knows of is there and no call takes it away.
Kept(c, t, l) == t \in l /\ t \notin Cancelled(c)

\* The calls of at most two overlapping pauses: two cancels at most, and the second
\* was made since the tags were last cleared.
TwoCancels(c) ==
    /\ \A p, q, r \in Cancels(c) : p = q \/ q = r \/ p = r
    /\ \A p, q \in Cancels(c) : p < q => ~c[q].again

\* A cancel that would go on to a newer tag is answered before a consume that is
\* before the other cancel: the resume between two pauses.
Apart(c) ==
    \A p, q \in Cancels(c) :
        p < q /\ c[p].again => \E i \in Consumes(c) : p < i /\ i < q

\* The calls leave a consumer: there is a consume after the last cancel, or the
\* first clears the tags and finds the consumer it does not know.
LeavesOne(c, t, l) ==
    /\ Cancels(c) = {} /\ Consumes(c) = {} => Kept(c, t, l)
    /\ \A p, q \in Cancels(c) :
          (\A r \in Cancels(c) : p <= r /\ r <= q) =>
             \/ \E i \in Consumes(c) : q < i
             \/ ~c[p].again /\ (Kept(c, t, l) \/ \E i \in Consumes(c) : i < p)

LEMMA CallsAre ==
    ASSUME NEW c \in Seq(Call)
    PROVE  /\ \A i \in DOMAIN c : i \in Nat \ {0} /\ i <= Len(c) /\ c[i] \in Call
           /\ \A i \in DOMAIN c : i \in Cancels(c) \/ i \in Consumes(c)
           /\ Cancels(c) \cap Consumes(c) = {}
           /\ Len(c) \in Nat
  <1>1. \A i \in DOMAIN c : i \in Nat \ {0} /\ i <= Len(c) /\ c[i] \in Call /\ Len(c) \in Nat
    OBVIOUS
  <1>2. \A e \in Call : e.kind = "cancel" \/ e.kind = "consume"
    BY DEF Call
  <1> QED BY <1>1, <1>2 DEF Cancels, Consumes

\* A call made is the last one.
LEMMA AppendCalls ==
    ASSUME NEW c \in Seq(Call), NEW e \in Call
    PROVE  LET d == Append(c, e)
               n == Len(c) + 1
           IN  /\ d \in Seq(Call)
               /\ \A i \in DOMAIN c : d[i] = c[i] /\ i < n
               /\ d[n] = e
               /\ e.kind = "cancel" => /\ Cancels(d) = Cancels(c) \cup {n}
                                       /\ Consumes(d) = Consumes(c)
                                       /\ Cancelled(d) = Cancelled(c) \cup {e.tag}
               /\ e.kind = "consume" => /\ Cancels(d) = Cancels(c)
                                        /\ Consumes(d) = Consumes(c) \cup {n}
                                        /\ Cancelled(d) = Cancelled(c)
  <1> DEFINE d == Append(c, e)
             n == Len(c) + 1
  <1>1. /\ d \in Seq(Call) /\ DOMAIN d = DOMAIN c \cup {n} /\ d[n] = e /\ n \notin DOMAIN c
        /\ \A i \in DOMAIN c : d[i] = c[i] /\ i < n
    OBVIOUS
  <1> HIDE DEF d, n
  <1>2. /\ Cancels(d) = {i \in DOMAIN d : d[i].kind = "cancel"}
        /\ Consumes(d) = {i \in DOMAIN d : d[i].kind = "consume"}
        /\ Cancelled(d) = {d[i].tag : i \in Cancels(d)}
        /\ Cancelled(c) = {c[i].tag : i \in Cancels(c)}
    BY DEF Cancels, Consumes, Cancelled
  <1>3. CASE e.kind = "cancel"
    <2>1. Cancels(d) = Cancels(c) \cup {n} /\ Consumes(d) = Consumes(c)
      BY <1>1, <1>2, <1>3 DEF Cancels, Consumes
    <2>2. Cancelled(d) = Cancelled(c) \cup {e.tag}
      BY <1>1, <1>2, <2>1 DEF Cancels
    <2> QED BY <1>1, <1>3, <2>1, <2>2 DEF d, n
  <1>4. CASE e.kind # "cancel"
    <2>1. e.kind = "consume" => /\ Cancels(d) = Cancels(c)
                                /\ Consumes(d) = Consumes(c) \cup {n}
      BY <1>1, <1>2, <1>4 DEF Cancels, Consumes
    <2>2. e.kind = "consume" => Cancelled(d) = Cancelled(c)
      BY <1>1, <1>2, <2>1 DEF Cancels
    <2> QED BY <1>1, <1>4, <2>1, <2>2 DEF d, n
  <1> QED BY <1>3, <1>4

\* A call answered was the first one.
LEMMA TailCalls ==
    ASSUME NEW c \in Seq(Call), c # <<>>
    PROVE  LET d == Tail(c)
           IN  /\ d \in Seq(Call)
               /\ 1 \in DOMAIN c /\ c[1] = Head(c)
               /\ \A i \in Cancels(d) : i + 1 \in Cancels(c) /\ d[i] = c[i + 1]
               /\ \A i \in Consumes(d) : i + 1 \in Consumes(c)
               /\ \A i \in Cancels(c) : i # 1 => i - 1 \in Cancels(d) /\ d[i - 1] = c[i]
               /\ \A i \in Consumes(c) : i # 1 => i - 1 \in Consumes(d)
               /\ Cancelled(d) \subseteq Cancelled(c)
               /\ Head(c).kind = "cancel" => Cancelled(c) = Cancelled(d) \cup {Head(c).tag}
               /\ Head(c).kind = "consume" => Cancelled(c) = Cancelled(d)
  <1> DEFINE d == Tail(c)
  <1>1. /\ d \in Seq(Call) /\ 1 \in DOMAIN c /\ c[1] = Head(c)
        /\ \A i \in DOMAIN d : i + 1 \in DOMAIN c /\ d[i] = c[i + 1]
        /\ \A i \in DOMAIN c : i # 1 => i - 1 \in DOMAIN d /\ d[i - 1] = c[i]
    OBVIOUS
  <1> HIDE DEF d
  <1>2. /\ \A i \in Cancels(d) : i + 1 \in Cancels(c) /\ d[i] = c[i + 1]
        /\ \A i \in Consumes(d) : i + 1 \in Consumes(c)
    BY <1>1 DEF Cancels, Consumes
  <1>3. /\ \A i \in Cancels(c) : i # 1 => i - 1 \in Cancels(d) /\ d[i - 1] = c[i]
        /\ \A i \in Consumes(c) : i # 1 => i - 1 \in Consumes(d)
    BY <1>1 DEF Cancels, Consumes
  <1>4. /\ Cancelled(d) = {d[i].tag : i \in Cancels(d)}
        /\ Cancelled(c) = {c[i].tag : i \in Cancels(c)}
    BY DEF Cancels, Cancelled
  <1>5. Cancelled(d) \subseteq Cancelled(c)
    BY <1>2, <1>4
  <1>6. Head(c).kind = "cancel" => Cancelled(c) = Cancelled(d) \cup {Head(c).tag}
    <2> SUFFICES ASSUME Head(c).kind = "cancel"
                 PROVE  Cancelled(c) = Cancelled(d) \cup {Head(c).tag}
      OBVIOUS
    <2>1. 1 \in Cancels(c)
      BY <1>1 DEF Cancels
    <2>2. Cancelled(c) \subseteq Cancelled(d) \cup {Head(c).tag}
      BY <1>1, <1>3, <1>4
    <2>3. Head(c).tag \in Cancelled(c)
      BY <1>1, <1>4, <2>1
    <2> QED BY <1>5, <2>2, <2>3
  <1>7. Head(c).kind = "consume" => Cancelled(c) = Cancelled(d)
    <2> SUFFICES ASSUME Head(c).kind = "consume" PROVE Cancelled(c) = Cancelled(d)
      OBVIOUS
    <2>1. 1 \notin Cancels(c)
      BY <1>1 DEF Cancels
    <2>2. Cancelled(c) \subseteq Cancelled(d)
      BY <1>3, <1>4, <2>1
    <2> QED BY <1>5, <2>2
  <1> QED BY <1>1, <1>2, <1>3, <1>5, <1>6, <1>7 DEF d

\* Clearing the tags leaves the calls in place and marks the cancels.
LEMMA EmptiedCalls ==
    ASSUME NEW c \in Seq(Call)
    PROVE  /\ Cancels(Emptied(c)) = Cancels(c)
           /\ Consumes(Emptied(c)) = Consumes(c)
           /\ Cancelled(Emptied(c)) = Cancelled(c)
           /\ \A i \in Cancels(c) : Emptied(c)[i].again = TRUE
  <1>1. \A i \in DOMAIN c : c[i] \in CancelCall \/ c[i] \in ConsumeCall
    BY DEF Call, CancelCall, ConsumeCall
  <1>2. DOMAIN Emptied(c) = DOMAIN c
    BY DEF Emptied
  <1>3. ASSUME NEW i \in DOMAIN c
        PROVE  /\ c[i].kind = "cancel" => /\ Emptied(c)[i].kind = "cancel"
                                          /\ Emptied(c)[i].tag = c[i].tag
                                          /\ Emptied(c)[i].again = TRUE
               /\ c[i].kind # "cancel" => Emptied(c)[i] = c[i]
    <2>1. Emptied(c)[i] = IF c[i].kind = "cancel" THEN [c[i] EXCEPT !.again = TRUE] ELSE c[i]
      BY DEF Emptied
    <2>2. CASE c[i] \in CancelCall
      <3>1. c[i].kind = "cancel"
        BY <2>2 DEF CancelCall
      <3>2. Emptied(c)[i] = [c[i] EXCEPT !.again = TRUE]
        BY <2>1, <3>1
      <3> QED BY <2>2, <3>1, <3>2 DEF CancelCall
    <2>3. CASE c[i] \in ConsumeCall
      <3>1. c[i].kind # "cancel"
        BY <2>3 DEF ConsumeCall
      <3> QED BY <2>1, <3>1
    <2> QED BY <1>1, <2>2, <2>3
  <1>4. Cancels(Emptied(c)) = Cancels(c) /\ Consumes(Emptied(c)) = Consumes(c)
    BY <1>2, <1>3 DEF Cancels, Consumes
  <1>5. /\ Cancelled(Emptied(c)) = {Emptied(c)[i].tag : i \in Cancels(c)}
        /\ Cancelled(c) = {c[i].tag : i \in Cancels(c)}
    BY <1>4 DEF Cancels, Cancelled
  <1>6. \A i \in Cancels(c) : Emptied(c)[i].tag = c[i].tag /\ Emptied(c)[i].again = TRUE
    BY <1>3 DEF Cancels
  <1> QED BY <1>4, <1>5, <1>6

\* A consume made last leaves a consumer, whatever comes before it.
LEMMA ConsumeLeavesOne ==
    ASSUME NEW c \in Seq(Call), NEW who \in {"initial", "resume", "restore"},
           NEW t, NEW l
    PROVE  LET d == Append(c, Consume(who))
           IN  /\ TwoCancels(c) => TwoCancels(d)
               /\ Apart(c) => Apart(d)
               /\ Spare(c, t, l) => Spare(d, t, l)
               /\ LeavesOne(d, t, l)
  <1> DEFINE e == Consume(who)
             n == Len(c) + 1
             d == Append(c, e)
  <1>1. e \in Call /\ e.kind = "consume"
    BY DEF Consume, Call
  <1> HIDE DEF e
  <1>2. /\ \A i \in DOMAIN c : d[i] = c[i] /\ i < n
        /\ Cancels(d) = Cancels(c) /\ Consumes(d) = Consumes(c) \cup {n}
        /\ Cancelled(d) = Cancelled(c)
    BY <1>1, AppendCalls
  <1>3. Cancels(c) \subseteq DOMAIN c
    BY DEF Cancels
  <1> HIDE DEF d, n
  <1>4. \A i \in Cancels(c) : d[i] = c[i] /\ i < n
    BY <1>2, <1>3
  <1>5. TwoCancels(c) => TwoCancels(d)
    BY <1>2, <1>4 DEF TwoCancels
  <1>6. Apart(c) => Apart(d)
    BY <1>2, <1>4 DEF Apart
  <1>7. Spare(c, t, l) => Spare(d, t, l)
    BY <1>2 DEF Spare
  <1>8. LeavesOne(d, t, l)
    BY <1>2, <1>4 DEF LeavesOne
  <1> QED BY <1>5, <1>6, <1>7, <1>8 DEF d, e

\* A pause when at most one cancel is waiting.
LEMMA CancelKeepsApart ==
    ASSUME NEW c \in Seq(Call), NEW t \in Tag, NEW l,
           TwoCancels(c), \A p, q \in Cancels(c) : p = q,
           LeavesOne(c, t, l)
    PROVE  Apart(Append(c, Cancel("pause", t)))
  <1> DEFINE e == Cancel("pause", t)
             n == Len(c) + 1
             d == Append(c, e)
  <1>1. e \in Call /\ e.kind = "cancel"
    BY DEF Cancel, Call
  <1> HIDE DEF e
  <1>2. /\ \A i \in DOMAIN c : d[i] = c[i] /\ i < n
        /\ Cancels(d) = Cancels(c) \cup {n} /\ Consumes(d) = Consumes(c)
    BY <1>1, AppendCalls
  <1>3. Cancels(c) \subseteq DOMAIN c /\ Consumes(c) \subseteq DOMAIN c
    BY DEF Cancels, Consumes
  <1>4. n \in Nat /\ Cancels(c) \subseteq Nat
    BY CallsAre, <1>3
  <1> HIDE DEF d, n
  <1> SUFFICES ASSUME NEW p \in Cancels(d), NEW q \in Cancels(d), p < q, d[p].again
               PROVE  \E i \in Consumes(d) : p < i /\ i < q
    BY DEF Apart, d, e
  <1>5. p \in Cancels(c) /\ q = n
    <2>1. CASE p \in Cancels(c)
      BY <1>2, <1>4, <2>1
    <2>2. CASE p = n
      BY <1>2, <1>3, <1>4, <2>2
    <2> QED BY <1>2, <2>1, <2>2
  <1>6. \A r \in Cancels(c) : p <= r /\ r <= p
    BY <1>4, <1>5
  <1>7. c[p].again
    BY <1>2, <1>3, <1>5
  <1>8. \E i \in Consumes(c) : p < i
    BY <1>5, <1>6, <1>7 DEF LeavesOne
  <1> QED BY <1>2, <1>3, <1>5, <1>8

\* ... of any caller.
LEMMA CancelKeepsTwo ==
    ASSUME NEW c \in Seq(Call), NEW t \in Tag, NEW who \in {"pause", "stop"},
           \A p, q \in Cancels(c) : p = q
    PROVE  TwoCancels(Append(c, Cancel(who, t)))
  <1> DEFINE e == Cancel(who, t)
             n == Len(c) + 1
             d == Append(c, e)
  <1>1. e \in Call /\ e.kind = "cancel" /\ e.again = FALSE
    BY DEF Cancel, Call
  <1> HIDE DEF e
  <1>2. /\ \A i \in DOMAIN c : d[i] = c[i] /\ i < n
        /\ Cancels(d) = Cancels(c) \cup {n} /\ d[n] = e
    BY <1>1, AppendCalls
  <1>3. Cancels(c) \subseteq DOMAIN c
    BY DEF Cancels
  <1>4. n \in Nat /\ Cancels(c) \subseteq Nat
    BY CallsAre, <1>3
  <1> HIDE DEF d, n
  <1>5. \A p, q, r \in Cancels(d) : p = q \/ q = r \/ p = r
    BY <1>2
  <1>6. \A p, q \in Cancels(d) : p < q => ~d[q].again
    <2> SUFFICES ASSUME NEW p \in Cancels(d), NEW q \in Cancels(d), p < q
                 PROVE  q = n
      BY <1>1, <1>2
    <2>1. CASE p = n
      BY <1>2, <1>3, <1>4, <2>1
    <2>2. CASE p \in Cancels(c) /\ q \in Cancels(c)
      BY <1>4, <2>2
    <2> QED BY <1>2, <2>1, <2>2
  <1> QED BY <1>5, <1>6 DEF TwoCancels, d, e

\* Of the calls after the first: they are no more, and none of them is a second
\* cancel when the first call was one.
LEMMA TailTwo ==
    ASSUME NEW c \in Seq(Call), c # <<>>, TwoCancels(c)
    PROVE  /\ TwoCancels(Tail(c))
           /\ Head(c).kind = "cancel" => \A p, q \in Cancels(Tail(c)) : p = q
  <1> DEFINE d == Tail(c)
  <1>0. d \in Seq(Call)
    BY TailCalls
  <1>1. \A i \in Cancels(d) : i + 1 \in Cancels(c) /\ d[i] = c[i + 1]
    BY TailCalls
  <1>2. Head(c).kind = "cancel" => 1 \in Cancels(c)
    BY TailCalls DEF Cancels
  <1>3. Cancels(d) \subseteq Nat \ {0}
    BY <1>0, CallsAre DEF Cancels
  <1> HIDE DEF d
  <1>4. ASSUME NEW p \in Cancels(d), NEW q \in Cancels(d), NEW r \in Cancels(d)
        PROVE  p = q \/ q = r \/ p = r
    <2>1. p \in Nat /\ q \in Nat /\ r \in Nat
      BY <1>3
    <2>2. p + 1 \in Cancels(c) /\ q + 1 \in Cancels(c) /\ r + 1 \in Cancels(c)
      BY <1>1
    <2>3. p + 1 = q + 1 \/ q + 1 = r + 1 \/ p + 1 = r + 1
      BY <2>2 DEF TwoCancels
    <2> QED BY <2>1, <2>3
  <1>5. ASSUME NEW p \in Cancels(d), NEW q \in Cancels(d), p < q
        PROVE  ~d[q].again
    <2>1. p \in Nat /\ q \in Nat
      BY <1>3
    <2>2. p + 1 \in Cancels(c) /\ q + 1 \in Cancels(c) /\ p + 1 < q + 1 /\ d[q] = c[q + 1]
      BY <1>1, <1>5, <2>1
    <2> QED BY <2>2 DEF TwoCancels
  <1>6. ASSUME Head(c).kind = "cancel", NEW p \in Cancels(d), NEW q \in Cancels(d)
        PROVE  p = q
    <2>1. p \in Nat \ {0} /\ q \in Nat \ {0}
      BY <1>3
    <2>2. 1 \in Cancels(c) /\ p + 1 \in Cancels(c) /\ q + 1 \in Cancels(c)
      BY <1>1, <1>2, <1>6
    <2>3. 1 = p + 1 \/ p + 1 = q + 1 \/ 1 = q + 1
      BY <2>2 DEF TwoCancels
    <2> QED BY <2>1, <2>3
  <1>7. TwoCancels(d)
    BY <1>4, <1>5 DEF TwoCancels
  <1> QED BY <1>6, <1>7 DEF d

\* The broker answers a consume with a new tag: the old one, if it was still a
\* consumer of its own, is forgotten.
LEMMA ConsumeAnswered ==
    ASSUME NEW c \in Seq(Call), c # <<>>, Head(c).kind = "consume",
           NEW l, NEW t, NEW u, u \notin l \cup {t} \cup Cancelled(c), TwoCancels(c)
    PROVE  /\ TwoCancels(Tail(c))
           /\ Apart(c) => Apart(Tail(c))
           /\ Spare(c, t, l) => Spare(Tail(c), u, l \cup {u})
           /\ LeavesOne(c, t, l) => LeavesOne(Tail(c), u, l \cup {u})
  <1> DEFINE d == Tail(c)
             m == l \cup {u}
  <1>0. d \in Seq(Call)
    BY TailCalls
  <1>1. /\ \A i \in Cancels(d) : i + 1 \in Cancels(c) /\ d[i] = c[i + 1]
        /\ \A i \in Consumes(d) : i + 1 \in Consumes(c)
        /\ \A i \in Cancels(c) : i # 1 => i - 1 \in Cancels(d) /\ d[i - 1] = c[i]
        /\ \A i \in Consumes(c) : i # 1 => i - 1 \in Consumes(d)
        /\ Cancelled(c) = Cancelled(d)
    BY TailCalls
  <1>2. 1 \notin Cancels(c)
    BY TailCalls DEF Cancels
  <1>3. /\ Cancels(c) \subseteq Nat \ {0} /\ Consumes(c) \subseteq Nat \ {0}
        /\ Cancels(d) \subseteq Nat \ {0} /\ Consumes(d) \subseteq Nat \ {0}
    BY <1>0, CallsAre DEF Cancels, Consumes
  <1> HIDE DEF d
  <1>4. TwoCancels(d)
    BY TailTwo DEF d
  <1>5. Apart(c) => Apart(d)
    <2> SUFFICES ASSUME Apart(c), NEW p \in Cancels(d), NEW q \in Cancels(d), p < q, d[p].again
                 PROVE  \E i \in Consumes(d) : p < i /\ i < q
      BY DEF Apart
    <2>1. PICK i \in Consumes(c) : p + 1 < i /\ i < q + 1
      BY <1>1, <1>3 DEF Apart
    <2>2. i - 1 \in Consumes(d) /\ p < i - 1 /\ i - 1 < q
      BY <1>1, <1>3, <2>1
    <2> QED BY <2>2
  <1>6. Spare(c, t, l) => Spare(d, u, m)
    BY <1>1 DEF Spare
  <1>7. Kept(d, u, m)
    BY <1>1 DEF Kept
  <1>8. LeavesOne(c, t, l) => LeavesOne(d, u, m)
    <2> SUFFICES ASSUME LeavesOne(c, t, l), NEW p \in Cancels(d), NEW q \in Cancels(d),
                        \A r \in Cancels(d) : p <= r /\ r <= q
                 PROVE  (\E i \in Consumes(d) : q < i) \/ ~d[p].again
      BY <1>7 DEF LeavesOne
    <2>1. ASSUME NEW r \in Cancels(c) PROVE p + 1 <= r /\ r <= q + 1
      <3>1. r - 1 \in Cancels(d) /\ r \in Nat /\ p \in Nat /\ q \in Nat
        BY <1>1, <1>2, <1>3
      <3>2. p <= r - 1 /\ r - 1 <= q
        BY <3>1
      <3> QED BY <3>1, <3>2
    <2>2. (\E i \in Consumes(c) : q + 1 < i) \/ ~c[p + 1].again
      BY <1>1, <2>1 DEF LeavesOne
    <2>3. ASSUME NEW i \in Consumes(c), q + 1 < i PROVE i - 1 \in Consumes(d) /\ q < i - 1
      BY <1>1, <1>3, <2>3
    <2> QED BY <1>1, <2>2, <2>3
  <1> QED BY <1>4, <1>5, <1>6, <1>8 DEF d

\* The broker answers a cancel that clears the tags.
LEMMA CancelClears ==
    ASSUME NEW c \in Seq(Call), c # <<>>, Head(c).kind = "cancel",
           NEW l \in SUBSET Tag, NEW t, ~Head(c).again \/ t = NoTag, TwoCancels(c)
    PROVE  LET d == Emptied(Tail(c))
               m == l \ {Head(c).tag}
           IN  /\ TwoCancels(d) /\ Apart(d)
               /\ Spare(c, t, l) => Spare(d, NoTag, m)
               /\ LeavesOne(c, t, l) => Spare(d, NoTag, m) \/ LeavesOne(d, NoTag, m)
  <1> DEFINE b == Tail(c)
             d == Emptied(b)
             m == l \ {Head(c).tag}
  <1>0. b \in Seq(Call) /\ d \in Seq(Call)
    BY TailCalls, EmptiedType
  <1>1. /\ \A i \in Cancels(b) : i + 1 \in Cancels(c)
        /\ \A i \in Cancels(c) : i # 1 => i - 1 \in Cancels(b)
        /\ \A i \in Consumes(c) : i # 1 => i - 1 \in Consumes(b)
        /\ Cancelled(c) = Cancelled(b) \cup {Head(c).tag}
        /\ 1 \in DOMAIN c /\ c[1] = Head(c)
    BY TailCalls
  <1>2. Cancels(d) = Cancels(b) /\ Consumes(d) = Consumes(b) /\ Cancelled(d) = Cancelled(b)
    BY <1>0, EmptiedCalls
  <1>3. \A p, q \in Cancels(d) : p = q
    BY <1>2, TailTwo
  <1>4. /\ Cancels(c) \subseteq Nat \ {0} /\ Consumes(c) \subseteq Nat \ {0}
        /\ Cancels(d) \subseteq Nat \ {0}
    BY <1>0, CallsAre DEF Cancels, Consumes
  <1>5. 1 \in Cancels(c) /\ 1 \notin Consumes(c)
    BY <1>1 DEF Cancels, Consumes
  <1>6. NoTag \notin m
    BY NoTagIsNone
  <1> HIDE DEF d, b
  <1>7. TwoCancels(d) /\ Apart(d)
    BY <1>3, <1>4 DEF TwoCancels, Apart
  <1>8. Spare(c, t, l) => Spare(d, NoTag, m)
    BY <1>1, <1>2, <1>6 DEF Spare
  <1>9. Kept(c, t, l) => Spare(d, NoTag, m)
    BY <1>1, <1>2, <1>6 DEF Spare, Kept
  <1>10. LeavesOne(c, t, l) => Spare(d, NoTag, m) \/ LeavesOne(d, NoTag, m)
    <2> SUFFICES ASSUME LeavesOne(c, t, l), ~Kept(c, t, l)
                 PROVE  LeavesOne(d, NoTag, m)
      BY <1>9
    \* Some consume comes after the last cancel of c.
    <2>1. ASSUME NEW q \in Cancels(c), \A r \in Cancels(c) : r <= q
          PROVE  \E i \in Consumes(c) : q < i
      <3>1. \A r \in Cancels(c) : 1 <= r /\ r <= q
        BY <1>4, <2>1
      <3>2. (\E i \in Consumes(c) : q < i) \/ \E i \in Consumes(c) : i < 1
        BY <1>5, <3>1 DEF LeavesOne
      <3> QED BY <1>4, <3>2
    <2>2. CASE Cancels(d) = {}
      <3>1. \A r \in Cancels(c) : r = 1
        BY <1>1, <1>2, <2>2
      <3>2. PICK i \in Consumes(c) : 1 < i
        BY <1>5, <2>1, <3>1
      <3>3. i - 1 \in Consumes(d)
        BY <1>1, <1>2, <3>2
      <3> QED BY <2>2, <3>3 DEF LeavesOne
    <2>3. ASSUME NEW p \in Cancels(d), NEW q \in Cancels(d) PROVE \E i \in Consumes(d) : q < i
      <3>1. q + 1 \in Cancels(c) /\ q \in Nat
        BY <1>1, <1>2, <1>4
      <3>2. ASSUME NEW r \in Cancels(c) PROVE r <= q + 1
        <4>1. CASE r = 1
          BY <3>1, <4>1
        <4>2. CASE r # 1
          <5>1. r - 1 \in Cancels(d) /\ r \in Nat
            BY <1>1, <1>2, <1>4, <4>2
          <5>2. r - 1 = q
            BY <1>3, <5>1
          <5> QED BY <3>1, <5>1, <5>2
        <4> QED BY <4>1, <4>2
      <3>3. PICK i \in Consumes(c) : q + 1 < i
        BY <2>1, <3>1, <3>2
      <3>4. i # 1 /\ q < i - 1
        BY <1>4, <3>1, <3>3
      <3>5. i - 1 \in Consumes(d)
        BY <1>1, <1>2, <3>4
      <3> QED BY <3>4, <3>5
    <2>4. CASE Cancels(d) # {}
      BY <2>3, <2>4 DEF LeavesOne
    <2> QED BY <2>2, <2>4
  <1> QED BY <1>7, <1>8, <1>10 DEF d, b

\* The broker answers a cancel whose loop goes on to the tag that came in since.
LEMMA CancelGoesOn ==
    ASSUME NEW c \in Seq(Call), c # <<>>, Head(c).kind = "cancel", Head(c).again,
           NEW l \in SUBSET Tag, NEW t \in Tag, NEW who \in {"pause", "stop"}, TwoCancels(c)
    PROVE  LET d == Append(Tail(c), Cancel(who, t))
               m == l \ {Head(c).tag}
           IN  /\ TwoCancels(d) /\ Apart(d)
               /\ Spare(c, t, l) => Spare(d, t, m)
               /\ LeavesOne(c, t, l) /\ Apart(c) => LeavesOne(d, t, m)
  <1> DEFINE e == Cancel(who, t)
             b == Tail(c)
             n == Len(b) + 1
             d == Append(b, e)
             m == l \ {Head(c).tag}
  <1>0. b \in Seq(Call) /\ e \in Call /\ e.kind = "cancel" /\ e.tag = t /\ e.again = FALSE
    BY TailCalls DEF Cancel, Call
  <1>1. /\ \A i \in Cancels(b) : i + 1 \in Cancels(c) /\ b[i] = c[i + 1]
        /\ \A i \in Cancels(c) : i # 1 => i - 1 \in Cancels(b) /\ b[i - 1] = c[i]
        /\ \A i \in Consumes(c) : i # 1 => i - 1 \in Consumes(b)
        /\ Cancelled(c) = Cancelled(b) \cup {Head(c).tag}
        /\ 1 \in DOMAIN c /\ c[1] = Head(c)
    BY TailCalls
  <1> HIDE DEF b, e
  <1>2. /\ \A i \in DOMAIN b : d[i] = b[i] /\ i < n
        /\ Cancels(d) = Cancels(b) \cup {n} /\ Consumes(d) = Consumes(b) /\ d[n] = e
        /\ Cancelled(d) = Cancelled(b) \cup {t}
    BY <1>0, AppendCalls
  <1>3. \A p, q \in Cancels(b) : p = q
    BY TailTwo DEF b
  <1>4. /\ Cancels(b) \subseteq DOMAIN b /\ Consumes(b) \subseteq DOMAIN b
        /\ DOMAIN b \subseteq Nat \ {0} /\ n \in Nat
        /\ Cancels(c) \subseteq Nat \ {0} /\ Consumes(c) \subseteq Nat \ {0}
    BY <1>0, CallsAre DEF Cancels, Consumes
  <1>5. 1 \in Cancels(c) /\ 1 \notin Consumes(c)
    BY <1>1 DEF Cancels, Consumes
  <1>6. TwoCancels(d)
    BY <1>0, <1>3, CancelKeepsTwo DEF e
  \* The other cancel that was waiting does not go on.
  <1>7. ASSUME NEW p \in Cancels(b) PROVE ~b[p].again
    <2>1. p + 1 \in Cancels(c) /\ 1 < p + 1 /\ b[p] = c[p + 1]
      BY <1>1, <1>4
    <2> QED BY <1>5, <2>1 DEF TwoCancels
  <1> HIDE DEF d, n
  <1>8. Apart(d)
    <2>1. ASSUME NEW p \in Cancels(d) PROVE ~d[p].again
      BY <1>0, <1>2, <1>4, <1>7
    <2> QED BY <2>1 DEF Apart
  <1>9. Spare(c, t, l) => Spare(d, t, m)
    BY <1>1, <1>2 DEF Spare
  <1>10. LeavesOne(c, t, l) /\ Apart(c) => LeavesOne(d, t, m)
    <2> SUFFICES ASSUME LeavesOne(c, t, l), Apart(c), NEW p \in Cancels(d), NEW q \in Cancels(d),
                        \A r \in Cancels(d) : p <= r /\ r <= q
                 PROVE  ~d[p].again /\ \E i \in Consumes(d) : i < p
      BY <1>2 DEF LeavesOne
    <2>1. ~d[p].again
      BY <1>0, <1>2, <1>4, <1>7
    <2>2. CASE Cancels(b) = {}
      <3>1. \A r \in Cancels(c) : 1 <= r /\ r <= 1
        BY <1>1, <2>2
      <3>2. PICK i \in Consumes(c) : 1 < i
        BY <1>1, <1>5, <3>1 DEF LeavesOne
      <3>3. i - 1 \in Consumes(d) /\ i - 1 < n /\ p = n
        BY <1>1, <1>2, <1>4, <2>2, <3>2
      <3> QED BY <2>1, <3>3
    <2>3. ASSUME NEW o \in Cancels(b) PROVE \E i \in Consumes(d) : i < p
      <3>1. o + 1 \in Cancels(c) /\ 1 < o + 1 /\ o \in Nat /\ o < n
        BY <1>1, <1>2, <1>4
      <3>2. PICK i \in Consumes(c) : 1 < i /\ i < o + 1
        BY <1>1, <1>5, <3>1 DEF Apart
      <3>3. i - 1 \in Consumes(d) /\ i - 1 < o
        BY <1>1, <1>2, <1>4, <3>1, <3>2
      <3>4. o <= p
        <4>1. p = n \/ p = o
          BY <1>2, <1>3
        <4> QED BY <1>4, <3>1, <4>1
      <3>5. i \in Nat /\ p \in Nat
        BY <1>2, <1>4
      <3> QED BY <3>1, <3>3, <3>4, <3>5
    <2> QED BY <2>1, <2>2, <2>3
  <1> QED BY <1>6, <1>8, <1>9, <1>10 DEF d, b, e

----------------------------------------------------------------------------
(* A consumer for a worker whose services are up                           *)

\* The calls `c`, and whether the worker wants a consumer now.
Promise(c, t, l, wanted) ==
    /\ TwoCancels(c)
    /\ Spare(c, t, l) \/ Apart(c)
    /\ wanted => Spare(c, t, l) \/ LeavesOne(c, t, l)

\* Of a worker that has not begun to close: it is paused only while a service is
\* down, and the calls waiting on an open channel lead to a consumer, unless three
\* pauses overlapped.
ConsumerToCome ==
    stop = "no" =>
        /\ paused => ~isAvailable
        /\ conn = "up" /\ ~crowded => Promise(calls, tag, live, registered /\ ~paused)

\* Before consumeMessages there is nothing to pause.
Idle == ~registered => calls = <<>> /\ tag = NoTag

LEMMA IdleInit == Init => Idle
  BY DEF Init, Idle

LEMMA IdleStep == Idle /\ [Next]_vars => Idle'
  <1> SUFFICES ASSUME Idle, [Next]_vars, ~registered' PROVE calls' = <<>> /\ tag' = NoTag
    BY DEF Idle
  <1>1. ~registered
    BY DEF Next, vars, consumeMessages, ConsumeOk, ConsumeRefused, CancelOk, ConnectionLost,
           Reconnect, ServiceDown, ServiceUp, Close, stopConsuming, Disconnect
  <1>2. calls = <<>> /\ tag = NoTag
    BY <1>1 DEF Idle
  <1>3. ~(consumeMessages \/ ConsumeOk \/ ConsumeRefused \/ CancelOk \/ stopConsuming)
    BY <1>1, <1>2 DEF consumeMessages, ConsumeOk, ConsumeRefused, CancelOk, Answered,
                      stopConsuming
  <1>4. CASE ConnectionLost \/ Disconnect
    BY <1>4 DEF ConnectionLost, Disconnect, Closed
  <1>5. CASE Reconnect
    BY <1>1, <1>2, <1>5 DEF Reconnect, MqUp, resumeConsuming
  <1>6. CASE ServiceDown
    BY <1>2, <1>6 DEF ServiceDown, pauseConsuming, doCancelAll
  <1>7. CASE ServiceUp
    BY <1>1, <1>2, <1>7 DEF ServiceUp, resumeConsuming
  <1>8. CASE Close \/ UNCHANGED vars
    BY <1>2, <1>8 DEF Close, vars
  <1> QED BY <1>3, <1>4, <1>5, <1>6, <1>7, <1>8 DEF Next

LEMMA NoCalls ==
    ASSUME NEW t, NEW l, NEW wanted
    PROVE  /\ Promise(<<>>, t, l, FALSE)
           /\ \A who \in {"initial", "resume", "restore"} :
                 Promise(Append(<<>>, Consume(who)), t, l, wanted)
  <1>1. <<>> \in Seq(Call) /\ Cancels(<<>>) = {}
    BY DEF Cancels
  <1>2. TwoCancels(<<>>) /\ Apart(<<>>)
    BY <1>1 DEF TwoCancels, Apart
  <1>3. Promise(<<>>, t, l, FALSE)
    BY <1>2 DEF Promise
  <1>4. ASSUME NEW who \in {"initial", "resume", "restore"}
        PROVE  Promise(Append(<<>>, Consume(who)), t, l, wanted)
    <2>1. LET d == Append(<<>>, Consume(who))
          IN  TwoCancels(d) /\ Apart(d) /\ LeavesOne(d, t, l)
      BY <1>1, <1>2, ConsumeLeavesOne
    <2> QED BY <2>1 DEF Promise
  <1> QED BY <1>3, <1>4

\* resumeConsuming, with the calls it finds: where no cancel waits, the consume it
\* makes is all that a consumer takes, whatever went before.
LEMMA ResumePromise ==
    ASSUME NEW c \in Seq(Call), NEW t, NEW l, TypeOK, stop = "no", conn' = "up",
           registered' = registered, resumeConsuming(c),
           ~crowded => Promise(c, t, l, registered /\ ~paused)
    PROVE  ~paused' /\ (~crowded' => Promise(calls', t, l, registered' /\ ~paused'))
  <1>1. ~paused' /\ ~stopping
    BY DEF resumeConsuming, stopping
  <1>2. CASE paused /\ registered
    <2>1. calls' = Append(c, Consume("resume")) /\ calls' # c
      <3>1. calls' = Append(c, Consume("resume"))
        BY <1>1, <1>2 DEF resumeConsuming
      <3>2. Len(Append(c, Consume("resume"))) # Len(c)
        OBVIOUS
      <3> QED BY <3>1, <3>2
    <2>2. CASE ~crowded
      BY <1>1, <2>1, <2>2, ConsumeLeavesOne DEF Promise
    <2>3. CASE Cancels(c) = {}
      <3>1. TwoCancels(c) /\ Apart(c)
        BY <2>3 DEF TwoCancels, Apart
      <3> QED BY <1>1, <2>1, <3>1, ConsumeLeavesOne DEF Promise
    <2>4. CASE crowded /\ Cancels(c) # {}
      <3>1. crowded'
        BY <2>4 DEF resumeConsuming
      <3> QED BY <1>1, <3>1
    <2> QED BY <2>2, <2>3, <2>4
  <1>3. CASE ~(paused /\ registered)
    <2>1. calls' = c /\ crowded' = crowded
      BY <1>3 DEF resumeConsuming, TypeOK
    <2> QED BY <1>1, <1>3, <2>1 DEF Promise
  <1> QED BY <1>2, <1>3

LEMMA InitToCome == Init => ConsumerToCome
  BY NoCalls DEF Init, ConsumerToCome

\* A pause that makes its cancel is the third to overlap, or finds at most one waiting.
LEMMA OneCancelWaits ==
    ASSUME pauseConsuming(calls), calls' # calls, ~crowded'
    PROVE  ~crowded /\ \A p, q \in Cancels(calls) : p = q
  BY DEF pauseConsuming

LEMMA AnswersLead ==
    ASSUME ConsumerInvariant, ConsumerToCome, stop' = "no",
           consumeMessages \/ ConsumeOk \/ ConsumeRefused \/ CancelOk
    PROVE  ConsumerToCome'
  <1>0. TypeOK /\ calls \in Seq(Call) /\ live \in SUBSET Tag
    BY DEF ConsumerInvariant, TypeOK
  <1>1. CASE consumeMessages
    <2>1. stop = "no" /\ UNCHANGED <<conn, paused, svc, mq, tag, live, crowded>>
      BY <1>1 DEF consumeMessages
    <2>2. CASE conn = "up" /\ ~paused
      <3>1. calls' = Append(calls, Consume("initial"))
        BY <1>1, <2>2 DEF consumeMessages, connected
      <3>2. ~crowded => Promise(calls', tag, live, TRUE)
        BY <1>0, <2>1, <2>2, <3>1, ConsumeLeavesOne DEF ConsumerToCome, Promise
      <3> QED BY <2>1, <2>2, <3>2 DEF ConsumerToCome, Promise, isAvailable
    <2>3. CASE conn # "up" \/ paused
      <3>1. conn = "up" => calls' = calls
        BY <1>1, <2>3 DEF consumeMessages
      <3> QED BY <2>1, <2>3, <3>1 DEF ConsumerToCome, Promise, isAvailable
    <2> QED BY <2>2, <2>3
  <1>2. CASE ConsumeOk
    <2>1. /\ calls # <<>> /\ Head(calls).kind = "consume" /\ conn = "up" /\ stop = "no"
          /\ UNCHANGED <<conn, registered, svc>>
      BY <1>2 DEF ConsumeOk, Answered
    <2>2. Head(calls).who # "restore"
      BY <1>0, <2>1 DEF ConsumerInvariant, NothingToRestore, Waits
    <2>3. calls' = Tail(calls) /\ UNCHANGED <<mq, paused, crowded>>
      BY <1>2, <2>2 DEF ConsumeOk
    <2>4. tag' \notin live \cup {tag} \cup Cancelled(calls) /\ live' = live \cup {tag'}
      BY <1>2 DEF ConsumeOk
    <2>5. ~crowded => Promise(calls, tag, live, registered /\ ~paused)
      BY <2>1 DEF ConsumerToCome
    <2>6. ~crowded => Promise(calls', tag', live', registered /\ ~paused)
      BY <1>0, <2>1, <2>3, <2>4, <2>5, ConsumeAnswered DEF Promise
    <2> QED BY <2>1, <2>3, <2>6 DEF ConsumerToCome, isAvailable
  <1>3. CASE ConsumeRefused
    <2>1. /\ calls # <<>> /\ conn' = "broken" /\ stop = "no" /\ svc' = svc
      BY <1>3 DEF ConsumeRefused, Answered
    <2>2. Head(calls).who # "restore"
      BY <1>0, <2>1 DEF ConsumerInvariant, NothingToRestore, Waits
    <2>3. UNCHANGED <<mq, paused>>
      BY <1>3, <2>2 DEF ConsumeRefused
    <2> QED BY <2>1, <2>3 DEF ConsumerToCome, isAvailable
  <1>4. CASE CancelOk
    <2>1. /\ calls # <<>> /\ Head(calls).kind = "cancel" /\ conn = "up" /\ stop = "no"
          /\ UNCHANGED <<conn, registered, paused, svc, mq, crowded>>
          /\ live' = live \ {Head(calls).tag}
      BY <1>4 DEF CancelOk, Answered
    <2>2. Head(calls).who \in {"pause", "stop"}
      BY <1>0, <2>1, TailCalls DEF Call
    <2>3. ~crowded => Promise(calls, tag, live, registered /\ ~paused)
      BY <2>1 DEF ConsumerToCome
    <2>4. CASE Head(calls).again /\ tag # NoTag
      <3>1. tag' = tag /\ calls' = Append(Tail(calls), Cancel(Head(calls).who, tag))
        BY <1>4, <2>4 DEF CancelOk, doCancelAll
      <3>2. tag \in Tag
        BY <1>0, <2>4 DEF TypeOK
      <3>3. ~crowded => Promise(calls', tag', live', registered /\ ~paused)
        BY <1>0, <2>1, <2>2, <2>3, <2>4, <3>1, <3>2, CancelGoesOn DEF Promise
      <3> QED BY <2>1, <3>3 DEF ConsumerToCome, isAvailable
    <2>5. CASE ~(Head(calls).again /\ tag # NoTag)
      <3>1. tag' = NoTag /\ calls' = Emptied(Tail(calls))
        BY <1>4, <2>5 DEF CancelOk
      <3>2. ~Head(calls).again \/ tag = NoTag
        BY <2>5
      <3>3. ~crowded => Promise(calls', tag', live', registered /\ ~paused)
        BY <1>0, <2>1, <2>3, <3>1, <3>2, CancelClears DEF Promise
      <3> QED BY <2>1, <3>3 DEF ConsumerToCome, isAvailable
    <2> QED BY <2>4, <2>5
  <1> QED BY <1>1, <1>2, <1>3, <1>4

LEMMA ConnectionLeads ==
    ASSUME ConsumerInvariant, ConsumerToCome, stop' = "no",
           ConnectionLost \/ Reconnect \/ Disconnect
    PROVE  ConsumerToCome'
  <1>0. TypeOK /\ <<>> \in Seq(Call)
    BY DEF ConsumerInvariant
  <1>1. CASE ConnectionLost
    <2>1. conn' = "down" /\ stop = "no"
      BY <1>1 DEF ConnectionLost, Closed
    <2>2. ~mq'
      BY <1>1, <2>1 DEF ConnectionLost, ConsumerInvariant, NothingToRestore
    <2> QED BY <2>1, <2>2 DEF ConsumerToCome, isAvailable
  <1>2. CASE Reconnect
    <2>1. conn = "down" /\ conn' = "up" /\ stop = "no" /\ ~mq
          /\ UNCHANGED <<registered, tag, svc, live>>
      BY <1>2 DEF Reconnect, ConsumerInvariant, NothingToRestore
    <2>2. paused
      BY <2>1 DEF ConsumerInvariant, NothingToRestore, isAvailable
    <2>3. MqUp(<<>>)
      BY <1>2, <2>2 DEF Reconnect
    <2>4. Promise(<<>>, tag, live, registered /\ ~paused)
      BY <2>2, NoCalls DEF Promise
    <2>5. CASE svc
      <3>1. resumeConsuming(<<>>)
        BY <2>1, <2>3, <2>5 DEF MqUp
      <3>2. ~paused' /\ (~crowded' => Promise(calls', tag, live, registered' /\ ~paused'))
        BY <1>0, <2>1, <2>4, <3>1, ResumePromise
      <3> QED BY <2>1, <3>2 DEF ConsumerToCome
    <2>6. CASE ~svc
      <3>1. paused' = paused /\ calls' = <<>>
        BY <2>3, <2>6 DEF MqUp
      <3> QED BY <2>1, <2>4, <2>6, <3>1 DEF ConsumerToCome, isAvailable
    <2> QED BY <2>5, <2>6
  <1>3. CASE Disconnect
    BY <1>3 DEF Disconnect
  <1> QED BY <1>1, <1>2, <1>3

LEMMA WorkerLeads ==
    ASSUME ConsumerInvariant, Idle, ConsumerToCome, stop' = "no",
           ServiceDown \/ ServiceUp \/ Close \/ stopConsuming
    PROVE  ConsumerToCome'
  <1>0. TypeOK /\ calls \in Seq(Call)
    BY DEF ConsumerInvariant, TypeOK
  <1>1. CASE ServiceDown
    <2>1. /\ stop = "no" /\ ~closing /\ ~svc'
          /\ UNCHANGED <<conn, registered, tag, mq, live>>
      BY <1>1 DEF ServiceDown, closing
    <2>2. CASE conn # "up"
      BY <2>1, <2>2 DEF ConsumerToCome, isAvailable
    <2>3. CASE conn = "up" /\ UNCHANGED <<paused, calls, crowded>>
      BY <2>1, <2>3 DEF ConsumerToCome, isAvailable
    <2>4. CASE conn = "up" /\ pauseConsuming(calls)
      <3>1. paused'
        BY <2>4 DEF pauseConsuming
      <3>2. ~crowded => Promise(calls, tag, live, registered /\ ~paused)
        BY <2>1, <2>4 DEF ConsumerToCome
      <3>3. CASE calls' = calls
        <4>1. ~crowded' => ~crowded
          BY <2>4, <3>3 DEF pauseConsuming
        <4> QED BY <2>1, <3>1, <3>2, <3>3, <4>1 DEF ConsumerToCome, isAvailable, Promise
      <3>4. CASE calls' # calls
        <4> SUFFICES ASSUME ~crowded' PROVE Promise(calls', tag, live, FALSE)
          BY <2>1, <3>1 DEF ConsumerToCome, isAvailable, Promise
        <4>1. tag # NoTag /\ calls' = Append(calls, Cancel("pause", tag)) /\ ~paused
          BY <2>4, <3>4 DEF pauseConsuming, doCancelAll
        <4>2. tag \in Tag
          BY <1>0, <4>1 DEF TypeOK
        <4>3. ~crowded /\ \A p, q \in Cancels(calls) : p = q
          BY <2>4, <3>4, OneCancelWaits
        <4>4. TwoCancels(calls')
          BY <1>0, <4>1, <4>2, <4>3, CancelKeepsTwo
        <4>5. Spare(calls, tag, live) => Spare(calls', tag, live)
          <5>1. Cancel("pause", tag) \in Call /\ Cancel("pause", tag).kind = "cancel"
                /\ Cancel("pause", tag).tag = tag
            BY <4>2 DEF Cancel, Call
          <5>2. Cancelled(calls') = Cancelled(calls) \cup {tag}
            BY <1>0, <4>1, <5>1, AppendCalls
          <5> QED BY <5>2 DEF Spare
        <4>6. registered
          BY <4>1 DEF Idle
        <4>7. LeavesOne(calls, tag, live) => Apart(calls')
          BY <1>0, <3>2, <4>1, <4>2, <4>3, CancelKeepsApart DEF Promise
        <4> QED BY <3>2, <4>1, <4>3, <4>4, <4>5, <4>6, <4>7 DEF Promise
      <3> QED BY <3>3, <3>4
    <2> QED BY <1>1, <2>2, <2>3, <2>4 DEF ServiceDown
  <1>2. CASE ServiceUp
    <2>1. stop = "no" /\ ~svc /\ UNCHANGED <<conn, registered, tag, mq, live>>
      BY <1>2 DEF ServiceUp
    <2>2. CASE mq
      <3>1. resumeConsuming(calls)
        BY <1>2, <2>2 DEF ServiceUp
      <3>2. ~paused'
        BY <2>1, <3>1 DEF resumeConsuming, stopping
      <3>3. CASE conn = "up"
        <4>1. ~crowded' => Promise(calls', tag, live, registered' /\ ~paused')
          BY <1>0, <2>1, <3>1, <3>3, ResumePromise DEF ConsumerToCome
        <4> QED BY <2>1, <3>2, <4>1 DEF ConsumerToCome
      <3> QED BY <2>1, <3>2, <3>3 DEF ConsumerToCome
    <2>3. CASE ~mq
      <3>1. UNCHANGED <<paused, calls, crowded>>
        BY <1>2, <2>3 DEF ServiceUp
      <3> QED BY <2>1, <2>3, <3>1 DEF ConsumerToCome, isAvailable
    <2> QED BY <2>2, <2>3
  <1>3. CASE Close \/ stopConsuming
    BY <1>3 DEF Close, stopConsuming
  <1> QED BY <1>1, <1>2, <1>3

LEMMA LeadsStep ==
    ConsumerInvariant /\ Idle /\ ConsumerToCome /\ [Next]_vars => ConsumerToCome'
  <1> SUFFICES ASSUME ConsumerInvariant, Idle, ConsumerToCome, [Next]_vars,
                      stop' = "no"
               PROVE  ConsumerToCome'
    BY DEF ConsumerToCome
  <1>1. CASE Next
    BY <1>1, AnswersLead, ConnectionLeads, WorkerLeads DEF Next
  <1>2. CASE UNCHANGED vars
    BY <1>2 DEF vars, ConsumerToCome, isAvailable
  <1> QED BY <1>1, <1>2

\* However many outages and lost connections there are, and however their calls are
\* interleaved with the answers of the broker, a worker whose services are up has a
\* consumer once every call is answered, unless three pauses overlapped since a
\* resume last found no cancel waiting or the connection was last lost.
THEOREM ConsumerComes == Spec => []AvailableConsumes
  <1>1. ConsumerToCome => AvailableConsumes
    <2> SUFFICES ASSUME ConsumerToCome, Settled, registered, isAvailable, stop = "no", ~crowded
                 PROVE  live # {}
      BY DEF AvailableConsumes
    <2>1. Promise(calls, tag, live, TRUE)
      BY DEF ConsumerToCome, Settled
    <2>2. Cancels(calls) = {} /\ Consumes(calls) = {}
      BY DEF Settled, Cancels, Consumes
    <2> QED BY <2>1, <2>2 DEF Promise, Spare, LeavesOne, Kept
  <1>2. ConsumerInvariant /\ Idle /\ ConsumerToCome /\ [Next]_vars => ConsumerToCome'
    BY LeadsStep
  <1> QED BY InvariantHolds, IdleInit, IdleStep, InitToCome, <1>1, <1>2, PTL DEF Spec
==============================================================================
