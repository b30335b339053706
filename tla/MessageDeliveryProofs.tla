----------------------- MODULE MessageDeliveryProofs -----------------------
(***************************************************************************)
(* Theorems about MessageDelivery, for any messages, retry limit, prefetch *)
(* and number of connections and outages.                                  *)
(***************************************************************************)
EXTENDS MessageDelivery, TLAPS

\* What a delivery is made of.
LEMMA DeliveryParts ==
    ASSUME NEW d \in Delivery
    PROVE  Msg(d) \in Message /\ Chan(d) \in Channel /\ d = <<Msg(d), Chan(d)>>
BY DEF Delivery, Msg, Chan

LEMMA DeliveryPair ==
    ASSUME NEW m \in Message, NEW c \in Channel
    PROVE  <<m, c>> \in Delivery /\ Msg(<<m, c>>) = m /\ Chan(<<m, c>>) = c
BY DEF Delivery, Msg, Chan

\* Settling a delivery keeps the broker's and the client's state well typed.
LEMMA SettleType ==
    ASSUME TypeOK, NEW d \in Delivery, NEW o, Settle(d, o)
    PROVE  /\ queue' \in SUBSET Message /\ acked' \in SUBSET Message
           /\ dlq' \in SUBSET Message
           /\ unacked' \in [Channel -> SUBSET Message]
           /\ pc' \in [Delivery -> Pc]
BY DeliveryParts DEF TypeOK, Settle, Pc

LEMMA GoToType ==
    ASSUME TypeOK, NEW d \in Delivery, NEW w \in Pc, GoTo(d, w)
    PROVE  /\ queue' \in SUBSET Message /\ acked' \in SUBSET Message
           /\ dlq' \in SUBSET Message
           /\ unacked' \in [Channel -> SUBSET Message]
           /\ pc' \in [Delivery -> Pc]
BY DEF TypeOK, GoTo, KeepBroker, Pc

\* The counters of a delivery that is being handled stay in range.
Counted == \A d \in Delivery :
    pc[d] \in {"handling", "awaitReady", "delay"} => upFails[d] = retries[d]

LEMMA TypeStep == TypeOK /\ Counted /\ [Next]_vars => TypeOK'
<1> SUFFICES ASSUME TypeOK, Counted, [Next]_vars PROVE TypeOK'
  OBVIOUS
<1> USE DeliveryAssumption
<1>1. CASE UNCHANGED vars
  BY <1>1 DEF connection, TypeOK, vars, brokerVars, clientVars, workerVars, history
<1>2. CASE BrokerConsume
  BY <1>2 DEF connection, TypeOK, BrokerConsume, clientVars, workerVars, history
<1>3. CASE BrokerCancel
  BY <1>3 DEF connection, TypeOK, BrokerCancel, clientVars, workerVars, history
<1>4. ASSUME NEW m \in Message, BrokerSend(m) PROVE TypeOK'
  BY <1>4 DEF connection, TypeOK, BrokerSend, workerVars, history, Pc
<1>5. ASSUME NEW c \in Channel, BrokerDropsChannel(c) PROVE TypeOK'
  BY <1>5 DEF connection, TypeOK, BrokerDropsChannel, clientVars, workerVars, history
<1>6. ASSUME NEW d \in Delivery, HandleDelivery(d) PROVE TypeOK'
  <2>1. Settle(d, "requeue") \/ GoTo(d, "decoding")
    BY <1>6 DEF HandleDelivery
  <2>2. /\ queue' \in SUBSET Message /\ acked' \in SUBSET Message
        /\ dlq' \in SUBSET Message
        /\ unacked' \in [Channel -> SUBSET Message]
        /\ pc' \in [Delivery -> Pc]
    BY <2>1, SettleType, GoToType DEF Pc
  <2>3. retries' \in [Delivery -> 0..MaxRetries]
    BY <1>6 DEF TypeOK, HandleDelivery
  <2>4. upFails' \in [Delivery -> 0..(MaxRetries + 1)]
    BY <1>6 DEF TypeOK, HandleDelivery
  <2> QED BY <1>6, <2>2, <2>3, <2>4 DEF connection, TypeOK, HandleDelivery, workerVars
<1>7. ASSUME NEW d \in Delivery, Decode(d) PROVE TypeOK'
  <2>1. Settle(d, "deadLetter") \/ GoTo(d, "handling")
    BY <1>7 DEF Decode
  <2>2. /\ queue' \in SUBSET Message /\ acked' \in SUBSET Message
        /\ dlq' \in SUBSET Message
        /\ unacked' \in [Channel -> SUBSET Message]
        /\ pc' \in [Delivery -> Pc]
    BY <2>1, SettleType, GoToType DEF Pc
  <2> QED BY <1>7, <2>2 DEF connection, TypeOK, Decode, workerVars, history
<1>8. ASSUME NEW d \in Delivery, HandlerResolves(d) PROVE TypeOK'
  BY <1>8, SettleType, DeliveryParts DEF connection, TypeOK, HandlerResolves, workerVars
<1>9. ASSUME NEW d \in Delivery, NEW t \in BOOLEAN, HandlerRejects(d, t) PROVE TypeOK'
  <2>1. \/ Settle(d, "requeue") \/ Settle(d, "deadLetter")
        \/ GoTo(d, "awaitReady") \/ GoTo(d, "delay")
    BY <1>9 DEF HandlerRejects
  <2>2. /\ queue' \in SUBSET Message /\ acked' \in SUBSET Message
        /\ dlq' \in SUBSET Message
        /\ unacked' \in [Channel -> SUBSET Message]
        /\ pc' \in [Delivery -> Pc]
    BY <2>1, SettleType, GoToType DEF Pc
  <2>3. retries' \in [Delivery -> 0..MaxRetries]
    BY <1>9 DEF TypeOK, HandlerRejects, RetriesExhausted
  <2>4. upFails' \in [Delivery -> 0..(MaxRetries + 1)]
    BY <1>9 DEF TypeOK, HandlerRejects, Counted
  <2>5. terminal' \in SUBSET Message
    BY <1>9, DeliveryParts DEF TypeOK, HandlerRejects
  <2> QED BY <1>9, <2>2, <2>3, <2>4, <2>5 DEF connection, TypeOK, HandlerRejects, workerVars
<1>10. ASSUME NEW d \in Delivery, DelayElapsed(d) PROVE TypeOK'
  <2>1. Settle(d, "requeue") \/ GoTo(d, "handling")
    BY <1>10 DEF DelayElapsed, RetryOrRequeue
  <2>2. /\ queue' \in SUBSET Message /\ acked' \in SUBSET Message
        /\ dlq' \in SUBSET Message
        /\ unacked' \in [Channel -> SUBSET Message]
        /\ pc' \in [Delivery -> Pc]
    BY <2>1, SettleType, GoToType DEF Pc
  <2> QED BY <1>10, <2>2 DEF connection, TypeOK, DelayElapsed, workerVars, history
<1>11. CASE ServiceDown
  <2>1. outages' \in 0..MaxOutages
    BY <1>11 DEF TypeOK, ServiceDown
  <2>2. paused' \in BOOLEAN /\ svc' \in BOOLEAN
    BY <1>11, Zenon DEF ServiceDown, Gate, TypeOK
  <2> QED BY <1>11, <2>1, <2>2 DEF connection, TypeOK, ServiceDown, brokerVars, history
<1>12. CASE ServiceUp
  <2>1. pc' \in [Delivery -> Pc] /\ paused' \in BOOLEAN
    BY <1>12 DEF TypeOK, ServiceUp, AllConnected, WakeReady, Pc, stopping
  <2> QED BY <1>12, <2>1 DEF connection, TypeOK, ServiceUp, brokerVars, history
<1>13. CASE ConnectionLost
  <2>1. paused' \in BOOLEAN /\ mq' \in BOOLEAN
    BY <1>13, Zenon DEF ConnectionLost, Gate, TypeOK
  <2> QED BY <1>13, <2>1 DEF TypeOK, ConnectionLost, LoseArriving, history, Pc
<1>14. CASE Reconnect
  <2>1. pc' \in [Delivery -> Pc] /\ paused' \in BOOLEAN
    BY <1>14 DEF TypeOK, Reconnect, Connected, AllConnected, WakeReady, Pc, stopping
  <2>2. mq' \in BOOLEAN /\ tryInFlight' \in BOOLEAN
    BY <1>14 DEF TypeOK, Reconnect, Connected
  <2> QED BY <1>14, <2>1, <2>2 DEF TypeOK, Reconnect, history, Channel
<1>15. CASE ConnectEvent
  <2>1. pc' \in [Delivery -> Pc] /\ paused' \in BOOLEAN
    BY <1>15 DEF TypeOK, ConnectEvent, Connected, AllConnected, WakeReady, Pc, stopping
  <2> QED BY <1>15, <2>1 DEF TypeOK, ConnectEvent, Connected, brokerVars, history
<1>16. CASE StopConsuming
  <2>1. {Msg(d) : d \in {w \in Waiting : Held(w)}} \subseteq Message
    BY DeliveryParts DEF Waiting
  <2> QED BY <1>16, <2>1 DEF connection, TypeOK, StopConsuming, workerVars, history, Pc, Stop
<1>17. CASE Close \/ StopReturns \/ StopTimesOut
  BY <1>17 DEF connection, TypeOK, Close, StopReturns, StopTimesOut, Stop, brokerVars, workerVars, history
<1>18. CASE Disconnect
  BY <1>18 DEF TypeOK, Disconnect, LoseArriving, Stop, Pc, history
<1>19. ASSUME NEW d \in Delivery, DeliveryStep(d) PROVE TypeOK'
  BY <1>6, <1>7, <1>8, <1>9, <1>10, <1>19 DEF DeliveryStep
<1> QED
  BY <1>1, <1>2, <1>3, <1>4, <1>5, <1>11, <1>12, <1>13, <1>14, <1>15, <1>16,
     <1>17, <1>18, <1>19 DEF Next

----------------------------------------------------------------------------
(* Conservation *)

Outcome == {"ack", "requeue", "deadLetter"}

LEMMA SettleConserves ==
    ASSUME TypeOK, Conservation, NEW d \in Delivery, NEW o \in Outcome, Settle(d, o)
    PROVE  Conservation'
<1>1. CASE ~Held(d)
  <2>1. UNCHANGED <<queue, unacked, acked, dlq>>
    BY <1>1 DEF Settle
  <2> QED BY <2>1 DEF Conservation
<1>2. CASE Held(d)
  <2> DEFINE m == Msg(d)
             c == Chan(d)
  <2>1. m \in Message /\ c \in Channel /\ m \in unacked[c]
    BY <1>2, DeliveryParts DEF Held
  <2>2. unacked' = [unacked EXCEPT ![c] = @ \ {m}]
    BY <1>2 DEF Settle
  <2>3. CASE o = "ack"
    <3>1. queue' = queue /\ dlq' = dlq /\ acked' = acked \cup {m}
      BY <1>2, <2>3 DEF Settle
    <3> HIDE DEF m, c
    <3> QED BY <2>1, <2>2, <3>1 DEF Conservation, TypeOK
  <2>4. CASE o = "requeue"
    <3>1. queue' = queue \cup {m} /\ dlq' = dlq /\ acked' = acked
      BY <1>2, <2>4 DEF Settle
    <3> HIDE DEF m, c
    <3> QED BY <2>1, <2>2, <3>1 DEF Conservation, TypeOK
  <2>5. CASE o = "deadLetter"
    <3>1. queue' = queue /\ dlq' = dlq \cup {m} /\ acked' = acked
      BY <1>2, <2>5 DEF Settle
    <3> HIDE DEF m, c
    <3> QED BY <2>1, <2>2, <3>1 DEF Conservation, TypeOK
  <2> QED BY <2>3, <2>4, <2>5 DEF Outcome
<1> QED BY <1>1, <1>2

LEMMA KeepConserves == Conservation /\ KeepBroker => Conservation'
BY DEF Conservation, KeepBroker

\* A channel the broker gave up holds nothing.
DeadChannelsEmpty == \A c \in Channel \ open : unacked[c] = {}

LEMMA ConservationStep ==
    TypeOK /\ Conservation /\ DeadChannelsEmpty /\ [Next]_vars => Conservation'
<1> SUFFICES ASSUME TypeOK, Conservation, DeadChannelsEmpty, [Next]_vars
             PROVE  Conservation'
  OBVIOUS
<1> USE DeliveryAssumption
<1>1. CASE UNCHANGED vars
  BY <1>1 DEF Conservation, vars, brokerVars
<1>2. CASE BrokerConsume \/ BrokerCancel
  BY <1>2 DEF Conservation, BrokerConsume, BrokerCancel
<1>3. ASSUME NEW m \in Message, BrokerSend(m) PROVE Conservation'
  <2>1. channel \in Channel
    BY <1>3 DEF BrokerSend, TypeOK
  <2> QED BY <1>3, <2>1 DEF BrokerSend, Conservation, TypeOK
<1>4. ASSUME NEW c \in Channel, BrokerDropsChannel(c) PROVE Conservation'
  BY <1>4 DEF BrokerDropsChannel, Conservation, TypeOK
<1>5. ASSUME NEW d \in Delivery, DeliveryStep(d) PROVE Conservation'
  <2>1. KeepBroker \/ \E o \in Outcome : Settle(d, o)
    BY <1>5 DEF DeliveryStep, HandleDelivery, Decode, HandlerResolves, HandlerRejects,
                DelayElapsed, RetryOrRequeue, GoTo, Outcome
  <2> QED BY <2>1, SettleConserves, KeepConserves
<1>6. CASE ServiceDown \/ ServiceUp \/ ConnectEvent \/ Close \/ StopReturns \/ StopTimesOut
  BY <1>6 DEF ServiceDown, ServiceUp, ConnectEvent, Close, StopReturns, StopTimesOut,
              brokerVars, Conservation
<1>7. CASE ConnectionLost \/ Reconnect
  BY <1>7 DEF ConnectionLost, Reconnect, Conservation
<1>8. CASE StopConsuming
  <2> DEFINE back == {Msg(d) : d \in {w \in Waiting : Held(w)}}
  <2>1. back \subseteq Message /\ \A m \in back : channel \in Channel /\ m \in unacked[channel]
    BY DeliveryParts DEF Waiting, Held, isLive
  <2>2. /\ queue' = queue \cup back /\ acked' = acked /\ dlq' = dlq
        /\ unacked' = [c \in Channel |-> IF c = channel THEN unacked[c] \ back ELSE unacked[c]]
    BY <1>8 DEF StopConsuming
  <2> HIDE DEF back
  <2> QED BY <2>1, <2>2 DEF Conservation, TypeOK
<1>9. CASE Disconnect
  <2>1. channel \in Channel \ open => unacked[channel] = {}
    BY DEF DeadChannelsEmpty
  <2> QED BY <1>9, <2>1 DEF Disconnect, Conservation, TypeOK
<1> QED
  BY <1>1, <1>2, <1>3, <1>4, <1>5, <1>6, <1>7, <1>8, <1>9 DEF Next

----------------------------------------------------------------------------
(* DeliveryInvariant, in three parts *)

\* Retry counters and decodability of what is being handled.
CountersOK ==
    \A d \in Delivery :
        /\ pc[d] \in {"handling", "awaitReady", "delay"} =>
              upFails[d] = retries[d] /\ Msg(d) \notin Undecodable
        /\ pc[d] = "decoding" => upFails[d] = 0 /\ retries[d] = 0

\* What is on the wire.
WireOK ==
    \A d \in Delivery :
        pc[d] = "arriving" => isLive(d) /\ Msg(d) \notin acked \cup dlq

LEMMA DeliveryInvariantParts ==
    DeliveryInvariant <=> CountersOK /\ WireOK /\ DeadChannelsEmpty
BY DEF DeliveryInvariant, CountersOK, WireOK, DeadChannelsEmpty

LEMMA CountersStep == TypeOK /\ CountersOK /\ [Next]_vars => CountersOK'
<1> SUFFICES ASSUME TypeOK, CountersOK, [Next]_vars PROVE CountersOK'
  OBVIOUS
<1> USE DeliveryAssumption
<1>1. CASE UNCHANGED vars
  BY <1>1 DEF CountersOK, vars, clientVars, history
<1>2. CASE \/ BrokerConsume \/ BrokerCancel \/ \E c \in Channel : BrokerDropsChannel(c)
  BY <1>2 DEF CountersOK, BrokerConsume, BrokerCancel, BrokerDropsChannel, clientVars, history
<1>3. ASSUME NEW m \in Message, BrokerSend(m) PROVE CountersOK'
  BY <1>3 DEF CountersOK, BrokerSend, history, TypeOK
<1>4. ASSUME NEW d \in Delivery, HandleDelivery(d) PROVE CountersOK'
  BY <1>4 DEF CountersOK, HandleDelivery, Settle, GoTo, TypeOK
<1>5. ASSUME NEW d \in Delivery, Decode(d) PROVE CountersOK'
  BY <1>5 DEF CountersOK, Decode, Settle, GoTo, TypeOK, history
<1>6. ASSUME NEW d \in Delivery, HandlerResolves(d) PROVE CountersOK'
  BY <1>6 DEF CountersOK, HandlerResolves, Settle, TypeOK
<1>7. ASSUME NEW d \in Delivery, NEW t \in BOOLEAN, HandlerRejects(d, t) PROVE CountersOK'
  <2>1. upFails[d] = retries[d] /\ Msg(d) \notin Undecodable
    BY <1>7 DEF CountersOK, HandlerRejects
  <2>2. CASE pc'[d] = "none"
    <3>1. pc' = [pc EXCEPT ![d] = "none"]
      BY <1>7, <2>2 DEF HandlerRejects, Settle, GoTo, TypeOK
    <3>2. \A e \in Delivery : e # d => upFails'[e] = upFails[e] /\ retries'[e] = retries[e]
      BY <1>7 DEF HandlerRejects, TypeOK
    <3> QED BY <3>1, <3>2 DEF CountersOK, TypeOK
  <2>3. CASE GoTo(d, "awaitReady") /\ retries' = retries /\ ~isAvailable
    BY <1>7, <2>1, <2>3 DEF CountersOK, HandlerRejects, GoTo, TypeOK
  <2>4. CASE /\ GoTo(d, "delay") /\ retries' = [retries EXCEPT ![d] = @ + 1]
             /\ upFails' = [upFails EXCEPT ![d] = @ + 1]
    BY <1>7, <2>1, <2>4 DEF CountersOK, GoTo, TypeOK
  <2> QED BY <1>7, <2>2, <2>3, <2>4 DEF HandlerRejects, Settle, HeldForServices, TypeOK
<1>8. ASSUME NEW d \in Delivery, DelayElapsed(d) PROVE CountersOK'
  BY <1>8 DEF CountersOK, DelayElapsed, RetryOrRequeue, Settle, GoTo, TypeOK, history
<1>9. CASE ServiceDown \/ Close \/ StopReturns \/ StopTimesOut
  BY <1>9 DEF CountersOK, ServiceDown, Close, StopReturns, StopTimesOut, history
<1>10. CASE ServiceUp \/ Reconnect \/ ConnectEvent
  <2>1. (UNCHANGED pc \/ WakeReady) /\ UNCHANGED <<retries, upFails>>
    BY <1>10 DEF ServiceUp, Reconnect, ConnectEvent, Connected, AllConnected, history
  <2> QED BY <2>1 DEF CountersOK, WakeReady, TypeOK
<1>11. CASE ConnectionLost \/ Disconnect
  BY <1>11 DEF CountersOK, ConnectionLost, Disconnect, LoseArriving, history
<1>12. CASE StopConsuming
  BY <1>12 DEF CountersOK, StopConsuming, Waiting, history
<1>13. ASSUME NEW d \in Delivery, DeliveryStep(d) PROVE CountersOK'
  BY <1>4, <1>5, <1>6, <1>7, <1>8, <1>13 DEF DeliveryStep
<1> QED
  BY <1>1, <1>2, <1>3, <1>9, <1>10, <1>11, <1>12, <1>13 DEF Next

LEMMA DeadChannelsStep == TypeOK /\ DeadChannelsEmpty /\ [Next]_vars => DeadChannelsEmpty'
<1> SUFFICES ASSUME TypeOK, DeadChannelsEmpty, [Next]_vars PROVE DeadChannelsEmpty'
  OBVIOUS
<1>1. CASE \/ UNCHANGED vars \/ BrokerConsume \/ BrokerCancel \/ ServiceDown \/ ServiceUp
           \/ ConnectionLost \/ Reconnect \/ ConnectEvent \/ Close \/ StopReturns \/ StopTimesOut
  BY <1>1 DEF DeadChannelsEmpty, vars, brokerVars, BrokerConsume, BrokerCancel, ServiceDown,
     ServiceUp, ConnectionLost, Reconnect, ConnectEvent, Close, StopReturns, StopTimesOut
<1>2. ASSUME NEW m \in Message, BrokerSend(m) PROVE DeadChannelsEmpty'
  BY <1>2 DEF DeadChannelsEmpty, BrokerSend, TypeOK
<1>3. ASSUME NEW c \in Channel, BrokerDropsChannel(c) PROVE DeadChannelsEmpty'
  BY <1>3 DEF DeadChannelsEmpty, BrokerDropsChannel, TypeOK
<1>4. ASSUME NEW d \in Delivery, DeliveryStep(d) PROVE DeadChannelsEmpty'
  <2>1. open' = open
    BY <1>4 DEF DeliveryStep, HandleDelivery, Decode, HandlerResolves, HandlerRejects,
                DelayElapsed
  <2>2. unacked' = unacked \/ unacked' = [unacked EXCEPT ![Chan(d)] = @ \ {Msg(d)}]
    BY <1>4 DEF DeliveryStep, HandleDelivery, Decode, HandlerResolves, HandlerRejects,
                DelayElapsed, RetryOrRequeue, GoTo, KeepBroker, Settle
  <2> QED BY <2>1, <2>2 DEF DeadChannelsEmpty, TypeOK
<1>5. CASE StopConsuming
  BY <1>5 DEF DeadChannelsEmpty, StopConsuming, TypeOK
<1>6. CASE Disconnect
  BY <1>6 DEF DeadChannelsEmpty, Disconnect, TypeOK
<1> QED BY <1>1, <1>2, <1>3, <1>4, <1>5, <1>6 DEF Next

\* What settling a delivery adds to acked and dlq.
LEMMA DeliveryStepAdds ==
    ASSUME TypeOK, NEW d \in Delivery, DeliveryStep(d)
    PROVE  /\ acked' \cup dlq' \subseteq acked \cup dlq \cup {m \in {Msg(d)} : Held(d)}
           /\ pc'[d] # "arriving"
           /\ \A e \in Delivery : e # d => pc'[e] = pc[e]
           /\ channel' = channel
<1>1. \/ \E o \in Outcome : Settle(d, o)
      \/ \E w \in {"decoding", "handling", "awaitReady", "delay"} : GoTo(d, w)
  BY DEF DeliveryStep, HandleDelivery, Decode, HandlerResolves, HandlerRejects,
         DelayElapsed, RetryOrRequeue, Outcome
<1>2. channel' = channel
  BY DEF connection, DeliveryStep, HandleDelivery, Decode, HandlerResolves, HandlerRejects, DelayElapsed
<1>3. ASSUME NEW o \in Outcome, Settle(d, o)
      PROVE  /\ acked' \cup dlq' \subseteq acked \cup dlq \cup {m \in {Msg(d)} : Held(d)}
             /\ pc'[d] # "arriving"
             /\ \A e \in Delivery : e # d => pc'[e] = pc[e]
  BY <1>3 DEF Settle, TypeOK
<1>4. ASSUME NEW w \in {"decoding", "handling", "awaitReady", "delay"}, GoTo(d, w)
      PROVE  /\ acked' \cup dlq' \subseteq acked \cup dlq \cup {m \in {Msg(d)} : Held(d)}
             /\ pc'[d] # "arriving"
             /\ \A e \in Delivery : e # d => pc'[e] = pc[e]
  BY <1>4 DEF GoTo, KeepBroker, TypeOK
<1> QED BY <1>1, <1>2, <1>3, <1>4

LEMMA WireStep == TypeOK /\ Conservation /\ WireOK /\ [Next]_vars => WireOK'
<1> SUFFICES ASSUME TypeOK, Conservation, WireOK, [Next]_vars PROVE WireOK'
  OBVIOUS
<1>1. CASE \/ UNCHANGED vars \/ BrokerConsume \/ BrokerCancel \/ ServiceDown
           \/ Close \/ StopReturns \/ StopTimesOut \/ \E c \in Channel : BrokerDropsChannel(c)
  BY <1>1 DEF connection, WireOK, vars, brokerVars, clientVars, BrokerConsume, BrokerCancel, ServiceDown,
     Close, StopReturns, StopTimesOut, BrokerDropsChannel, isLive
<1>2. ASSUME NEW m \in Message, BrokerSend(m) PROVE WireOK'
  <2>1. channel \in Channel /\ m \notin acked \cup dlq
    BY <1>2 DEF BrokerSend, TypeOK, Conservation
  <2> QED BY <1>2, <2>1, DeliveryPair DEF connection, WireOK, BrokerSend, TypeOK, isLive
<1>3. ASSUME NEW d \in Delivery, DeliveryStep(d) PROVE WireOK'
  <2> SUFFICES ASSUME NEW e \in Delivery, pc'[e] = "arriving"
               PROVE  isLive(e)' /\ Msg(e) \notin acked' \cup dlq'
    BY DEF WireOK
  <2>1. e # d /\ pc[e] = "arriving"
    BY <1>3, DeliveryStepAdds
  <2>2. isLive(e) /\ Msg(e) \notin acked \cup dlq
    BY <2>1 DEF WireOK
  <2>3. ~(Msg(e) = Msg(d) /\ Held(d))
    BY <2>1, <2>2, DeliveryParts DEF Held, isLive
  <2> QED BY <1>3, <2>2, <2>3, DeliveryStepAdds DEF isLive
<1>4. CASE ServiceUp \/ ConnectEvent
  <2>1. (UNCHANGED pc \/ WakeReady) /\ UNCHANGED <<acked, dlq, channel>>
    BY <1>4 DEF connection, ServiceUp, ConnectEvent, Connected, AllConnected, brokerVars
  <2> QED BY <2>1 DEF WireOK, WakeReady, TypeOK, isLive
<1>5. CASE ConnectionLost \/ Disconnect
  BY <1>5 DEF WireOK, ConnectionLost, Disconnect, LoseArriving, isLive
<1>6. CASE Reconnect
  <2>1. \A d \in Delivery : pc[d] # "arriving"
    BY <1>6, DeliveryParts DEF WireOK, Reconnect, isLive, NoChannel, Channel
  <2>2. UNCHANGED pc \/ WakeReady
    BY <1>6 DEF Reconnect, Connected, AllConnected
  <2>3. \A d \in Delivery : pc'[d] # "arriving"
    BY <2>1, <2>2 DEF WakeReady
  <2> QED BY <2>3 DEF WireOK
<1>7. CASE StopConsuming
  BY <1>7 DEF connection, WireOK, StopConsuming, isLive
<1> QED BY <1>1, <1>2, <1>3, <1>4, <1>5, <1>6, <1>7 DEF Next

----------------------------------------------------------------------------
(* Acks and dead letters *)

LEMMA AckedStep == TypeOK /\ CountersOK /\ AckedWasHandled /\ [Next]_vars => AckedWasHandled'
<1> SUFFICES ASSUME TypeOK, CountersOK, AckedWasHandled, [Next]_vars PROVE AckedWasHandled'
  OBVIOUS
<1>1. ASSUME NEW d \in Delivery, HandlerResolves(d) PROVE AckedWasHandled'
  <2>1. Msg(d) \notin Undecodable
    BY <1>1 DEF HandlerResolves, CountersOK
  <2> QED BY <1>1, <2>1 DEF HandlerResolves, Settle, AckedWasHandled
<1>2. ASSUME NEW d \in Delivery, DeliveryStep(d), ~HandlerResolves(d) PROVE AckedWasHandled'
  <2>1. UNCHANGED <<acked, succeeded>>
    BY <1>2 DEF DeliveryStep, HandleDelivery, Decode, HandlerRejects, DelayElapsed,
                RetryOrRequeue, Settle, GoTo, KeepBroker, history
  <2> QED BY <2>1 DEF AckedWasHandled
<1>3. CASE ~\E d \in Delivery : DeliveryStep(d)
  <2>1. UNCHANGED <<acked, succeeded>>
    BY <1>3 DEF Next, vars, brokerVars, history, BrokerConsume, BrokerCancel, BrokerSend,
       BrokerDropsChannel, ServiceDown, ServiceUp, ConnectionLost, Reconnect, ConnectEvent,
       StopConsuming, Close, StopReturns, StopTimesOut, Disconnect
  <2> QED BY <2>1 DEF AckedWasHandled
<1> QED BY <1>1, <1>2, <1>3

LEMMA DeadLetterStep ==
    TypeOK /\ CountersOK /\ WireOK /\ DeadLetterJustified /\ [Next]_vars => DeadLetterJustified'
<1> SUFFICES ASSUME TypeOK, CountersOK, WireOK, DeadLetterJustified, [Next]_vars
             PROVE  DeadLetterJustified'
  OBVIOUS
<1> USE DeliveryAssumption
<1>1. CASE UNCHANGED <<dlq, terminal, upFails>>
  BY <1>1 DEF DeadLetterJustified
<1>2. ASSUME NEW d \in Delivery, HandleDelivery(d) PROVE DeadLetterJustified'
  <2>1. Msg(d) \notin dlq
    BY <1>2 DEF HandleDelivery, WireOK
  <2>2. dlq' = dlq /\ terminal' = terminal /\ upFails' = [upFails EXCEPT ![d] = 0]
    BY <1>2 DEF HandleDelivery, Settle, GoTo, KeepBroker
  <2>3. \A m \in dlq, c \in Channel : <<m, c>> # d
    BY <2>1, DeliveryPair DEF TypeOK
  <2>4. \A m \in dlq, c \in Channel : upFails'[<<m, c>>] = upFails[<<m, c>>]
    BY <2>2, <2>3, DeliveryPair DEF TypeOK
  <2> QED BY <2>2, <2>4 DEF DeadLetterJustified
<1>3. ASSUME NEW d \in Delivery, Decode(d) PROVE DeadLetterJustified'
  BY <1>3 DEF Decode, Settle, GoTo, KeepBroker, history, DeadLetterJustified
<1>4. ASSUME NEW d \in Delivery, NEW t \in BOOLEAN, HandlerRejects(d, t)
      PROVE  DeadLetterJustified'
  <2>1. upFails[d] = retries[d] /\ retries[d] \in 0..MaxRetries
    BY <1>4 DEF CountersOK, HandlerRejects, TypeOK
  <2>2. \A e \in Delivery : upFails[e] = MaxRetries + 1 => upFails'[e] = MaxRetries + 1
    BY <1>4, <2>1 DEF HandlerRejects, TypeOK
  <2>3. terminal \subseteq terminal'
    BY <1>4 DEF HandlerRejects
  <2>4. ASSUME NEW m \in dlq' \ dlq
        PROVE  m \in terminal' \/ \E c \in Channel : upFails'[<<m, c>>] = MaxRetries + 1
    <3>1. m = Msg(d) /\ ~stopping /\ isLive(d)
          /\ (t \/ (~HeldForServices /\ RetriesExhausted(d)))
      BY <1>4, <2>4 DEF HandlerRejects, Settle, GoTo, KeepBroker
    <3>2. CASE t
      BY <1>4, <3>1, <3>2 DEF HandlerRejects
    <3>3. CASE ~t
      <4>1. upFails'[d] = MaxRetries + 1
        BY <1>4, <2>1, <3>1, <3>3 DEF HandlerRejects, HeldForServices, RetriesExhausted, TypeOK
      <4> QED BY <3>1, <4>1, DeliveryParts
    <3> QED BY <3>2, <3>3
  <2>5. ASSUME NEW m \in dlq
        PROVE  \/ m \in Undecodable \/ m \in terminal'
               \/ \E c \in Channel : upFails'[<<m, c>>] = MaxRetries + 1
    BY <2>2, <2>3, DeliveryPair DEF DeadLetterJustified, TypeOK
  <2> QED BY <2>4, <2>5 DEF DeadLetterJustified
<1>5. ASSUME NEW d \in Delivery, HandlerResolves(d) \/ DelayElapsed(d)
      PROVE  UNCHANGED <<dlq, terminal, upFails>>
  BY <1>5 DEF HandlerResolves, DelayElapsed, RetryOrRequeue, Settle, GoTo, KeepBroker, history
<1>6. CASE ~\E d \in Delivery : DeliveryStep(d)
  <2>1. UNCHANGED <<dlq, terminal, upFails>>
    BY <1>6 DEF Next, vars, brokerVars, history, BrokerConsume, BrokerCancel, BrokerSend,
       BrokerDropsChannel, ServiceDown, ServiceUp, ConnectionLost, Reconnect, ConnectEvent,
       StopConsuming, Close, StopReturns, StopTimesOut, Disconnect
  <2> QED BY <1>1, <2>1
<1>7. ASSUME NEW d \in Delivery, DeliveryStep(d) PROVE DeadLetterJustified'
  BY <1>1, <1>2, <1>3, <1>4, <1>5, <1>7 DEF DeliveryStep
<1> QED BY <1>6, <1>7

----------------------------------------------------------------------------
(* The gate and the drain *)

LEMMA GateStep == TypeOK /\ GateFollowsAvailability /\ [Next]_vars => GateFollowsAvailability'
<1> SUFFICES ASSUME TypeOK, GateFollowsAvailability, [Next]_vars
             PROVE  GateFollowsAvailability'
  OBVIOUS
<1> USE DEF GateFollowsAvailability, isAvailable, stopping, closing, Gate
<1>1. CASE UNCHANGED <<paused, svc, mq, stop>>
  BY <1>1
<1>2. CASE ServiceDown
  BY <1>2 DEF ServiceDown
<1>3. CASE ServiceUp
  BY <1>3 DEF ServiceUp, AllConnected
<1>4. CASE ConnectionLost
  BY <1>4 DEF ConnectionLost
<1>5. CASE Reconnect \/ ConnectEvent
  <2>1. UNCHANGED <<svc, stop>>
    BY <1>5 DEF Reconnect, ConnectEvent
  <2>2. CASE UNCHANGED <<mq, paused>>
    BY <2>1, <2>2
  <2>3. CASE Connected /\ mq
    BY <2>1, <2>3 DEF Connected
  <2>4. CASE Connected /\ ~mq
    BY <2>1, <2>4 DEF Connected, AllConnected
  <2> QED BY <1>5, <2>2, <2>3, <2>4 DEF Reconnect, ConnectEvent
<1>6. CASE StopConsuming
  BY <1>6 DEF StopConsuming
<1>7. CASE Close \/ StopReturns \/ StopTimesOut
  BY <1>7 DEF Close, StopReturns, StopTimesOut, workerVars
<1>8. CASE Disconnect
  BY <1>8 DEF Disconnect
<1>9. ASSUME NEW d \in Delivery, DeliveryStep(d) PROVE UNCHANGED <<paused, svc, mq, stop>>
  BY <1>9 DEF DeliveryStep, HandleDelivery, Decode, HandlerResolves, HandlerRejects,
              DelayElapsed, workerVars
<1>10. CASE \/ UNCHANGED vars \/ BrokerConsume \/ BrokerCancel
            \/ \E m \in Message : BrokerSend(m)
            \/ \E c \in Channel : BrokerDropsChannel(c)
  <2>1. UNCHANGED <<paused, svc, mq, stop>>
    BY <1>10 DEF vars, clientVars, workerVars, BrokerConsume, BrokerCancel,
                 BrokerSend, BrokerDropsChannel
  <2> QED BY <1>1, <2>1
<1> QED
  BY <1>1, <1>2, <1>3, <1>4, <1>5, <1>6, <1>7, <1>8, <1>9, <1>10 DEF Next

\* Once stopping, a delivery never enters processing again.
LEMMA StoppedStaysStopped ==
    ASSUME TypeOK, stopping, [Next]_vars
    PROVE  /\ stopping'
           /\ \A d \in Delivery : pc[d] \in {"none", "arriving"} => pc'[d] \in {"none", "arriving"}
<1> USE DEF stopping
<1>1. CASE UNCHANGED vars
  BY <1>1 DEF vars, clientVars
<1>2. CASE \/ BrokerConsume \/ BrokerCancel \/ ServiceDown \/ Close \/ StopReturns
           \/ StopTimesOut \/ \E c \in Channel : BrokerDropsChannel(c)
  BY <1>2 DEF clientVars, BrokerConsume, BrokerCancel, ServiceDown, Close, StopReturns,
              StopTimesOut, BrokerDropsChannel
<1>3. ASSUME NEW m \in Message, BrokerSend(m)
      PROVE  /\ stopping'
             /\ \A d \in Delivery : pc[d] \in {"none", "arriving"} => pc'[d] \in {"none", "arriving"}
  BY <1>3 DEF BrokerSend, TypeOK
<1>4. ASSUME NEW d \in Delivery, DeliveryStep(d)
      PROVE  /\ stopping'
             /\ \A e \in Delivery : pc[e] \in {"none", "arriving"} => pc'[e] \in {"none", "arriving"}
  <2>1. stop' = stop
    BY <1>4 DEF DeliveryStep, HandleDelivery, Decode, HandlerResolves, HandlerRejects, DelayElapsed
  <2>2. pc[d] \in {"none", "arriving"} => pc'[d] = "none"
    BY <1>4 DEF DeliveryStep, HandleDelivery, Decode, HandlerResolves, HandlerRejects,
                DelayElapsed, Settle, TypeOK
  <2> QED BY <1>4, <2>1, <2>2, DeliveryStepAdds
<1>5. CASE ServiceUp \/ Reconnect \/ ConnectEvent
  <2>1. (UNCHANGED pc \/ WakeReady) /\ stop' = stop
    BY <1>5 DEF ServiceUp, Reconnect, ConnectEvent, Connected, AllConnected
  <2> QED BY <2>1 DEF WakeReady
<1>6. CASE ConnectionLost \/ Disconnect
  BY <1>6 DEF ConnectionLost, Disconnect, LoseArriving
<1>7. CASE StopConsuming
  BY <1>7 DEF StopConsuming
<1> QED BY <1>1, <1>2, <1>3, <1>4, <1>5, <1>6, <1>7 DEF Next

LEMMA CleanStopStep == TypeOK /\ CleanStop /\ [Next]_vars => CleanStop'
<1> SUFFICES ASSUME TypeOK, CleanStop, [Next]_vars, stop' \in {"returned", "closed"}
             PROVE  inFlight' = {}
  BY DEF CleanStop
<1>1. CASE stop \in {"returned", "closed"}
  BY <1>1, StoppedStaysStopped DEF CleanStop, inFlight, stopping
<1>2. CASE stop \notin {"returned", "closed"}
  <2>1. StopReturns
    BY <1>2 DEF Next, vars, clientVars, BrokerConsume, BrokerCancel, BrokerSend,
       BrokerDropsChannel, DeliveryStep, HandleDelivery, Decode, HandlerResolves,
       HandlerRejects, DelayElapsed, ServiceDown, ServiceUp, ConnectionLost, Reconnect,
       ConnectEvent, Close, StopConsuming, StopTimesOut, Disconnect
  <2> QED BY <2>1 DEF StopReturns, inFlight
<1> QED BY <1>1, <1>2

----------------------------------------------------------------------------
(* The theorems *)

\* Everything above at once.
SafetyInvariant ==
    /\ TypeOK
    /\ Conservation
    /\ CountersOK /\ WireOK /\ DeadChannelsEmpty
    /\ AckedWasHandled
    /\ DeadLetterJustified
    /\ GateFollowsAvailability
    /\ CleanStop

LEMMA InitSafety == Init => SafetyInvariant
<1> SUFFICES ASSUME Init PROVE SafetyInvariant
  OBVIOUS
<1> USE DeliveryAssumption
<1>1. TypeOK
  <2>1. 1 \in Channel
    BY DEF Channel
  <2>2. /\ retries \in [Delivery -> 0..MaxRetries]
        /\ upFails \in [Delivery -> 0..(MaxRetries + 1)]
        /\ outages \in 0..MaxOutages
    BY DEF Init
  <2>3. /\ unacked \in [Channel -> SUBSET Message]
        /\ pc \in [Delivery -> Pc]
        /\ open \in SUBSET Channel /\ channel \in Channel /\ opened \in Channel
    BY <2>1 DEF Init, Pc
  <2>4. consuming \in BOOLEAN /\ paused \in BOOLEAN /\ svc \in BOOLEAN /\ mq \in BOOLEAN
    BY DEF Init
  <2> QED BY <2>2, <2>3, <2>4 DEF Init, TypeOK, Stop
<1>2. Conservation /\ DeadChannelsEmpty /\ AckedWasHandled /\ DeadLetterJustified
  <2>1. Conservation
    BY DEF Init, Conservation
  <2>2. DeadChannelsEmpty
    BY DEF Init, DeadChannelsEmpty
  <2>3. AckedWasHandled /\ DeadLetterJustified
    BY DEF Init, AckedWasHandled, DeadLetterJustified
  <2> QED BY <2>1, <2>2, <2>3
<1>3. CountersOK /\ WireOK
  BY DEF Init, CountersOK, WireOK
<1>4. GateFollowsAvailability /\ CleanStop
  BY DEF Init, GateFollowsAvailability, CleanStop, isAvailable, stopping, closing, Gate
<1> QED BY <1>1, <1>2, <1>3, <1>4 DEF SafetyInvariant

LEMMA NextSafety == SafetyInvariant /\ [Next]_vars => SafetyInvariant'
<1> SUFFICES ASSUME SafetyInvariant, [Next]_vars PROVE SafetyInvariant'
  OBVIOUS
<1>1. Counted
  BY DEF SafetyInvariant, Counted, CountersOK
<1> QED
  BY <1>1, TypeStep, ConservationStep, CountersStep, WireStep, DeadChannelsStep, AckedStep,
     DeadLetterStep, GateStep, CleanStopStep DEF SafetyInvariant

\* The adapter's state keeps its type: in particular no delivery ever uses more
\* than retryDelaysMs.length retries.
THEOREM TypeCorrect == Spec => []TypeOK
<1>1. SafetyInvariant => TypeOK
  BY DEF SafetyInvariant
<1> QED BY InitSafety, NextSafety, <1>1, PTL DEF Spec

\* No message is lost or in two places, however often the connection breaks.
THEOREM MessagesConserved == Spec => []Conservation
<1>1. SafetyInvariant => Conservation
  BY DEF SafetyInvariant
<1> QED BY InitSafety, NextSafety, <1>1, PTL DEF Spec

\* Only messages the handler resolved for are acked.
THEOREM AcksAreEarned == Spec => []AckedWasHandled
<1>1. SafetyInvariant => AckedWasHandled
  BY DEF SafetyInvariant
<1> QED BY InitSafety, NextSafety, <1>1, PTL DEF Spec

\* A message is dead-lettered only for its own fault, never for an outage.
THEOREM DeadLettersAreJustified == Spec => []DeadLetterJustified
<1>1. SafetyInvariant => DeadLetterJustified
  BY DEF SafetyInvariant
<1> QED BY InitSafety, NextSafety, <1>1, PTL DEF Spec

\* The strengthening that makes the two theorems above inductive.
THEOREM DeliveryInvariantHolds == Spec => []DeliveryInvariant
<1>1. SafetyInvariant => DeliveryInvariant
  BY DeliveryInvariantParts DEF SafetyInvariant
<1> QED BY InitSafety, NextSafety, <1>1, PTL DEF Spec

\* Consumption is paused exactly while a service is down or the worker stops.
THEOREM GateCorrect == Spec => []GateFollowsAvailability
<1>1. SafetyInvariant => GateFollowsAvailability
  BY DEF SafetyInvariant
<1> QED BY InitSafety, NextSafety, <1>1, PTL DEF Spec

\* A stop that returned in time left nothing being processed.
THEOREM StopIsClean == Spec => []CleanStop
<1>1. SafetyInvariant => CleanStop
  BY DEF SafetyInvariant
<1> QED BY InitSafety, NextSafety, <1>1, PTL DEF Spec

----------------------------------------------------------------------------
(* Refinement *)

\* The refinement mapping of the abstract queue's taken.
Taken == UNION {unacked[c] : c \in Channel}

\* Taking the messages S away from one channel takes them away from Taken.
LEMMA TakenRemoves ==
    ASSUME TypeOK, Conservation, NEW k \in Channel, NEW S \in SUBSET unacked[k],
           unacked' = [c \in Channel |-> IF c = k THEN unacked[c] \ S ELSE unacked[c]]
    PROVE  Taken' = Taken \ S /\ S \subseteq Taken
BY DEF Taken, Conservation, TypeOK

LEMMA SettleRefines ==
    ASSUME TypeOK, Conservation, NEW d \in Delivery, NEW o \in Outcome, Settle(d, o), Held(d)
    PROVE  Msg(d) \in Message /\ Msg(d) \in Taken /\ Taken' = Taken \ {Msg(d)}
<1>1. Msg(d) \in Message /\ Chan(d) \in Channel /\ {Msg(d)} \in SUBSET unacked[Chan(d)]
  BY DeliveryParts DEF Held
<1>2. unacked' = [c \in Channel |->
                     IF c = Chan(d) THEN unacked[c] \ {Msg(d)} ELSE unacked[c]]
  BY <1>1 DEF Settle, TypeOK
<1> QED BY <1>1, <1>2, TakenRemoves

LEMMA DeliveryStepRefines ==
    ASSUME SafetyInvariant, NEW d \in Delivery, DeliveryStep(d)
    PROVE  [Queue!Next]_(Queue!vars)
<1> USE DEF SafetyInvariant
<1>0. Msg(d) \in Message
  BY DeliveryParts
<1>1. ASSUME NEW o \in Outcome, Settle(d, o), UNCHANGED succeeded, o # "ack"
      PROVE  [Queue!Next]_(Queue!vars)
  <2>1. CASE ~Held(d)
    <3>1. UNCHANGED <<queue, unacked, acked, dlq, succeeded>>
      BY <1>1, <2>1 DEF Settle
    <3> QED BY <3>1 DEF Queue!vars
  <2>2. CASE Held(d) /\ o = "requeue"
    <3>1. Queue!GiveBack({Msg(d)})
      BY <1>1, <2>2, SettleRefines DEF Queue!GiveBack, Taken, Settle
    <3> QED BY <1>0, <3>1 DEF Queue!Next
  <2>3. CASE Held(d) /\ o = "deadLetter"
    <3>1. Queue!DeadLetter(Msg(d))
      BY <1>1, <2>3, SettleRefines DEF Queue!DeadLetter, Taken, Settle
    <3> QED BY <1>0, <3>1 DEF Queue!Next
  <2> QED BY <1>1, <2>1, <2>2, <2>3 DEF Outcome
<1>2. CASE HandlerResolves(d)
  <2>1. Settle(d, "ack") /\ "ack" \in Outcome /\ succeeded' = succeeded \cup {Msg(d)}
    BY <1>2 DEF HandlerResolves, Outcome
  <2>2. CASE Held(d)
    <3>1. Queue!Ack(Msg(d))
      BY <2>1, <2>2, SettleRefines DEF Queue!Ack, Taken, Settle
    <3> QED BY <1>0, <3>1 DEF Queue!Next
  <2>3. CASE ~Held(d)
    <3>1. Queue!LateSuccess(Msg(d))
      BY <2>1, <2>3 DEF Queue!LateSuccess, Settle
    <3> QED BY <1>0, <3>1 DEF Queue!Next
  <2> QED BY <2>2, <2>3
<1>3. CASE ~HandlerResolves(d)
  <2>1. /\ UNCHANGED succeeded
        /\ KeepBroker \/ Settle(d, "requeue") \/ Settle(d, "deadLetter")
    BY <1>3 DEF DeliveryStep, HandleDelivery, Decode, HandlerRejects, DelayElapsed,
                RetryOrRequeue, GoTo, history
  <2>2. KeepBroker => UNCHANGED Queue!vars
    BY <2>1 DEF KeepBroker, Queue!vars
  <2> QED BY <1>1, <2>1, <2>2 DEF Outcome
<1> QED BY <1>2, <1>3

LEMMA GiveBackIsNext ==
    ASSUME NEW S \in SUBSET Message, Queue!GiveBack(S)
    PROVE  [Queue!Next]_(Queue!vars)
BY DEF Queue!Next

LEMMA StepRefines == SafetyInvariant /\ [Next]_vars => [Queue!Next]_(Queue!vars)
<1> SUFFICES ASSUME SafetyInvariant, [Next]_vars PROVE [Queue!Next]_(Queue!vars)
  OBVIOUS
<1> USE DEF SafetyInvariant
<1>1. CASE \/ UNCHANGED vars \/ BrokerConsume \/ BrokerCancel \/ ServiceDown \/ ServiceUp
           \/ ConnectionLost \/ Reconnect \/ ConnectEvent \/ Close \/ StopReturns \/ StopTimesOut
  <2>1. UNCHANGED <<queue, unacked, acked, dlq, succeeded>>
    BY <1>1 DEF vars, brokerVars, history, BrokerConsume, BrokerCancel, ServiceDown,
       ServiceUp, ConnectionLost, Reconnect, ConnectEvent, Close, StopReturns, StopTimesOut
  <2> QED BY <2>1 DEF Queue!vars
<1>2. ASSUME NEW m \in Message, BrokerSend(m) PROVE [Queue!Next]_(Queue!vars)
  <2>1. channel \in Channel /\ unacked' = [unacked EXCEPT ![channel] = @ \cup {m}]
    BY <1>2 DEF BrokerSend, TypeOK
  <2>2. Taken' = Taken \cup {m}
    BY <2>1 DEF Taken, TypeOK
  <2>3. Queue!Take(m)
    BY <1>2, <2>2 DEF Queue!Take, Taken, BrokerSend, history
  <2> QED BY <2>3 DEF Queue!Next
<1>3. ASSUME NEW k \in Channel, BrokerDropsChannel(k) PROVE [Queue!Next]_(Queue!vars)
  <2>1. unacked' = [c \in Channel |-> IF c = k THEN unacked[c] \ unacked[k] ELSE unacked[c]]
    BY <1>3 DEF BrokerDropsChannel, TypeOK
  <2>2. Taken' = Taken \ unacked[k] /\ unacked[k] \subseteq Taken /\ unacked[k] \subseteq Message
    BY <2>1, TakenRemoves DEF TypeOK
  <2>3. PICK S \in SUBSET Message : S = unacked[k]
    BY <2>2
  <2>4. Queue!GiveBack(S)
    BY <1>3, <2>2, <2>3 DEF Queue!GiveBack, Taken, BrokerDropsChannel, history
  <2> QED BY <2>4, GiveBackIsNext
<1>4. ASSUME NEW d \in Delivery, DeliveryStep(d) PROVE [Queue!Next]_(Queue!vars)
  BY <1>4, DeliveryStepRefines
<1>5. CASE StopConsuming
  <2> DEFINE back == {Msg(d) : d \in {w \in Waiting : Held(w)}}
  <2>1. /\ back \subseteq Message
        /\ back # {} => channel \in Channel /\ back \in SUBSET unacked[channel]
    BY DeliveryParts DEF Waiting, Held, isLive
  <2>2. /\ queue' = queue \cup back /\ UNCHANGED <<acked, dlq, succeeded>>
        /\ unacked' = [c \in Channel |-> IF c = channel THEN unacked[c] \ back ELSE unacked[c]]
    BY <1>5 DEF StopConsuming, history
  <2> HIDE DEF back
  <2>3. CASE back = {}
    <3>1. unacked' = unacked /\ queue' = queue
      BY <2>2, <2>3 DEF TypeOK
    <3> QED BY <2>2, <3>1 DEF Queue!vars
  <2>4. CASE back # {}
    <3>1. Taken' = Taken \ back /\ back \subseteq Taken
      BY <2>1, <2>2, <2>4, TakenRemoves
    <3>2. PICK S \in SUBSET Message : S = back
      BY <2>1
    <3>3. Queue!GiveBack(S)
      BY <2>2, <3>1, <3>2 DEF Queue!GiveBack, Taken
    <3> QED BY <3>3, GiveBackIsNext
  <2> QED BY <2>3, <2>4
<1>6. CASE Disconnect
  <2>1. /\ UNCHANGED <<acked, dlq, succeeded>>
        /\ unacked' = [c \in Channel |-> IF c = channel THEN {} ELSE unacked[c]]
    BY <1>6 DEF Disconnect, history
  <2>2. CASE channel \in open
    <3>1. channel \in Channel /\ queue' = queue \cup unacked[channel]
      BY <1>6, <2>2 DEF Disconnect, TypeOK
    <3>2. unacked' = [c \in Channel |->
                         IF c = channel THEN unacked[c] \ unacked[channel] ELSE unacked[c]]
      BY <2>1
    <3>3. /\ Taken' = Taken \ unacked[channel] /\ unacked[channel] \subseteq Taken
          /\ unacked[channel] \subseteq Message
      BY <3>1, <3>2, TakenRemoves DEF TypeOK
    <3>4. PICK S \in SUBSET Message : S = unacked[channel]
      BY <3>3
    <3>5. Queue!GiveBack(S)
      BY <2>1, <3>1, <3>3, <3>4 DEF Queue!GiveBack, Taken
    <3> QED BY <3>5, GiveBackIsNext
  <2>3. CASE channel \notin open
    <3>1. queue' = queue /\ unacked' = unacked
      BY <1>6, <2>1, <2>3 DEF Disconnect, TypeOK, DeadChannelsEmpty
    <3> QED BY <2>1, <3>1 DEF Queue!vars
  <2> QED BY <2>2, <2>3
<1> QED BY <1>1, <1>2, <1>3, <1>4, <1>5, <1>6 DEF Next

\* The adapter implements the at-least-once stage queue.
THEOREM RefinesStageQueue == Spec => ImplementsStageQueue
<1>1. Init => Queue!Init
  BY DEF Init, Queue!Init
<1> QED BY <1>1, InitSafety, NextSafety, StepRefines, PTL DEF Spec, ImplementsStageQueue, Queue!Spec

----------------------------------------------------------------------------
(* No retry after a stop *)

\* stopConsuming has cut every wait short and no failure starts another one.
NoWaiters == stopping => Waiting = {}

LEMMA NoWaitersInit == Init => NoWaiters
BY DEF Init, NoWaiters, stopping

\* A delivery that waits after a step waited before it, or has just failed on a
\* worker that is not stopping.
LEMMA WaitingStep ==
    ASSUME TypeOK, [Next]_vars, stopping, NEW d \in Delivery, pc'[d] \in {"awaitReady", "delay"}
    PROVE  pc[d] \in {"awaitReady", "delay"}
<1>1. CASE \/ UNCHANGED vars \/ BrokerConsume \/ BrokerCancel \/ ServiceDown \/ Close
           \/ StopReturns \/ StopTimesOut \/ \E c \in Channel : BrokerDropsChannel(c)
  BY <1>1 DEF vars, clientVars, BrokerConsume, BrokerCancel, ServiceDown, Close, StopReturns,
              StopTimesOut, BrokerDropsChannel
<1>2. ASSUME NEW m \in Message, BrokerSend(m) PROVE pc[d] \in {"awaitReady", "delay"}
  BY <1>2 DEF BrokerSend, TypeOK
<1>3. ASSUME NEW e \in Delivery, DeliveryStep(e) PROVE pc[d] \in {"awaitReady", "delay"}
  <2>1. CASE e # d
    <3>1. pc'[d] = pc[d]
      BY <1>3, <2>1 DEF DeliveryStep, HandleDelivery, Decode, HandlerResolves, HandlerRejects,
                        DelayElapsed, RetryOrRequeue, Settle, GoTo, TypeOK
    <3> QED BY <3>1
  <2>2. CASE e = d
    <3>1. pc'[d] \in {"none", "decoding", "handling"}
      BY <1>3, <2>2 DEF DeliveryStep, HandleDelivery, Decode, HandlerResolves, HandlerRejects,
                        DelayElapsed, RetryOrRequeue, Settle, GoTo, TypeOK
    <3> QED BY <3>1
  <2> QED BY <2>1, <2>2
<1>4. CASE ServiceUp \/ Reconnect \/ ConnectEvent
  <2>1. UNCHANGED pc \/ WakeReady
    BY <1>4 DEF ServiceUp, Reconnect, ConnectEvent, Connected, AllConnected
  <2> QED BY <2>1 DEF WakeReady
<1>5. CASE ConnectionLost \/ Disconnect
  BY <1>5 DEF ConnectionLost, Disconnect, LoseArriving
<1>6. CASE StopConsuming
  BY <1>6 DEF StopConsuming, stopping
<1> QED BY <1>1, <1>2, <1>3, <1>4, <1>5, <1>6 DEF Next

LEMMA NoWaitersStep == TypeOK /\ NoWaiters /\ [Next]_vars => NoWaiters'
<1> SUFFICES ASSUME TypeOK, NoWaiters, [Next]_vars, stopping' PROVE Waiting' = {}
  BY DEF NoWaiters
<1>1. CASE stopping
  BY <1>1, WaitingStep DEF NoWaiters, Waiting
<1>2. CASE ~stopping
  <2>1. StopConsuming
    BY <1>2 DEF Next, stopping, vars, clientVars, BrokerConsume, BrokerCancel, BrokerSend,
       BrokerDropsChannel, DeliveryStep, HandleDelivery, Decode, HandlerResolves,
       HandlerRejects, DelayElapsed, ServiceDown, ServiceUp, ConnectionLost, Reconnect,
       ConnectEvent, Close, StopReturns, StopTimesOut, Disconnect
  <2> QED BY <2>1 DEF StopConsuming, Waiting
<1> QED BY <1>1, <1>2

\* What a step of a stopping worker without waits brings to the handler was being
\* decoded.
LEMMA RetryStep ==
    ASSUME TypeOK, NoWaiters, [Next]_vars, stopping, NEW d \in Delivery, pc'[d] = "handling"
    PROVE  pc[d] \in {"handling", "decoding"}
<1>0. pc[d] \notin {"awaitReady", "delay"}
  BY DEF NoWaiters, Waiting
<1>1. pc[d] \notin {"none", "arriving"}
  BY StoppedStaysStopped
<1> QED BY <1>0, <1>1 DEF TypeOK, Pc

\* Once stopConsuming() is called no failed message is tried again, also when its
\* wait ends at that moment.
THEOREM NoRetryOnceStopped == Spec => NoRetryAfterStop
<1>1. SafetyInvariant => TypeOK
  BY DEF SafetyInvariant
<1>2. TypeOK /\ NoWaiters /\ [Next]_vars
        => [stopping => \A d \in Delivery :
               pc'[d] = "handling" => pc[d] \in {"handling", "decoding"}]_vars
  BY RetryStep
<1> QED BY InitSafety, NextSafety, NoWaitersInit, NoWaitersStep, <1>1, <1>2, PTL
        DEF Spec, NoRetryAfterStop

----------------------------------------------------------------------------
(* No missed wake-up *)

NoneAwaits == isAvailable => \A d \in Delivery : pc[d] # "awaitReady"

\* With every service up a failure goes on to a delay or an end, and what brings the last
\* service back wakes every delivery that waits.
LEMMA NoneAwaitsStep ==
    ASSUME TypeOK, NoneAwaits, [Next]_vars
    PROVE  NoneAwaits'
<1> SUFFICES ASSUME isAvailable', NEW d \in Delivery, pc'[d] = "awaitReady" PROVE FALSE
  BY DEF NoneAwaits
<1> USE DEF NoneAwaits, isAvailable
<1>1. CASE \/ UNCHANGED vars \/ BrokerConsume \/ BrokerCancel \/ Close \/ StopReturns \/ StopTimesOut
           \/ \E c \in Channel : BrokerDropsChannel(c)
  BY <1>1 DEF vars, clientVars, workerVars, BrokerConsume, BrokerCancel, Close, StopReturns,
              StopTimesOut, BrokerDropsChannel
<1>2. ASSUME NEW m \in Message, BrokerSend(m) PROVE FALSE
  BY <1>2 DEF BrokerSend, workerVars, TypeOK
<1>3. ASSUME NEW e \in Delivery, DeliveryStep(e) PROVE FALSE
  <2>1. UNCHANGED <<svc, mq>>
    BY <1>3 DEF DeliveryStep, HandleDelivery, Decode, HandlerResolves, HandlerRejects,
                DelayElapsed, workerVars
  <2>2. pc[d] # "awaitReady"
    BY <2>1
  <2>3. CASE e # d
    <3>1. pc'[d] = pc[d]
      BY <1>3, <2>3 DEF DeliveryStep, HandleDelivery, Decode, HandlerResolves, HandlerRejects,
                        DelayElapsed, RetryOrRequeue, Settle, GoTo, TypeOK
    <3> QED BY <2>2, <3>1
  <2>4. CASE e = d
    <3>1. pc'[d] \in {"none", "decoding", "handling", "delay"}
      BY <1>3, <2>1, <2>4 DEF DeliveryStep, HandleDelivery, Decode, HandlerResolves, HandlerRejects,
                        HeldForServices, DelayElapsed, RetryOrRequeue, Settle, GoTo, TypeOK
    <3> QED BY <3>1
  <2> QED BY <2>3, <2>4
<1>4. CASE ServiceDown
  BY <1>4 DEF ServiceDown
<1>5. CASE ServiceUp
  BY <1>5 DEF ServiceUp, AllConnected, WakeReady
<1>6. CASE Reconnect \/ ConnectEvent
  <2>1. UNCHANGED svc
    BY <1>6 DEF Reconnect, ConnectEvent
  <2>2. CASE UNCHANGED <<mq, pc>>
    BY <2>1, <2>2
  <2>3. CASE Connected
    BY <2>1, <2>3 DEF Connected, AllConnected, WakeReady
  <2> QED BY <1>6, <2>2, <2>3 DEF Reconnect, ConnectEvent
<1>7. CASE ConnectionLost
  BY <1>7 DEF ConnectionLost
<1>8. CASE Disconnect
  BY <1>8 DEF Disconnect, LoseArriving
<1>9. CASE StopConsuming
  BY <1>9 DEF StopConsuming, workerVars
<1> QED BY <1>1, <1>2, <1>3, <1>4, <1>5, <1>6, <1>7, <1>8, <1>9 DEF Next

\* No delivery waits for services that are all there, and consumption is not paused then:
\* what EventuallySettled rests on, for any number of deliveries, channels and outages.
THEOREM NoMissedWakeUp == Spec => []WaitsOnlyInOutage
<1>1. Init => NoneAwaits
  BY DEF Init, NoneAwaits
<1>2. SafetyInvariant => TypeOK
  BY DEF SafetyInvariant
<1>3. SafetyInvariant /\ NoneAwaits => WaitsOnlyInOutage
  BY DEF SafetyInvariant, GateFollowsAvailability, NoneAwaits, WaitsOnlyInOutage
<1> QED BY InitSafety, NextSafety, NoneAwaitsStep, <1>1, <1>2, <1>3, PTL DEF Spec
==============================================================================
