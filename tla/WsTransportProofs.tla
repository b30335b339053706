-------------------------- MODULE WsTransportProofs --------------------------
(***************************************************************************)
(* The record of a device in Redis follows its connection, for any number  *)
(* of nodes, devices and connections, whatever the handlers of other       *)
(* devices do to each other.                                               *)
(***************************************************************************)
EXTENDS WsTransport, FiniteSetTheorems, TLAPS

----------------------------------------------------------------------------
(* The invariant *)

\* The handlers of a connection: it registers once, and cleans up what it registered.
ConnOK(c) ==
    /\ pc[c] # "idle" => bound[c] = NoDevice /\ claim[c] \in Device /\ socket[c] # "none"
    /\ socket[c] = "none" => bound[c] = NoDevice
    /\ cleanup[c] # "none" => socket[c] = "closed" /\ bound[c] \in Device
    /\ bound[c] # NoDevice => c \notin unregistered

\* A connection with a handler or a socket for d.
Has(c, d) == c \in Binding(d) \/ c \in Holding(d)

OnlyOne(c, d) == \A x \in Conn : Has(x, d) => x = c

Unlisted(d) == ~listed[d] /\ members[d] = {}
ListedHere(d) == members[d] = IF listed[d] THEN {transport[d]} ELSE {}

\* Nothing of the device is anywhere.
Away(d) ==
    /\ \A c \in Conn : ~Has(c, d)
    /\ transport[d] = NoNode /\ Unlisted(d)
    /\ \A n \in Node : registered[n][d] = NoConn

\* One connection registers it.
Joining(d, c) ==
    /\ c \in Binding(d) /\ OnlyOne(c, d) /\ socket[c] \in {"open", "closing"}
    /\ IF pc[c] = "confirm" THEN transport[d] = NodeOf[c] /\ ListedHere(d)
       ELSE transport[d] = NoNode /\ Unlisted(d)
    /\ \A n \in Node : registered[n][d] = NoConn

\* One connection is registered for it, or cleans up.
Joined(d, c) ==
    /\ c \in Holding(d) /\ OnlyOne(c, d)
    /\ cleanup[c] \in {"none", "remove"} => transport[d] = NodeOf[c] /\ ListedHere(d)
    /\ cleanup[c] = "offline" => transport[d] = NodeOf[c] /\ Unlisted(d)
    /\ cleanup[c] = "forget" => transport[d] = NoNode /\ Unlisted(d)
    /\ \A n \in Node : registered[n][d] = IF n = NodeOf[c] THEN c ELSE NoConn

CalmFor(d) == raced[d] \/ Away(d) \/ \E c \in Conn : Joining(d, c) \/ Joined(d, c)

\* The types, with the logouts that are read at most one per device.
Typed ==
    /\ socket \in [Conn -> {"none", "open", "closing", "closed"}]
    /\ unregistered \subseteq clients /\ clients \subseteq Conn
    /\ registered \in [Node -> [Device -> Conn \cup {NoConn}]]
    /\ bound \in [Conn -> Device \cup {NoDevice}]
    /\ pc \in [Conn -> {"idle", "session", "write", "confirm"}]
    /\ claim \in [Conn -> Device \cup {NoDevice}]
    /\ cleanup \in [Conn -> {"none", "remove", "offline", "forget"}]
    /\ transport \in [Device -> Node \cup {NoNode}]
    /\ listed \in [Device -> BOOLEAN]
    /\ members \in [Device -> SUBSET Node]
    /\ session \in [Device -> BOOLEAN]
    /\ revoking \in [Device -> {{}} \cup {{n} : n \in Node \cup {NoNode}}]
    /\ logouts \subseteq Node \X Device
    /\ raced \in [Device -> BOOLEAN]
    /\ stops \in 0..MaxStops

ConnsOK == \A c \in Conn : ConnOK(c)
Calm == \A d \in Device : CalmFor(d)

----------------------------------------------------------------------------
(* Types *)

LEMMA TypedInit == Init => Typed
BY WsAssumption DEF Init, Typed

LEMMA TypedConn == ASSUME Typed, ConnsOK, NEW c \in Conn, ConnStep(c) PROVE Typed'
<1> USE WsAssumption DEF Typed, local, redis, api, GoTo, Answered
<1>1. ASSUME NEW d \in Device, NEW race \in BOOLEAN, RaceIf(d, race) PROVE raced' \in [Device -> BOOLEAN]
  BY <1>1 DEF RaceIf
<1>2. CASE handleConnection(c)
  BY <1>2 DEF handleConnection
<1>3. ASSUME NEW d \in Device, RegisterFrame(c, d) PROVE Typed'
  <2>1. Busy(d) \in BOOLEAN
    BY DEF Busy
  <2>2. raced' \in [Device -> BOOLEAN]
    BY <1>1, <1>3, <2>1 DEF RegisterFrame
  <2> QED BY <1>3, <2>2 DEF RegisterFrame
<1>4. CASE ReadSession(c)
  <2>1. pc' \in [Conn -> {"idle", "session", "write", "confirm"}]
    BY <1>4 DEF ReadSession
  <2>2. claim' \in [Conn -> Device \cup {NoDevice}]
    BY <1>4 DEF ReadSession
  <2> QED BY <1>4, <2>1, <2>2 DEF ReadSession
<1>5. CASE WriteDevice(c)
  BY <1>5 DEF WriteDevice
<1>6. CASE Confirm(c)
  <2>1. claim[c] \in Device
    BY <1>6 DEF ConnsOK, ConnOK, Confirm
  <2> QED BY <1>6, <2>1 DEF Confirm
<1>7. CASE RemoveSubscriptions(c)
  BY <1>7 DEF RemoveSubscriptions
<1>8. CASE GoOffline(c)
  BY <1>8 DEF GoOffline
<1>9. CASE Forget(c)
  <2>1. bound[c] \in Device /\ c \notin unregistered
    BY <1>9 DEF ConnsOK, ConnOK, Forget
  <2> QED BY <1>9, <2>1 DEF Forget
<1>10. CASE RegisterFails(c)
  <2>1. claim[c] \in Device
    BY <1>10 DEF ConnsOK, ConnOK, RegisterFails
  <2>2. raced' \in [Device -> BOOLEAN]
    BY <1>1, <1>10, <2>1 DEF RegisterFails
  <2> QED BY <1>10, <2>2 DEF RegisterFails
<1>11. CASE CleanupFails(c)
  <2>1. bound[c] \in Device
    BY <1>11 DEF ConnsOK, ConnOK, CleanupFails
  <2>2. raced' \in [Device -> BOOLEAN]
    BY <1>1, <1>11, <2>1 DEF CleanupFails
  <2> QED BY <1>11, <2>2 DEF CleanupFails
<1>12. CASE SocketCloses(c)
  BY <1>12 DEF SocketCloses
<1> QED BY <1>2, <1>3, <1>4, <1>5, <1>6, <1>7, <1>8, <1>9, <1>10, <1>11, <1>12 DEF ConnStep, HandlerStep

LEMMA TypedApi == ASSUME Typed, NEW d \in Device, ApiStep(d) PROVE Typed'
<1> USE WsAssumption DEF Typed, local, redis, api
<1>1. ASSUME NEW race \in BOOLEAN, RaceIf(d, race) PROVE raced' \in [Device -> BOOLEAN]
  BY <1>1 DEF RaceIf
<1>2. CASE Subscribe(d)
  <2>1. raced' \in [Device -> BOOLEAN]
    BY <1>1, <1>2 DEF Subscribe
  <2>2. listed' \in [Device -> BOOLEAN] /\ members' \in [Device -> SUBSET Node]
    BY <1>2 DEF Subscribe
  <2> QED BY <1>2, <2>1, <2>2 DEF Subscribe
<1>3. CASE LogoutLoads(d)
  <2>1. raced' \in [Device -> BOOLEAN]
    BY <1>1, <1>3 DEF LogoutLoads
  <2> QED BY <1>3, <2>1 DEF LogoutLoads
<1>4. CASE LogoutEnds(d)
  <2>1. raced' \in [Device -> BOOLEAN]
    BY <1>1, <1>4 DEF LogoutEnds
  <2>2. (revoking[d] \ {NoNode}) \subseteq Node
    OBVIOUS
  <2>3. logouts' \subseteq logouts \cup ((revoking[d] \ {NoNode}) \X {d})
    BY <1>4 DEF LogoutEnds
  <2>4. logouts' \subseteq Node \X Device
    BY <2>2, <2>3
  <2>5. revoking' \in [Device -> {{}} \cup {{n} : n \in Node \cup {NoNode}}]
    BY <1>4 DEF LogoutEnds
  <2> QED BY <1>4, <2>1, <2>4, <2>5 DEF LogoutEnds
<1>5. CASE SignIn(d)
  <2>1. Busy(d) \in BOOLEAN
    BY DEF Busy
  <2>2. raced' \in [Device -> BOOLEAN]
    BY <1>1, <1>5, <2>1 DEF SignIn
  <2> QED BY <1>5, <2>2 DEF SignIn
<1> QED BY <1>2, <1>3, <1>4, <1>5 DEF ApiStep

\* A socket that a node asks to close.
LEMMA SocketType ==
    ASSUME Typed, NEW c \in Conn \cup {NoConn}, closeSocket(c)
    PROVE  /\ socket' \in [Conn -> {"none", "open", "closing", "closed"}]
           /\ \A x \in Conn : socket'[x] = socket[x] \/ (socket[x] = "open" /\ socket'[x] = "closing")
BY DEF Typed, closeSocket

LEMMA TypedNode == ASSUME Typed, NEW n \in Node, NodeStep(n) PROVE Typed'
<1> USE WsAssumption DEF Typed, local, redis, api
<1>1. ASSUME NEW d \in Device, sendToDevice(n, d) \/ handleDeviceLogout(n, d) PROVE Typed'
  <2>1. PICK x \in Conn \cup {NoConn} : closeSocket(x)
    BY <1>1 DEF sendToDevice, handleDeviceLogout, disconnectDevice
  <2>2. socket' \in [Conn -> {"none", "open", "closing", "closed"}]
    BY <2>1, SocketType
  <2>3. logouts' \subseteq Node \X Device
    BY <1>1 DEF sendToDevice, handleDeviceLogout
  <2> QED BY <1>1, <2>2, <2>3 DEF sendToDevice, handleDeviceLogout
<1>2. CASE NodeStops(n)
  <2>1. /\ socket' \in [Conn -> {"none", "open", "closing", "closed"}]
        /\ pc' \in [Conn -> {"idle", "session", "write", "confirm"}]
        /\ claim' \in [Conn -> Device \cup {NoDevice}]
        /\ cleanup' \in [Conn -> {"none", "remove", "offline", "forget"}]
    BY <1>2 DEF NodeStops
  <2>2. registered' \in [Node -> [Device -> Conn \cup {NoConn}]] /\ raced' \in [Device -> BOOLEAN]
    BY <1>2 DEF NodeStops
  <2>3. unregistered' \subseteq clients' /\ clients' \subseteq Conn
    BY <1>2 DEF NodeStops
  <2>4. logouts' \subseteq Node \X Device /\ stops' \in 0..MaxStops
    BY <1>2 DEF NodeStops
  <2> QED BY <1>2, <2>1, <2>2, <2>3, <2>4 DEF NodeStops
<1> QED BY <1>1, <1>2 DEF NodeStep

LEMMA TypedStep == Typed /\ ConnsOK /\ [Next]_vars => Typed'
<1> SUFFICES ASSUME Typed, ConnsOK, [Next]_vars PROVE Typed'
  OBVIOUS
<1>1. CASE UNCHANGED vars
  BY <1>1 DEF vars, local, redis, api, Typed
<1> QED BY <1>1, TypedConn, TypedApi, TypedNode DEF Next

----------------------------------------------------------------------------
(* The handlers of a connection *)

LEMMA ConnKept ==
    ASSUME NEW x \in Conn, ConnOK(x),
           pc'[x] = pc[x], bound'[x] = bound[x], claim'[x] = claim[x], cleanup'[x] = cleanup[x],
           x \in unregistered' => x \in unregistered,
           socket'[x] # socket[x] => socket[x] = "open" /\ socket'[x] = "closing"
    PROVE  ConnOK(x)'
BY DEF ConnOK

\* What one connection does leaves the others as they are.
LEMMA ConnSteps ==
    ASSUME Typed, NEW c \in Conn, ConnStep(c), NEW x \in Conn, x # c
    PROVE  /\ pc'[x] = pc[x] /\ bound'[x] = bound[x] /\ claim'[x] = claim[x]
           /\ cleanup'[x] = cleanup[x] /\ socket'[x] = socket[x]
           /\ x \in unregistered' => x \in unregistered
<1> USE DEF GoTo, Answered, local, redis, api, Typed
<1>1. CASE handleConnection(c)
  BY <1>1 DEF handleConnection
<1>2. CASE \E d \in Device : RegisterFrame(c, d)
  BY <1>2 DEF RegisterFrame
<1>3. CASE ReadSession(c)
  BY <1>3 DEF ReadSession
<1>4. CASE WriteDevice(c)
  BY <1>4 DEF WriteDevice
<1>5. CASE Confirm(c)
  BY <1>5 DEF Confirm
<1>6. CASE RemoveSubscriptions(c)
  BY <1>6 DEF RemoveSubscriptions
<1>7. CASE GoOffline(c)
  BY <1>7 DEF GoOffline
<1>8. CASE Forget(c)
  BY <1>8 DEF Forget
<1>9. CASE RegisterFails(c)
  BY <1>9 DEF RegisterFails
<1>10. CASE CleanupFails(c)
  BY <1>10 DEF CleanupFails
<1>11. CASE SocketCloses(c)
  BY <1>11 DEF SocketCloses
<1> QED BY <1>1, <1>2, <1>3, <1>4, <1>5, <1>6, <1>7, <1>8, <1>9, <1>10, <1>11 DEF ConnStep, HandlerStep

LEMMA ConnsInit == Init => ConnsOK
BY DEF Init, ConnsOK, ConnOK

LEMMA OwnStep == ASSUME Typed, NEW c \in Conn, ConnOK(c), ConnStep(c) PROVE ConnOK(c)'
<1> USE WsAssumption DEF GoTo, Answered, local, redis, api, Typed, ConnOK
<1>1. CASE handleConnection(c)
  BY <1>1 DEF handleConnection
<1>2. CASE \E d \in Device : RegisterFrame(c, d)
  BY <1>2 DEF RegisterFrame, MayRegister
<1>3. CASE ReadSession(c)
  BY <1>3 DEF ReadSession
<1>4. CASE WriteDevice(c)
  BY <1>4 DEF WriteDevice
<1>5. CASE Confirm(c)
  BY <1>5 DEF Confirm
<1>6. CASE RemoveSubscriptions(c)
  BY <1>6 DEF RemoveSubscriptions
<1>7. CASE GoOffline(c)
  BY <1>7 DEF GoOffline
<1>8. CASE Forget(c)
  BY <1>8 DEF Forget
<1>9. CASE RegisterFails(c)
  BY <1>9 DEF RegisterFails
<1>10. CASE CleanupFails(c)
  BY <1>10 DEF CleanupFails
<1>11. CASE SocketCloses(c)
  BY <1>11 DEF SocketCloses
<1> QED BY <1>1, <1>2, <1>3, <1>4, <1>5, <1>6, <1>7, <1>8, <1>9, <1>10, <1>11 DEF ConnStep, HandlerStep

LEMMA ConnsStep == Typed /\ ConnsOK /\ [Next]_vars => ConnsOK'
<1> SUFFICES ASSUME Typed, ConnsOK, [Next]_vars, NEW x \in Conn PROVE ConnOK(x)'
  BY DEF ConnsOK
<1>1. ConnOK(x)
  BY DEF ConnsOK
<1>2. CASE UNCHANGED vars
  BY <1>1, <1>2, ConnKept DEF vars, local
<1>3. CASE \E c \in Conn : ConnStep(c)
  BY <1>1, <1>3, OwnStep, ConnSteps, ConnKept
<1>4. CASE \E d \in Device : ApiStep(d)
  BY <1>1, <1>4, ConnKept DEF ApiStep, Subscribe, LogoutLoads, LogoutEnds, SignIn, local
<1>5. ASSUME NEW n \in Node, NodeStep(n) PROVE ConnOK(x)'
  <2>1. ASSUME NEW d \in Device, sendToDevice(n, d) \/ handleDeviceLogout(n, d) PROVE ConnOK(x)'
    <3>1. PICK c \in Conn \cup {NoConn} : closeSocket(c)
      BY <2>1 DEF sendToDevice, handleDeviceLogout, disconnectDevice, Typed
    <3>2. socket'[x] # socket[x] => socket[x] = "open" /\ socket'[x] = "closing"
      BY <3>1, SocketType
    <3> QED BY <1>1, <2>1, <3>2, ConnKept DEF sendToDevice, handleDeviceLogout, local
  <2>2. CASE NodeStops(n)
    BY <1>1, <2>2 DEF NodeStops, ConnOK, Typed
  <2> QED BY <1>5, <2>1, <2>2 DEF NodeStep
<1> QED BY <1>2, <1>3, <1>4, <1>5 DEF Next

----------------------------------------------------------------------------
(* The record of a device *)

\* A step leaves the handlers of x alone, though its socket may start to close.
Still(x) ==
    /\ pc'[x] = pc[x] /\ bound'[x] = bound[x] /\ claim'[x] = claim[x] /\ cleanup'[x] = cleanup[x]
    /\ socket'[x] # socket[x] => socket[x] = "open" /\ socket'[x] = "closing"

\* A step leaves what is recorded of d.
RecordStill(d) ==
    /\ transport'[d] = transport[d] /\ listed'[d] = listed[d] /\ members'[d] = members[d]
    /\ \A n \in Node : registered'[n][d] = registered[n][d]
    /\ raced[d] => raced'[d]

Elsewhere(x, d) == ~Has(x, d) /\ ~Has(x, d)'

LEMMA StillHas ==
    ASSUME Typed, NEW x \in Conn, NEW d \in Device, Still(x)
    PROVE  /\ (x \in Binding(d))' <=> x \in Binding(d)
           /\ (x \in Holding(d))' <=> x \in Holding(d)
BY DEF Still, Binding, Holding

\* A device is as calm as before a step that touches neither its record nor its
\* connections.
LEMMA DeviceKept ==
    ASSUME Typed, NEW d \in Device, CalmFor(d), RecordStill(d),
           \A x \in Conn : Still(x) \/ Elsewhere(x, d)
    PROVE  CalmFor(d)'
<1>1. ASSUME NEW x \in Conn PROVE Has(x, d)' <=> Has(x, d)
  BY <1>1, StillHas DEF Elsewhere, Has
<1>2. CASE raced[d]
  BY <1>2 DEF RecordStill, CalmFor
<1>3. CASE Away(d)
  <2>1. Away(d)'
    BY <1>1, <1>3 DEF Away, RecordStill, Unlisted
  <2> QED BY <2>1 DEF CalmFor
<1>4. ASSUME NEW c \in Conn, Joining(d, c) PROVE CalmFor(d)'
  <2>1. Still(c) /\ (c \in Binding(d))'
    BY <1>4, StillHas DEF Joining, Elsewhere, Has
  <2>2. OnlyOne(c, d)'
    BY <1>1, <1>4 DEF Joining, OnlyOne
  <2>3. Joining(d, c)'
    BY <1>4, <2>1, <2>2 DEF Joining, Still, RecordStill, Unlisted, ListedHere
  <2> QED BY <2>3 DEF CalmFor
<1>5. ASSUME NEW c \in Conn, Joined(d, c) PROVE CalmFor(d)'
  <2>1. Still(c) /\ (c \in Holding(d))'
    BY <1>5, StillHas DEF Joined, Elsewhere, Has
  <2>2. OnlyOne(c, d)'
    BY <1>1, <1>5 DEF Joined, OnlyOne
  <2>3. Joined(d, c)'
    BY <1>5, <2>1, <2>2 DEF Joined, Still, RecordStill, Unlisted, ListedHere
  <2> QED BY <2>3 DEF CalmFor
<1> QED BY <1>2, <1>3, <1>4, <1>5 DEF CalmFor

\* A step of connection c is of no concern to a device that c has nothing to do with.
LEMMA OtherDevice ==
    ASSUME Typed, NEW c \in Conn, ConnStep(c), NEW d \in Device, CalmFor(d), RecordStill(d),
           Still(c) \/ Elsewhere(c, d)
    PROVE  CalmFor(d)'
<1>1. ASSUME NEW x \in Conn, x # c PROVE Still(x)
  BY <1>1, ConnSteps DEF Still
<1> QED BY <1>1, DeviceKept

\* A connection that registers a calm device is the one that does, and likewise one
\* that holds it.
LEMMA WhoBinds ==
    ASSUME ConnsOK, NEW d \in Device, CalmFor(d), ~raced[d], NEW c \in Conn, c \in Binding(d)
    PROVE  Joining(d, c)
<1>1. Has(c, d)
  BY DEF Has
<1>2. ~(c \in Holding(d))
  BY WsAssumption DEF ConnsOK, ConnOK, Binding, Holding
<1> QED BY <1>1, <1>2 DEF CalmFor, Away, Joining, Joined, OnlyOne

LEMMA WhoHolds ==
    ASSUME ConnsOK, NEW d \in Device, CalmFor(d), ~raced[d], NEW c \in Conn, c \in Holding(d)
    PROVE  Joined(d, c)
<1>1. Has(c, d)
  BY DEF Has
<1>2. ~(c \in Binding(d))
  BY WsAssumption DEF ConnsOK, ConnOK, Binding, Holding
<1> QED BY <1>1, <1>2 DEF CalmFor, Away, Joining, Joined, OnlyOne

\* What has no device before and after a step.
LEMMA NoDeviceAt ==
    ASSUME NEW x \in Conn, NEW d \in Device, pc[x] # "idle" => claim[x] # d, bound[x] # d
    PROVE  ~Has(x, d)
BY DEF Has, Binding, Holding

LEMMA NoDeviceThen ==
    ASSUME NEW x \in Conn, NEW d \in Device, pc'[x] # "idle" => claim'[x] # d, bound'[x] # d
    PROVE  ~Has(x, d)'
BY DEF Has, Binding, Holding

\* A connection that is alone with a device stays so, and leaves no one behind.
LEMMA StaysAlone ==
    ASSUME Typed, NEW c \in Conn, ConnStep(c), NEW d \in Device, OnlyOne(c, d)
    PROVE  OnlyOne(c, d)' /\ (~Has(c, d)' => \A x \in Conn : ~Has(x, d)')
<1>1. ASSUME NEW x \in Conn, x # c PROVE Has(x, d)' <=> Has(x, d)
  <2>1. Still(x)
    BY <1>1, ConnSteps DEF Still
  <2> QED BY <2>1, StillHas DEF Has
<1> QED BY <1>1 DEF OnlyOne

\* The steps of connection c, one by one: what becomes of a calm device.

LEMMA CalmConnects ==
    ASSUME Typed, ConnsOK, NEW c \in Conn, handleConnection(c), NEW d \in Device, CalmFor(d)
    PROVE  CalmFor(d)'
<1>1. ConnStep(c)
  BY DEF ConnStep
<1>2. bound[c] = NoDevice /\ pc[c] = "idle" /\ bound' = bound /\ pc' = pc
  BY DEF handleConnection, ConnsOK, ConnOK, Typed
<1>3. Elsewhere(c, d)
  BY <1>2, WsAssumption, NoDeviceAt, NoDeviceThen DEF Elsewhere
<1>4. RecordStill(d)
  BY DEF handleConnection, RecordStill, redis
<1> QED BY <1>1, <1>3, <1>4, OtherDevice

LEMMA CalmRegister ==
    ASSUME Typed, ConnsOK, NEW c \in Conn, NEW e \in Device, RegisterFrame(c, e),
           NEW d \in Device, CalmFor(d)
    PROVE  CalmFor(d)'
<1>1. ConnStep(c)
  BY DEF ConnStep
<1>2. /\ bound[c] = NoDevice /\ pc[c] = "idle" /\ bound'[c] = NoDevice
      /\ pc'[c] = "session" /\ claim'[c] = e /\ socket'[c] \in {"open", "closing"}
  BY DEF RegisterFrame, MayRegister, GoTo, Typed
<1>3. /\ UNCHANGED <<registered, transport, listed, members>> /\ RaceIf(e, Busy(e))
  BY DEF RegisterFrame, redis
<1>4. raced[d] => raced'[d]
  BY <1>3 DEF RaceIf, Typed
<1>5. CASE d # e
  <2>1. Elsewhere(c, d)
    BY <1>2, <1>5, WsAssumption, NoDeviceAt, NoDeviceThen DEF Elsewhere
  <2>2. RecordStill(d)
    BY <1>3, <1>4 DEF RecordStill
  <2> QED BY <1>1, <2>1, <2>2, OtherDevice
<1>6. CASE d = e /\ (raced[d] \/ Busy(d))
  <2>1. raced'[d]
    BY <1>3, <1>4, <1>6 DEF RaceIf, Typed
  <2> QED BY <2>1 DEF CalmFor
<1>7. CASE d = e /\ ~raced[d] /\ ~Busy(d)
  <2>1. \A x \in Conn : ~Has(x, d)
    BY <1>7 DEF Busy, Has
  <2>2. Away(d)
    BY <1>7, <2>1 DEF CalmFor, Joining, Joined, Has
  <2>3. OnlyOne(c, d)
    BY <2>1 DEF OnlyOne
  <2>4. Joining(d, c)'
    BY <1>1, <1>2, <1>3, <1>7, <2>2, <2>3, StaysAlone DEF Joining, Away, Unlisted, Binding
  <2> QED BY <2>4 DEF CalmFor
<1> QED BY <1>5, <1>6, <1>7

LEMMA CalmReads ==
    ASSUME Typed, ConnsOK, NEW c \in Conn, ReadSession(c), NEW d \in Device, CalmFor(d)
    PROVE  CalmFor(d)'
<1>1. ConnStep(c)
  BY DEF ConnStep, HandlerStep
<1>2. /\ pc[c] = "session" /\ bound[c] = NoDevice /\ bound'[c] = NoDevice
      /\ (pc'[c] = "write" /\ claim' = claim) \/ pc'[c] = "idle"
  BY DEF ReadSession, ConnsOK, ConnOK, GoTo, Answered, Typed
<1>3. /\ UNCHANGED <<registered, transport, listed, members, raced, socket>>
  BY DEF ReadSession, redis
<1>4. CASE claim[c] # d
  <2>1. Elsewhere(c, d)
    BY <1>2, <1>4, WsAssumption, NoDeviceAt, NoDeviceThen DEF Elsewhere
  <2>2. RecordStill(d)
    BY <1>3 DEF RecordStill
  <2> QED BY <1>1, <2>1, <2>2, OtherDevice
<1>5. CASE claim[c] = d /\ ~raced[d]
  <2>1. c \in Binding(d)
    BY <1>2, <1>5 DEF Binding
  <2>2. Joining(d, c)
    BY <1>5, <2>1, WhoBinds
  <2>3. transport[d] = NoNode /\ Unlisted(d) /\ OnlyOne(c, d) /\ \A n \in Node : registered[n][d] = NoConn
    BY <1>2, <2>2 DEF Joining
  <2>4. CASE pc'[c] = "idle"
    <3>1. ~Has(c, d)'
      BY <1>2, <2>4, WsAssumption, NoDeviceThen
    <3>2. Away(d)'
      BY <1>1, <1>3, <2>3, <3>1, StaysAlone DEF Away, Unlisted
    <3> QED BY <3>2 DEF CalmFor
  <2>5. CASE pc'[c] = "write" /\ claim' = claim
    <3>1. (c \in Binding(d))'
      BY <1>5, <2>5 DEF Binding
    <3>2. Joining(d, c)'
      BY <1>1, <1>3, <2>2, <2>3, <2>5, <3>1, StaysAlone DEF Joining, Unlisted
    <3> QED BY <3>2 DEF CalmFor
  <2> QED BY <1>2, <2>4, <2>5
<1>6. CASE raced[d]
  BY <1>3, <1>6 DEF CalmFor
<1> QED BY <1>4, <1>5, <1>6

LEMMA CalmWrites ==
    ASSUME Typed, ConnsOK, NEW c \in Conn, WriteDevice(c), NEW d \in Device, CalmFor(d)
    PROVE  CalmFor(d)'
<1>1. ConnStep(c)
  BY DEF ConnStep, HandlerStep
<1>2. /\ pc[c] = "write" /\ bound[c] = NoDevice /\ bound'[c] = NoDevice
      /\ pc'[c] = "confirm" /\ claim[c] \in Device /\ claim' = claim
      /\ transport' = [transport EXCEPT ![claim[c]] = NodeOf[c]]
  BY DEF WriteDevice, ConnsOK, ConnOK, GoTo, Typed
<1>3. UNCHANGED <<registered, listed, members, raced, socket>>
  BY DEF WriteDevice
<1>4. CASE claim[c] # d
  <2>1. Elsewhere(c, d)
    BY <1>2, <1>4, WsAssumption, NoDeviceAt, NoDeviceThen DEF Elsewhere
  <2>2. RecordStill(d)
    BY <1>2, <1>3, <1>4 DEF RecordStill, Typed
  <2> QED BY <1>1, <2>1, <2>2, OtherDevice
<1>5. CASE claim[c] = d /\ ~raced[d]
  <2>1. c \in Binding(d) /\ (c \in Binding(d))'
    BY <1>2, <1>5 DEF Binding
  <2>2. Joining(d, c)
    BY <1>5, <2>1, WhoBinds
  <2>3. transport'[d] = NodeOf[c]
    BY <1>2, <1>5 DEF Typed
  <2>4. ListedHere(d)'
    BY <1>2, <1>3, <2>2 DEF Joining, Unlisted, ListedHere
  <2>5. Joining(d, c)'
    BY <1>1, <1>2, <1>3, <2>1, <2>2, <2>3, <2>4, StaysAlone DEF Joining
  <2> QED BY <2>5 DEF CalmFor
<1>6. CASE raced[d]
  BY <1>3, <1>6 DEF CalmFor
<1> QED BY <1>4, <1>5, <1>6

LEMMA CalmConfirms ==
    ASSUME Typed, ConnsOK, NEW c \in Conn, Confirm(c), NEW d \in Device, CalmFor(d)
    PROVE  CalmFor(d)'
<1>1. ConnStep(c)
  BY DEF ConnStep, HandlerStep
<1>2. /\ pc[c] = "confirm" /\ bound[c] = NoDevice /\ claim[c] \in Device
      /\ pc'[c] = "idle" /\ bound'[c] = claim[c]
      /\ registered' = [registered EXCEPT ![NodeOf[c]][claim[c]] = c]
  BY DEF Confirm, ConnsOK, ConnOK, GoTo, Answered, Typed
<1>3. UNCHANGED <<transport, listed, members, raced, socket, cleanup>>
  BY DEF Confirm, redis
<1>4. CASE claim[c] # d
  <2>1. Elsewhere(c, d)
    BY <1>2, <1>4, WsAssumption, NoDeviceAt, NoDeviceThen DEF Elsewhere
  <2>2. \A n \in Node : registered'[n][d] = registered[n][d]
    BY <1>2, <1>4 DEF Typed
  <2>3. RecordStill(d)
    BY <1>3, <2>2 DEF RecordStill
  <2> QED BY <1>1, <2>1, <2>3, OtherDevice
<1>5. CASE claim[c] = d /\ ~raced[d]
  <2>1. c \in Binding(d)
    BY <1>2, <1>5 DEF Binding
  <2>2. Joining(d, c)
    BY <1>5, <2>1, WhoBinds
  <2>3. (c \in Holding(d))' /\ cleanup'[c] = "none"
    BY <1>2, <1>3, <1>5, <2>2 DEF Joining, Holding, ConnsOK, ConnOK, Typed
  <2>4. \A n \in Node : registered'[n][d] = IF n = NodeOf[c] THEN c ELSE NoConn
    BY <1>2, <1>5, <2>2, WsAssumption DEF Joining, Typed
  <2>5. Joined(d, c)'
    BY <1>1, <1>2, <1>3, <2>2, <2>3, <2>4, StaysAlone DEF Joining, Joined, ListedHere
  <2> QED BY <2>5 DEF CalmFor
<1>6. CASE raced[d]
  BY <1>3, <1>6 DEF CalmFor
<1> QED BY <1>4, <1>5, <1>6

LEMMA CalmRegisterFails ==
    ASSUME Typed, ConnsOK, NEW c \in Conn, RegisterFails(c), NEW d \in Device, CalmFor(d)
    PROVE  CalmFor(d)'
<1>1. ConnStep(c)
  BY DEF ConnStep
<1>2. /\ pc[c] # "idle" /\ bound[c] = NoDevice /\ bound'[c] = NoDevice
      /\ pc'[c] = "idle" /\ claim[c] \in Device /\ RaceIf(claim[c], pc[c] = "confirm")
  BY DEF RegisterFails, ConnsOK, ConnOK, GoTo, Answered, Typed
<1>3. UNCHANGED <<registered, transport, listed, members, socket>>
  BY DEF RegisterFails, redis
<1>4. raced[d] => raced'[d]
  BY <1>2 DEF RaceIf, Typed
<1>5. CASE claim[c] # d
  <2>1. Elsewhere(c, d)
    BY <1>2, <1>5, WsAssumption, NoDeviceAt, NoDeviceThen DEF Elsewhere
  <2>2. RecordStill(d)
    BY <1>3, <1>4 DEF RecordStill
  <2> QED BY <1>1, <2>1, <2>2, OtherDevice
<1>6. CASE claim[c] = d /\ ~raced[d] /\ pc[c] # "confirm"
  <2>1. c \in Binding(d)
    BY <1>2, <1>6 DEF Binding
  <2>2. Joining(d, c)
    BY <1>6, <2>1, WhoBinds
  <2>3. ~Has(c, d)'
    BY <1>2, WsAssumption, NoDeviceThen
  <2>4. Away(d)'
    BY <1>1, <1>3, <1>6, <2>2, <2>3, StaysAlone DEF Joining, Away, Unlisted
  <2> QED BY <2>4 DEF CalmFor
<1>7. CASE raced[d] \/ (claim[c] = d /\ pc[c] = "confirm")
  BY <1>2, <1>4, <1>7 DEF CalmFor, RaceIf, Typed
<1> QED BY <1>5, <1>6, <1>7

LEMMA CalmCloses ==
    ASSUME Typed, ConnsOK, NEW c \in Conn, SocketCloses(c), NEW d \in Device, CalmFor(d)
    PROVE  CalmFor(d)'
<1>1. ConnStep(c)
  BY DEF ConnStep
<1>2. /\ socket[c] \in {"open", "closing"} /\ socket'[c] = "closed"
      /\ bound[c] = NoDevice => cleanup' = cleanup
      /\ bound[c] # NoDevice => cleanup'[c] = "remove"
      /\ pc[c] = "idle" => raced' = raced
      /\ pc[c] # "idle" => claim[c] \in Device /\ bound[c] = NoDevice
                           /\ raced' = [raced EXCEPT ![claim[c]] = TRUE]
  BY DEF SocketCloses, ConnsOK, ConnOK, Typed
<1>3. UNCHANGED <<registered, bound, pc, claim, transport, listed, members>>
  BY DEF SocketCloses, redis
<1>4. raced[d] => raced'[d]
  BY <1>2 DEF Typed
<1>5. CASE bound[c] # d /\ ~(pc[c] # "idle" /\ claim[c] = d)
  <2>1. Elsewhere(c, d)
    BY <1>3, <1>5, NoDeviceAt, NoDeviceThen DEF Elsewhere
  <2>2. RecordStill(d)
    BY <1>3, <1>4 DEF RecordStill
  <2> QED BY <1>1, <2>1, <2>2, OtherDevice
<1>6. CASE bound[c] = d /\ ~raced[d]
  <2>1. c \in Holding(d) /\ (c \in Holding(d))'
    BY <1>2, <1>3, <1>6, WsAssumption DEF Holding
  <2>2. Joined(d, c)
    BY <1>6, <2>1, WhoHolds
  <2>3. cleanup[c] = "none" /\ cleanup'[c] = "remove"
    BY <1>2, <1>6, WsAssumption DEF ConnsOK, ConnOK
  <2>4. Joined(d, c)'
    BY <1>1, <1>3, <2>1, <2>2, <2>3, StaysAlone DEF Joined, ListedHere
  <2> QED BY <2>4 DEF CalmFor
<1>7. CASE raced[d] \/ (pc[c] # "idle" /\ claim[c] = d)
  BY <1>2, <1>4, <1>7 DEF CalmFor, Typed
<1> QED BY <1>5, <1>6, <1>7

LEMMA CalmRemoves ==
    ASSUME Typed, ConnsOK, NEW c \in Conn, RemoveSubscriptions(c), NEW d \in Device, CalmFor(d)
    PROVE  CalmFor(d)'
<1>1. ConnStep(c)
  BY DEF ConnStep, HandlerStep
<1>2. /\ cleanup[c] = "remove" /\ cleanup'[c] = "offline" /\ bound[c] \in Device
      /\ socket[c] = "closed" /\ pc[c] = "idle"
  BY WsAssumption DEF RemoveSubscriptions, ConnsOK, ConnOK, Typed
<1>3. /\ members' = [members EXCEPT ![bound[c]] = IF listed[bound[c]] THEN @ \ {transport[bound[c]]} ELSE @]
      /\ listed' = [listed EXCEPT ![bound[c]] = FALSE]
  BY DEF RemoveSubscriptions
<1>4. UNCHANGED <<registered, bound, pc, claim, transport, raced, socket>>
  BY DEF RemoveSubscriptions, local
<1>5. CASE bound[c] # d
  <2>1. Elsewhere(c, d)
    BY <1>2, <1>4, <1>5, NoDeviceAt, NoDeviceThen DEF Elsewhere
  <2>2. RecordStill(d)
    BY <1>2, <1>3, <1>4, <1>5 DEF RecordStill, Typed
  <2> QED BY <1>1, <2>1, <2>2, OtherDevice
<1>6. CASE bound[c] = d /\ ~raced[d]
  <2>1. c \in Holding(d) /\ (c \in Holding(d))'
    BY <1>2, <1>4, <1>6 DEF Holding
  <2>2. Joined(d, c)
    BY <1>6, <2>1, WhoHolds
  <2>3. Unlisted(d)'
    BY <1>2, <1>3, <1>6, <2>2 DEF Joined, ListedHere, Unlisted, Typed
  <2>4. Joined(d, c)'
    BY <1>1, <1>2, <1>4, <2>1, <2>2, <2>3, StaysAlone DEF Joined
  <2> QED BY <2>4 DEF CalmFor
<1>7. CASE raced[d]
  BY <1>4, <1>7 DEF CalmFor
<1> QED BY <1>5, <1>6, <1>7

LEMMA CalmGoesOffline ==
    ASSUME Typed, ConnsOK, NEW c \in Conn, GoOffline(c), NEW d \in Device, CalmFor(d)
    PROVE  CalmFor(d)'
<1>1. ConnStep(c)
  BY DEF ConnStep, HandlerStep
<1>2. /\ cleanup[c] = "offline" /\ cleanup'[c] = "forget" /\ bound[c] \in Device
      /\ socket[c] = "closed" /\ pc[c] = "idle"
      /\ transport' = [transport EXCEPT ![bound[c]] = NoNode]
  BY WsAssumption DEF GoOffline, ConnsOK, ConnOK, Typed
<1>3. UNCHANGED <<registered, bound, pc, claim, listed, members, raced, socket>>
  BY DEF GoOffline, local
<1>4. CASE bound[c] # d
  <2>1. Elsewhere(c, d)
    BY <1>2, <1>3, <1>4, NoDeviceAt, NoDeviceThen DEF Elsewhere
  <2>2. RecordStill(d)
    BY <1>2, <1>3, <1>4 DEF RecordStill, Typed
  <2> QED BY <1>1, <2>1, <2>2, OtherDevice
<1>5. CASE bound[c] = d /\ ~raced[d]
  <2>1. c \in Holding(d) /\ (c \in Holding(d))'
    BY <1>2, <1>3, <1>5 DEF Holding
  <2>2. Joined(d, c)
    BY <1>5, <2>1, WhoHolds
  <2>3. transport'[d] = NoNode
    BY <1>2, <1>5 DEF Typed
  <2>4. Joined(d, c)'
    BY <1>1, <1>2, <1>3, <2>1, <2>2, <2>3, StaysAlone DEF Joined, Unlisted
  <2> QED BY <2>4 DEF CalmFor
<1>6. CASE raced[d]
  BY <1>3, <1>6 DEF CalmFor
<1> QED BY <1>4, <1>5, <1>6

LEMMA CalmForgets ==
    ASSUME Typed, ConnsOK, NEW c \in Conn, Forget(c), NEW d \in Device, CalmFor(d)
    PROVE  CalmFor(d)'
<1>1. ConnStep(c)
  BY DEF ConnStep, HandlerStep
<1>2. /\ cleanup[c] = "forget" /\ cleanup'[c] = "none" /\ bound[c] \in Device
      /\ socket[c] = "closed" /\ pc[c] = "idle"
      /\ registered' = [registered EXCEPT ![NodeOf[c]][bound[c]] = NoConn]
  BY WsAssumption DEF Forget, ConnsOK, ConnOK, Typed
<1>3. UNCHANGED <<bound, pc, claim, transport, listed, members, raced, socket>>
  BY DEF Forget, redis
<1>4. CASE bound[c] # d
  <2>1. Elsewhere(c, d)
    BY <1>2, <1>3, <1>4, NoDeviceAt, NoDeviceThen DEF Elsewhere
  <2>2. \A n \in Node : registered'[n][d] = registered[n][d]
    BY <1>2, <1>4 DEF Typed
  <2>3. RecordStill(d)
    BY <1>3, <2>2 DEF RecordStill
  <2> QED BY <1>1, <2>1, <2>3, OtherDevice
<1>5. CASE bound[c] = d /\ ~raced[d]
  <2>1. c \in Holding(d)
    BY <1>2, <1>5 DEF Holding
  <2>2. Joined(d, c)
    BY <1>5, <2>1, WhoHolds
  <2>3. ~Has(c, d)'
    BY <1>2, <1>3 DEF Has, Binding, Holding
  <2>4. \A n \in Node : registered'[n][d] = NoConn
    BY <1>2, <1>5, <2>2, WsAssumption DEF Joined, Typed
  <2>5. Away(d)'
    BY <1>1, <1>2, <1>3, <2>2, <2>3, <2>4, StaysAlone DEF Joined, Away, Unlisted
  <2> QED BY <2>5 DEF CalmFor
<1>6. CASE raced[d]
  BY <1>3, <1>6 DEF CalmFor
<1> QED BY <1>4, <1>5, <1>6

LEMMA CalmCleanupFails ==
    ASSUME Typed, ConnsOK, NEW c \in Conn, CleanupFails(c), NEW d \in Device, CalmFor(d)
    PROVE  CalmFor(d)'
<1>1. ConnStep(c)
  BY DEF ConnStep
<1>2. /\ bound[c] \in Device /\ pc[c] = "idle" /\ raced' = [raced EXCEPT ![bound[c]] = TRUE]
  BY WsAssumption DEF CleanupFails, RaceIf, ConnsOK, ConnOK, Typed
<1>3. UNCHANGED <<registered, bound, pc, claim, transport, listed, members, socket>>
  BY DEF CleanupFails, redis, local
<1>4. CASE bound[c] # d
  <2>1. Elsewhere(c, d)
    BY <1>2, <1>3, <1>4, NoDeviceAt, NoDeviceThen DEF Elsewhere
  <2>2. RecordStill(d)
    BY <1>2, <1>3, <1>4 DEF RecordStill, Typed
  <2> QED BY <1>1, <2>1, <2>2, OtherDevice
<1>5. CASE bound[c] = d
  BY <1>2, <1>5 DEF CalmFor, Typed
<1> QED BY <1>4, <1>5

----------------------------------------------------------------------------
(* The API and the nodes *)

LEMMA CalmApi ==
    ASSUME Typed, ConnsOK, NEW e \in Device, ApiStep(e), NEW d \in Device, CalmFor(d)
    PROVE  CalmFor(d)'
<1>1. /\ UNCHANGED <<registered, bound, pc, claim, cleanup, socket, transport>>
      /\ Subscribe(e) \/ UNCHANGED <<listed, members>>
      /\ raced[d] => raced'[d]
  BY DEF ApiStep, Subscribe, LogoutLoads, LogoutEnds, SignIn, local, redis, RaceIf, Typed
<1>2. \A x \in Conn : Still(x)
  BY <1>1 DEF Still
<1>3. CASE UNCHANGED <<listed, members>>
  BY <1>1, <1>2, <1>3, DeviceKept DEF RecordStill
<1>4. CASE Subscribe(e) /\ d # e
  <2>1. listed'[d] = listed[d] /\ members'[d] = members[d]
    BY <1>4 DEF Subscribe, Typed
  <2> QED BY <1>1, <1>2, <2>1, DeviceKept DEF RecordStill
<1>5. CASE Subscribe(e) /\ d = e /\ ~raced'[d]
  <2>1. /\ transport[d] # NoNode /\ ~listed[d]
        /\ listed'[d] = TRUE /\ members'[d] = members[d] \cup {transport[d]}
        /\ \A c \in Holding(d) : cleanup[c] = "none"
    BY <1>5 DEF Subscribe, RaceIf, Typed
  <2>2. ListedHere(d) => ListedHere(d)'
    BY <1>1, <2>1 DEF ListedHere
  <2>3. \A x \in Conn : Has(x, d)' <=> Has(x, d)
    BY <1>2, StillHas DEF Has
  <2>4. ~Away(d)
    BY <2>1 DEF Away
  <2>5. ASSUME NEW c \in Conn, Joining(d, c) PROVE Joining(d, c)'
    <3>1. (c \in Binding(d))' /\ OnlyOne(c, d)'
      BY <1>2, <2>3, <2>5, StillHas DEF Joining, OnlyOne
    <3> QED BY <1>1, <2>1, <2>2, <2>5, <3>1 DEF Joining
  <2>6. ASSUME NEW c \in Conn, Joined(d, c) PROVE Joined(d, c)'
    <3>1. (c \in Holding(d))' /\ OnlyOne(c, d)'
      BY <1>2, <2>3, <2>6, StillHas DEF Joined, OnlyOne
    <3> QED BY <1>1, <2>1, <2>2, <2>6, <3>1 DEF Joined
  <2> QED BY <1>1, <1>5, <2>4, <2>5, <2>6 DEF CalmFor
<1>6. CASE raced'[d]
  BY <1>6 DEF CalmFor
<1> QED BY <1>1, <1>3, <1>4, <1>5, <1>6

LEMMA CalmAsked ==
    ASSUME Typed, NEW n \in Node, NEW e \in Device, sendToDevice(n, e) \/ handleDeviceLogout(n, e),
           NEW d \in Device, CalmFor(d)
    PROVE  CalmFor(d)'
<1>1. UNCHANGED <<registered, bound, pc, claim, cleanup, transport, listed, members, raced>>
  BY DEF sendToDevice, handleDeviceLogout, local, redis
<1>2. PICK c \in Conn \cup {NoConn} : closeSocket(c)
  BY DEF sendToDevice, handleDeviceLogout, disconnectDevice, Typed
<1>3. \A x \in Conn : Still(x)
  BY <1>1, <1>2, SocketType DEF Still
<1> QED BY <1>1, <1>3, DeviceKept DEF RecordStill

LEMMA CalmStops ==
    ASSUME Typed, ConnsOK, NEW n \in Node, NodeStops(n), NEW d \in Device, CalmFor(d)
    PROVE  CalmFor(d)'
<1> DEFINE here == {c \in Conn : NodeOf[c] = n /\ socket[c] # "none"}
<1>1. /\ raced' = [e \in Device |-> raced[e] \/ (Binding(e) \cup Holding(e)) \cap here # {}]
      /\ registered' = [registered EXCEPT ![n] = [e \in Device |-> NoConn]]
      /\ UNCHANGED <<bound, transport, listed, members>>
  BY DEF NodeStops, redis
<1>2. \A x \in here : pc'[x] = "idle" /\ cleanup'[x] = "none" /\ socket'[x] = "closed"
  BY DEF NodeStops
<1>3. \A x \in Conn \ here : Still(x)
  BY DEF NodeStops, Still
<1>4. CASE raced'[d]
  BY <1>4 DEF CalmFor
<1>5. CASE ~raced'[d]
  <2>1. ~raced[d] /\ \A x \in here : ~Has(x, d)
    BY <1>1, <1>5 DEF Has, Typed
  <2>2. \A x \in here : ~Has(x, d)'
    BY <1>2 DEF Has, Binding, Holding
  <2>3. registered[n][d] = NoConn
    <3>1. ASSUME NEW c \in Conn, Joined(d, c) PROVE NodeOf[c] # n
      <4>1. bound[c] = d /\ socket[c] # "none"
        BY <3>1, WsAssumption DEF Joined, Holding, ConnsOK, ConnOK
      <4>2. Has(c, d)
        BY <3>1 DEF Joined, Has
      <4> QED BY <2>1, <4>1, <4>2
    <3> QED BY <2>1, <3>1 DEF CalmFor, Away, Joining, Joined
  <2>4. \A m \in Node : registered'[m][d] = registered[m][d]
    BY <1>1, <2>3 DEF Typed
  <2>5. RecordStill(d)
    BY <1>1, <2>1, <2>4 DEF RecordStill
  <2>6. \A x \in Conn : Still(x) \/ Elsewhere(x, d)
    BY <1>3, <2>1, <2>2 DEF Elsewhere
  <2> QED BY <2>5, <2>6, DeviceKept
<1> QED BY <1>4, <1>5

LEMMA CalmInit == Init => Calm
<1> SUFFICES ASSUME Init, NEW d \in Device PROVE Away(d)
  BY DEF Calm, CalmFor
<1>1. \A c \in Conn : ~Has(c, d)
  BY WsAssumption DEF Init, Has, Binding, Holding
<1> QED BY <1>1 DEF Init, Away, Unlisted

LEMMA CalmStep == Typed /\ ConnsOK /\ Calm /\ [Next]_vars => Calm'
<1> SUFFICES ASSUME Typed, ConnsOK, Calm, [Next]_vars, NEW d \in Device PROVE CalmFor(d)'
  BY DEF Calm
<1>1. CalmFor(d)
  BY DEF Calm
<1>2. CASE UNCHANGED vars
  BY <1>1, <1>2, DeviceKept DEF vars, local, redis, Still, RecordStill
<1>3. ASSUME NEW c \in Conn, ConnStep(c) PROVE CalmFor(d)'
  BY <1>1, <1>3, CalmConnects, CalmRegister, CalmReads, CalmWrites, CalmConfirms, CalmRegisterFails,
     CalmCloses, CalmRemoves, CalmGoesOffline, CalmForgets, CalmCleanupFails DEF ConnStep, HandlerStep
<1>4. ASSUME NEW e \in Device, ApiStep(e) PROVE CalmFor(d)'
  BY <1>1, <1>4, CalmApi
<1>5. ASSUME NEW n \in Node, NodeStep(n) PROVE CalmFor(d)'
  BY <1>1, <1>5, CalmAsked, CalmStops DEF NodeStep
<1> QED BY <1>2, <1>3, <1>4, <1>5 DEF Next

----------------------------------------------------------------------------
(* The theorems *)

LEMMA WsInvariant == Spec => [](Typed /\ ConnsOK /\ Calm)
<1>1. Init => Typed /\ ConnsOK /\ Calm
  BY TypedInit, ConnsInit, CalmInit
<1>2. Typed /\ ConnsOK /\ Calm /\ [Next]_vars => (Typed /\ ConnsOK /\ Calm)'
  BY TypedStep, ConnsStep, CalmStep
<1> QED BY <1>1, <1>2, PTL DEF Spec

\* Type correctness of the connections, the records and the logouts: every handler
\* works on a device (a claim or a binding is never used where there is none), and a
\* client that is yet to register is one of those counted.
THEOREM TypeCorrect == Spec => []TypeOK
<1>1. Typed => TypeOK
  <2> SUFFICES ASSUME Typed PROVE TypeOK
    OBVIOUS
  <2>1. ASSUME NEW d \in Device
        PROVE  revoking[d] \subseteq Node \cup {NoNode} /\ Cardinality(revoking[d]) <= 1
    <3>1. CASE revoking[d] = {}
      BY <3>1, FS_EmptySet
    <3>2. ASSUME NEW n \in Node \cup {NoNode}, revoking[d] = {n}
          PROVE  revoking[d] \subseteq Node \cup {NoNode} /\ Cardinality(revoking[d]) <= 1
      <4>1. Cardinality({n}) = 1
        BY FS_Singleton
      <4> QED BY <3>2, <4>1
    <3>3. revoking[d] = {} \/ \E n \in Node \cup {NoNode} : revoking[d] = {n}
      <4>1. revoking[d] \in {{}} \cup {{n} : n \in Node \cup {NoNode}}
        BY DEF Typed
      <4> QED BY <4>1, Zenon
    <3> QED BY <3>1, <3>2, <3>3
  <2> QED BY <2>1 DEF Typed, TypeOK
<1> QED BY <1>1, WsInvariant, PTL

\* While the handlers of a device do not race, whatever those of other devices do and
\* however often nodes stop: it is recorded online on the node where it has a
\* connection and nowhere else, that node routes to it, its subscriptions are under
\* that transport, and a device that has gone leaves none.
THEOREM RecordFollows == Spec => []RecordFollowsConnection
<1>1. Typed /\ ConnsOK /\ Calm => RecordFollowsConnection
  <2> SUFFICES ASSUME Typed, ConnsOK, Calm, NEW d \in Device, ~raced[d], Settled(d)
               PROVE  /\ \A n \in Node : /\ (transport[d] = n) <=> Live(d, n)
                                         /\ (registered[n][d] # NoConn) <=> Live(d, n)
                      /\ members[d] = IF listed[d] THEN {transport[d]} ELSE {}
                      /\ transport[d] = NoNode => ~listed[d]
    BY DEF RecordFollowsConnection
  <2>1. ASSUME NEW x \in Conn, NEW n \in Node, bound[x] = d, socket[x] \in {"open", "closing"}
        PROVE  Has(x, d)
    BY <2>1 DEF Has, Holding
  <2>2. CASE Away(d)
    BY <2>1, <2>2, WsAssumption DEF Away, Live, Unlisted
  <2>3. ASSUME NEW c \in Conn, Joining(d, c) PROVE FALSE
    BY <2>3 DEF Joining, Settled
  <2>4. ASSUME NEW c \in Conn, Joined(d, c)
        PROVE  /\ \A n \in Node : /\ (transport[d] = n) <=> Live(d, n)
                                  /\ (registered[n][d] # NoConn) <=> Live(d, n)
               /\ members[d] = IF listed[d] THEN {transport[d]} ELSE {}
               /\ transport[d] = NoNode => ~listed[d]
    <3>1. /\ c \in Holding(d) /\ cleanup[c] = "none" /\ OnlyOne(c, d)
          /\ transport[d] = NodeOf[c] /\ ListedHere(d)
          /\ \A n \in Node : registered[n][d] = IF n = NodeOf[c] THEN c ELSE NoConn
      BY <2>4 DEF Joined, Settled
    <3>2. bound[c] = d /\ socket[c] \in {"open", "closing"}
      BY <3>1, WsAssumption DEF Holding, Typed, ConnsOK, ConnOK
    <3>3. \A n \in Node : Live(d, n) <=> n = NodeOf[c]
      BY <2>1, <3>1, <3>2 DEF Live, OnlyOne
    <3> QED BY <3>1, <3>3, WsAssumption DEF ListedHere
  <2> QED BY <2>2, <2>3, <2>4 DEF Calm, CalmFor
<1> QED BY <1>1, WsInvariant, PTL
==============================================================================
