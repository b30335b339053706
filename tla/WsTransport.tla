---------------------------- MODULE WsTransport ----------------------------
(***************************************************************************)
(* The connections of the websocket transport nodes and the device records *)
(* in Redis they keep (worker/src/lib/transport: ws/Client.ts,             *)
(* WebsocketsTransportWorker.ts, VolatileTransportWorker.ts), with the     *)
(* logouts the API sends them (api/src/lib/Session.ts).                    *)
(*                                                                         *)
(* A handler stops at every call to Redis, and sockets close, other        *)
(* handlers run and messages arrive meanwhile.  The commands that change a *)
(* subscription are one step here; module SubscriptionIndex takes them     *)
(* apart.                                                                  *)
(***************************************************************************)
EXTENDS Naturals, FiniteSets

CONSTANTS Node, Device, Conn,
          NodeOf,       \* the node a connection is made to
          NoNode, NoDevice, NoConn,
          MaxStops      \* bound: nodes stopped

ASSUME WsAssumption ==
    /\ NodeOf \in [Conn -> Node]
    /\ NoNode \notin Node /\ NoDevice \notin Device /\ NoConn \notin Conn
    /\ MaxStops \in Nat

VARIABLES
    socket,       \* "none", "open", "closing" or "closed"
    unregistered, \* unregisteredClients, of all nodes
    registered,   \* registeredClients, per node and device
    clients,      \* wsToNexxusClientMap, of all nodes
    bound,        \* the client's deviceId
    pc,           \* the client's 'register' handler: what it waits for
    claim,        \* the device named by the token being registered
    cleanup,      \* handleDisconnect: what it waits for
    transport,    \* Redis: the device's transport; it is 'online' with one
    listed,       \* Redis: the device's list of subscriptions is not empty
    members,      \* Redis: per device, the transports it is subscribed under
    session,      \* Redis: the device's session is active
    revoking,     \* API: the transport a logout has read, in a set
    logouts,      \* queues: 'device_logout' messages
    raced,        \* history: see below
    stops

local == <<unregistered, registered, clients, bound, pc, claim>>
redis == <<transport, listed, members, session>>
api == <<revoking, logouts>>
vars == <<socket, local, cleanup, redis, api, raced, stops>>

TypeOK ==
    /\ socket \in [Conn -> {"none", "open", "closing", "closed"}]
    /\ unregistered \subseteq clients /\ clients \subseteq Conn
    /\ registered \in [Node -> [Device -> Conn \cup {NoConn}]]
    /\ bound \in [Conn -> Device \cup {NoDevice}]
    /\ pc \in [Conn -> {"idle", "session", "write", "confirm"}]
    /\ claim \in [Conn -> Device \cup {NoDevice}]
    /\ cleanup \in [Conn -> {"none", "remove", "offline", "forget"}]
    /\ transport \in [Device -> Node \cup {NoNode}]
    /\ listed \in [Device -> BOOLEAN]
    /\ members \in [Device -> SUBSET Node]
    /\ session \in [Device -> BOOLEAN]
    /\ \A d \in Device : revoking[d] \subseteq Node \cup {NoNode} /\ Cardinality(revoking[d]) <= 1
    /\ logouts \subseteq Node \X Device
    /\ raced \in [Device -> BOOLEAN]
    /\ stops \in 0..MaxStops

Init ==
    /\ socket = [c \in Conn |-> "none"]
    /\ unregistered = {} /\ clients = {}
    /\ registered = [n \in Node |-> [d \in Device |-> NoConn]]
    /\ bound = [c \in Conn |-> NoDevice]
    /\ pc = [c \in Conn |-> "idle"]
    /\ claim = [c \in Conn |-> NoDevice]
    /\ cleanup = [c \in Conn |-> "none"]
    /\ transport = [d \in Device |-> NoNode]
    /\ listed = [d \in Device |-> FALSE]
    /\ members = [d \in Device |-> {}]
    /\ session = [d \in Device |-> TRUE]
    /\ revoking = [d \in Device |-> {}]
    /\ logouts = {}
    /\ raced = [d \in Device |-> FALSE]
    /\ stops = 0

----------------------------------------------------------------------------
(* A device's story is raced once two handlers have been at work on it at  *)
(* a time, or a step of one has failed: a connection registers while       *)
(* another is bound to the device or binding, closes while it registers,   *)
(* or fails half-way; a logout meets a registration or cannot be           *)
(* published; the node goes away.                                          *)

Binding(d) == {c \in Conn : pc[c] # "idle" /\ claim[c] = d}
Holding(d) == {c \in Conn : bound[c] = d /\ (socket[c] # "closed" \/ cleanup[c] # "none")}
Busy(d) == Binding(d) \cup Holding(d) # {} \/ revoking[d] # {} \/ \E n \in Node : <<n, d>> \in logouts

RaceIf(d, race) == raced' = IF race THEN [raced EXCEPT ![d] = TRUE] ELSE raced

GoTo(c, where) == pc' = [pc EXCEPT ![c] = where]

\* The 'register' handler is done.
Answered(c) == GoTo(c, "idle") /\ claim' = [claim EXCEPT ![c] = NoDevice]

----------------------------------------------------------------------------
(* Connections *)

handleConnection(c) ==
    /\ socket[c] = "none"
    /\ socket' = [socket EXCEPT ![c] = "open"]
    /\ clients' = clients \cup {c}
    /\ unregistered' = unregistered \cup {c}
    /\ UNCHANGED <<registered, bound, pc, claim, cleanup, redis, api, raced, stops>>

MayRegister(c) == bound[c] = NoDevice /\ pc[c] = "idle"

\* A 'register' frame with a valid token of d; others are refused at once.
RegisterFrame(c, d) ==
    /\ socket[c] \in {"open", "closing"} /\ MayRegister(c)
    /\ GoTo(c, "session")
    /\ claim' = [claim EXCEPT ![c] = d]
    /\ RaceIf(d, Busy(d))
    /\ UNCHANGED <<socket, unregistered, registered, clients, bound, cleanup, redis, api, stops>>

\* authenticateDevice; a session that has ended fails the registration.
ReadSession(c) ==
    /\ pc[c] = "session"
    /\ IF session[claim[c]] THEN GoTo(c, "write") /\ UNCHANGED claim ELSE Answered(c)
    /\ UNCHANGED <<socket, unregistered, registered, clients, bound, cleanup,
                   redis, api, raced, stops>>

\* registerDevice
WriteDevice(c) ==
    /\ pc[c] = "write"
    /\ transport' = [transport EXCEPT ![claim[c]] = NodeOf[c]]
    /\ GoTo(c, "confirm")
    /\ UNCHANGED <<socket, unregistered, registered, clients, bound, claim, cleanup,
                   listed, members, session, api, raced, stops>>

\* The handler goes on after registerDevice, whatever has become of the socket.
Confirm(c) ==
    /\ pc[c] = "confirm"
    /\ unregistered' = unregistered \ {c}
    /\ registered' = [registered EXCEPT ![NodeOf[c]][claim[c]] = c]
    /\ bound' = [bound EXCEPT ![c] = claim[c]]
    /\ Answered(c)
    /\ UNCHANGED <<socket, clients, cleanup, redis, api, raced, stops>>

\* Redis fails, before or after it has done what it was asked.
RegisterFails(c) ==
    /\ pc[c] # "idle"
    /\ Answered(c)
    /\ RaceIf(claim[c], pc[c] = "confirm")
    /\ UNCHANGED <<socket, unregistered, registered, clients, bound, cleanup,
                   redis, api, stops>>

----------------------------------------------------------------------------
(* Closing *)

closeSocket(c) ==
    socket' = IF c # NoConn /\ socket[c] = "open" THEN [socket EXCEPT ![c] = "closing"] ELSE socket

\* A message for d reaches node n: a client whose access token has expired, which
\* it has if it was not refreshed in time, is disconnected.
sendToDevice(n, d) ==
    LET c == registered[n][d] IN
    /\ c # NoConn
    /\ closeSocket(c)
    /\ UNCHANGED <<local, cleanup, redis, api, raced, stops>>

disconnectDevice(n, d) == closeSocket(registered[n][d])

\* The socket is closed, by the device, the network or the node; handleDisconnect
\* up to its first await.
SocketCloses(c) ==
    /\ socket[c] \in {"open", "closing"}
    /\ socket' = [socket EXCEPT ![c] = "closed"]
    /\ IF bound[c] = NoDevice
       THEN /\ unregistered' = unregistered \ {c}
            /\ clients' = clients \ {c}
            /\ UNCHANGED cleanup
       ELSE /\ cleanup' = [cleanup EXCEPT ![c] = "remove"]
            /\ UNCHANGED <<unregistered, clients>>
    /\ raced' = IF pc[c] = "idle" THEN raced ELSE [raced EXCEPT ![claim[c]] = TRUE]
    /\ UNCHANGED <<registered, bound, pc, claim, redis, api, stops>>

\* removeAllSubscriptions, which looks for the members of the current transport.
RemoveSubscriptions(c) ==
    LET d == bound[c] IN
    /\ cleanup[c] = "remove"
    /\ members' = [members EXCEPT ![d] = IF listed[d] THEN @ \ {transport[d]} ELSE @]
    /\ listed' = [listed EXCEPT ![d] = FALSE]
    /\ cleanup' = [cleanup EXCEPT ![c] = "offline"]
    /\ UNCHANGED <<socket, local, transport, session, api, raced, stops>>

\* Mutant of GoOffline: leaves the transport, as the comment of unregisterDevice
\* has it.
KeepTransport(c) ==
    /\ cleanup[c] = "offline"
    /\ cleanup' = [cleanup EXCEPT ![c] = "forget"]
    /\ UNCHANGED <<socket, local, redis, api, raced, stops>>

GoOffline(c) ==
    /\ cleanup[c] = "offline"
    /\ transport' = [transport EXCEPT ![bound[c]] = NoNode]
    /\ cleanup' = [cleanup EXCEPT ![c] = "forget"]
    /\ UNCHANGED <<socket, local, listed, members, session, api, raced, stops>>

\* Mutant of CleanupFails: the failure ends handleDisconnect.
CleanupThrows(c) ==
    /\ cleanup[c] \in {"remove", "offline"}
    /\ cleanup' = [cleanup EXCEPT ![c] = "none"]
    /\ RaceIf(bound[c], TRUE)
    /\ UNCHANGED <<socket, local, redis, api, stops>>

CleanupFails(c) ==
    /\ cleanup[c] \in {"remove", "offline"}
    /\ cleanup' = [cleanup EXCEPT ![c] = "forget"]
    /\ RaceIf(bound[c], TRUE)
    /\ UNCHANGED <<socket, local, redis, api, stops>>

\* The end of handleDisconnect.
Forget(c) ==
    /\ cleanup[c] = "forget"
    /\ cleanup' = [cleanup EXCEPT ![c] = "none"]
    /\ registered' = [registered EXCEPT ![NodeOf[c]][bound[c]] = NoConn]
    /\ clients' = clients \ {c}
    /\ UNCHANGED <<socket, unregistered, bound, pc, claim, redis, api, raced, stops>>

\* The node shuts down, or crashes, and starts again in the same slot.  Its sockets
\* go with the process, and nobody tells Redis.
NodeStops(n) ==
    LET here == {c \in Conn : NodeOf[c] = n /\ socket[c] # "none"} IN
    /\ stops < MaxStops
    /\ stops' = stops + 1
    /\ socket' = [c \in Conn |-> IF c \in here THEN "closed" ELSE socket[c]]
    /\ clients' = clients \ here /\ unregistered' = unregistered \ here
    /\ registered' = [registered EXCEPT ![n] = [d \in Device |-> NoConn]]
    /\ pc' = [c \in Conn |-> IF c \in here THEN "idle" ELSE pc[c]]
    /\ claim' = [c \in Conn |-> IF c \in here THEN NoDevice ELSE claim[c]]
    /\ cleanup' = [c \in Conn |-> IF c \in here THEN "none" ELSE cleanup[c]]
    /\ logouts' = {m \in logouts : m[1] # n}
    /\ raced' = [d \in Device |-> raced[d] \/ (Binding(d) \cup Holding(d)) \cap here # {}]
    /\ UNCHANGED <<bound, redis, revoking>>

----------------------------------------------------------------------------
(* The API *)

\* addSubscription, which does nothing if the device has the subscription.
Subscribe(d) ==
    /\ transport[d] # NoNode /\ ~listed[d]
    /\ listed' = [listed EXCEPT ![d] = TRUE]
    /\ members' = [members EXCEPT ![d] = @ \cup {transport[d]}]
    /\ RaceIf(d, \E c \in Holding(d) : cleanup[c] # "none" \/ socket[c] = "closed")
    /\ UNCHANGED <<socket, local, cleanup, transport, session, api, stops>>

\* revoke loads the device ...
LogoutLoads(d) ==
    /\ session[d] /\ revoking[d] = {}
    /\ revoking' = [revoking EXCEPT ![d] = {transport[d]}]
    /\ RaceIf(d, Binding(d) # {})
    /\ UNCHANGED <<socket, local, cleanup, redis, logouts, stops>>

\* ... ends the session, and tells the transport it has read, unless that fails.
LogoutEnds(d) ==
    /\ revoking[d] # {}
    /\ session' = [session EXCEPT ![d] = FALSE]
    /\ revoking' = [revoking EXCEPT ![d] = {}]
    /\ \/ logouts' = logouts \cup ((revoking[d] \ {NoNode}) \X {d}) /\ UNCHANGED raced
       \/ UNCHANGED logouts /\ RaceIf(d, TRUE)
    /\ UNCHANGED <<socket, local, cleanup, transport, listed, members, stops>>

SignIn(d) ==
    /\ ~session[d]
    /\ session' = [session EXCEPT ![d] = TRUE]
    /\ RaceIf(d, Busy(d))
    /\ UNCHANGED <<socket, local, cleanup, transport, listed, members, api, stops>>

\* Mutant of handleDeviceLogout: the message is taken and nothing done.
IgnoreLogout(n, d) ==
    /\ <<n, d>> \in logouts
    /\ logouts' = logouts \ {<<n, d>>}
    /\ UNCHANGED <<socket, local, cleanup, redis, revoking, raced, stops>>

handleDeviceLogout(n, d) ==
    /\ <<n, d>> \in logouts
    /\ logouts' = logouts \ {<<n, d>>}
    /\ disconnectDevice(n, d)
    /\ UNCHANGED <<local, cleanup, redis, revoking, raced, stops>>

----------------------------------------------------------------------------
HandlerStep(c) ==
    \/ ReadSession(c) \/ WriteDevice(c) \/ Confirm(c)
    \/ RemoveSubscriptions(c) \/ GoOffline(c) \/ Forget(c)

ConnStep(c) ==
    \/ handleConnection(c) \/ \E d \in Device : RegisterFrame(c, d)
    \/ HandlerStep(c)
    \/ RegisterFails(c) \/ CleanupFails(c)
    \/ SocketCloses(c)

ApiStep(d) == Subscribe(d) \/ LogoutLoads(d) \/ LogoutEnds(d) \/ SignIn(d)

NodeStep(n) ==
    \/ \E d \in Device : sendToDevice(n, d) \/ handleDeviceLogout(n, d)
    \/ NodeStops(n)

Next ==
    \/ \E c \in Conn : ConnStep(c)
    \/ \E d \in Device : ApiStep(d)
    \/ \E n \in Node : NodeStep(n)

Spec == Init /\ [][Next]_vars

\* Handlers go on, logouts are consumed, a socket that is closing closes.
FairSpec ==
    /\ Spec
    /\ \A c \in Conn : WF_vars(HandlerStep(c)) /\ WF_vars(socket[c] = "closing" /\ SocketCloses(c))
    /\ \A d \in Device : WF_vars(LogoutEnds(d))
    /\ \A n \in Node, d \in Device : WF_vars(handleDeviceLogout(n, d))

----------------------------------------------------------------------------
(* Properties *)

Settled(d) ==
    /\ Binding(d) = {}
    /\ \A c \in Holding(d) : cleanup[c] = "none"

Live(d, n) == \E c \in Conn : bound[c] = d /\ NodeOf[c] = n /\ socket[c] \in {"open", "closing"}

\* While a device's handlers do not race, its record follows its connection: "A
\* connected device is recorded in Redis as online on that queue ... On disconnect
\* it is marked offline", its route is there, and its subscriptions are those of
\* the connection.
RecordFollowsConnection ==
    \A d \in Device : (~raced[d] /\ Settled(d)) =>
        /\ \A n \in Node : /\ (transport[d] = n) <=> Live(d, n)
                           /\ (registered[n][d] # NoConn) <=> Live(d, n)
        /\ members[d] = IF listed[d] THEN {transport[d]} ELSE {}
        /\ transport[d] = NoNode => ~listed[d]

\* A logout ends the connection of its device, unless it races: "a logged-out
\* device has its socket closed".
LogoutDisconnects ==
    \A d \in Device :
        (~session[d]) ~> (raced[d] \/ session[d] \/ \A n \in Node : ~Live(d, n))

\* Whatever fails in Redis and however handlers race, a closed connection leaves
\* wsToNexxusClientMap, by which connections are counted: no "client reference per
\* disconnect" is leaked there.  (registeredClients may keep a client that closed
\* while it registered, until its device connects again.)
ClosedIsForgotten ==
    \A c \in Conn : (socket[c] = "closed") ~> (c \notin clients)

\* "A connected device is recorded in Redis as online on that queue, which is where
\* the Transport Manager sends its events."
ConnectedIsOnline ==
    \A d \in Device, n \in Node :
        Settled(d) /\ (\E c \in Conn : bound[c] = d /\ NodeOf[c] = n /\ socket[c] = "open")
            => transport[d] # NoNode

============================================================================
