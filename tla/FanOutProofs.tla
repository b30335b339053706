---------------------------- MODULE FanOutProofs ----------------------------
(***************************************************************************)
(* Fan-out is exact, for any number of devices, channels, filters and      *)
(* changes: a reader that takes the index one command after the other,     *)
(* while subscribes write it one command after the other, misses nobody    *)
(* whose first page did not show the change, unless the throttle of the    *)
(* refresh kept it from that page, and tells nobody else.                  *)
(***************************************************************************)
EXTENDS FanOut, FiniteSetTheorems, TLAPS

ClientStep(s) ==
    \/ Subscribe(s) \/ AddMember(s) \/ IndexPartition(s) \/ CountUp(s) \/ StoreFilter(s)
    \/ SearchPage(s) \/ Unsubscribe(s)
    \/ \E p \in Api : RefreshIndex(s, p) \/ SkipRefresh(s, p)

\* Of the search index alone.
SearchStep == BackgroundRefresh \/ \E p \in Api : ThrottleEnds(p)

ReadStep(e) ==
    \/ ReadScopes(e) \/ ReadIndex(e) \/ ReadFilters(e) \/ ScopeRead(e)
    \/ \E i \in scopes[e] : NextScope(e, i)
    \/ \E p \in Partition : ReadPartition(e, p)
    \/ \E c \in Filtered : NextFilter(e, c)

SendStep(e) == Publish(e) \/ Settle(e) \/ \E m \in unsent[e] : Confirmed(e, m) \/ PublishFails(e, m)

EventStep(e) == Store(e) \/ Tell(e) \/ ReadStep(e) \/ SendStep(e)

\* A step is of one subscribe request, of the search index or of one event.
LEMMA StepCases ==
    ASSUME [Next]_vars
    PROVE  \/ UNCHANGED vars
           \/ \E s \in Subscription : ClientStep(s)
           \/ SearchStep
           \/ \E e \in Change : EventStep(e)
BY Zenon DEF Next, ClientStep, SearchStep, EventStep, ReadStep, SendStep

----------------------------------------------------------------------------
(* Channels and messages *)

LEMMA ChannelScope ==
    ASSUME NEW c \in Channel
    PROVE  /\ ScopeOf(c) \in Scope
           /\ c \in Filtered \/ c = Plain[ScopeOf(c)]
<1>1. CASE c \in Filtered
  BY <1>1, FanOutAssumption DEF ScopeOf
<1>2. CASE c \notin Filtered
  <2>1. \E s \in Scope : Plain[s] = c
    BY <1>2 DEF Channel
  <2> QED BY <1>2, <2>1 DEF ScopeOf
<1> QED BY <1>1, <1>2

LEMMA PlainScope ==
    ASSUME NEW s \in Scope
    PROVE  Plain[s] \in Channel /\ Plain[s] \notin Filtered /\ ScopeOf(Plain[s]) = s
<1>1. Plain[s] \in Channel /\ Plain[s] \notin Filtered
  BY FanOutAssumption DEF Channel
<1>2. Plain[ScopeOf(Plain[s])] = Plain[s] /\ ScopeOf(Plain[s]) \in Scope
  BY <1>1, ChannelScope
<1> QED BY <1>1, <1>2, FanOutAssumption

LEMMA PairOf ==
    ASSUME NEW s \in Subscription
    PROVE  s[1] \in Device /\ s[2] \in Channel /\ s = <<s[1], s[2]>>
BY FanOutAssumption

\* What grouping sends: everybody who was found hears of every channel it was found
\* on, on no other, and in one message.
LEMMA GroupIsExact ==
    ASSUME NEW f \in SUBSET Subscription
    PROVE  /\ Group(f) \in SUBSET Messages
           /\ \A s \in f : \E m \in Group(f) : s[1] \in m.devices /\ s[2] \in m.channels
           /\ \A m \in Group(f) : \A c \in m.channels : \E s \in f : s[2] = c
           /\ \A m \in Group(f) : m.devices \X m.channels \subseteq f
           /\ \A m, n \in Group(f), d \in Device : d \in m.devices /\ d \in n.devices => m = n
<1> DEFINE Msg(s) == [transport |-> TransportOf[s[1]], channels |-> ChannelsOf(s[1], f),
                      devices |-> {d \in Device : ChannelsOf(d, f) = ChannelsOf(s[1], f)
                                                  /\ TransportOf[d] = TransportOf[s[1]]}]
<1>1. Group(f) = {Msg(s) : s \in f}
  BY DEF Group
<1>2. ASSUME NEW s \in f
      PROVE  /\ Msg(s) \in Messages
             /\ s[1] \in Msg(s).devices /\ s[2] \in Msg(s).channels
             /\ \A c \in Msg(s).channels : \E t \in f : t[2] = c
             /\ Msg(s).devices \X Msg(s).channels \subseteq f
  <2>1. s[1] \in Device /\ s[2] \in Channel /\ s = <<s[1], s[2]>>
    BY PairOf
  <2>2. \A d : ChannelsOf(d, f) \subseteq Channel
    BY PairOf DEF ChannelsOf
  <2>3. Msg(s) \in Messages
    BY <2>1, <2>2 DEF Messages
  <2>4. s[1] \in Msg(s).devices /\ s[2] \in Msg(s).channels
    BY <2>1 DEF ChannelsOf
  <2>5. ASSUME NEW c \in Msg(s).channels PROVE \E t \in f : t[2] = c
    BY <2>5 DEF ChannelsOf
  <2>6. ASSUME NEW d \in Msg(s).devices, NEW c \in Msg(s).channels PROVE <<d, c>> \in f
    <3>1. c \in ChannelsOf(d, f)
      OBVIOUS
    <3>2. PICK t \in f : t[1] = d /\ t[2] = c
      BY <3>1 DEF ChannelsOf
    <3> QED BY <3>2, PairOf
  <2> QED BY <2>3, <2>4, <2>5, <2>6
<1>3. ASSUME NEW s \in f, NEW t \in f, NEW d \in Device, d \in Msg(s).devices, d \in Msg(t).devices
      PROVE  Msg(s) = Msg(t)
  BY <1>3
<1> HIDE DEF Msg
<1> QED BY <1>1, <1>2, <1>3

----------------------------------------------------------------------------
(* Types *)

\* What is yet to be tried can be.
TriesLeft == \A e \in Change : at[e] \in {"unborn", "stored", "queued"} => tries[e] < MaxTries

\* The counters that other invariants bound are left out here.
Typed ==
    /\ sub \in [Subscription -> {"off", "add", "index", "count", "filter", "search", "page", "on"}]
    /\ \A s \in Subscription : sub[s] = "filter" => s[2] \in Filtered
    /\ page \in [Subscription -> SUBSET Change] /\ blind \in [Subscription -> SUBSET Change]
    /\ visible \subseteq Change /\ throttled \subseteq Api
    /\ recent \in [Api -> SUBSET Change]
    /\ members \subseteq Subscription
    /\ indexed \subseteq Channel \X Partition
    /\ filters \subseteq Filtered
    /\ at \in [Change -> {"unborn", "stored", "queued", "scope", "index", "members",
                          "filters", "filter", "publish", "done", "dead"}]
    /\ scopes \in [Change -> SUBSET Nat]
    /\ \A e \in Change : scopes[e] \subseteq DOMAIN Patterns[e]
    /\ unsent \in [Change -> SUBSET Messages]
    /\ \A e \in Change : \A m \in unsent[e] : m.devices \X m.channels \subseteq Subscription
    /\ chan \in [Change -> Channel]
    /\ parts \in [Change -> SUBSET Partition]
    /\ chans \in [Change -> SUBSET Filtered]
    /\ found \in [Change -> SUBSET Subscription]
    /\ failed \in [Change -> BOOLEAN]
    /\ tries \in [Change -> 0..MaxTries]
    /\ heard \in [Change -> [Device -> Nat]]
    /\ told \subseteq Change \X Subscription
    /\ TriesLeft

LEMMA TypedInit == Init => Typed
<1> SUFFICES ASSUME Init PROVE Typed
  OBVIOUS
<1>1. (CHOOSE c \in Channel : TRUE) \in Channel
  BY FanOutAssumption DEF Channel
<1> QED BY <1>1, FanOutAssumption DEF Init, Typed, TriesLeft

LEMMA TypedClient == ASSUME Typed, NEW s \in Subscription, ClientStep(s) PROVE Typed'
<1> DEFINE Steps == {"off", "add", "index", "count", "filter", "search", "page", "on"}
<1>1. UNCHANGED <<at, reader, sender, tries>>
  BY DEF ClientStep, Subscribe, AddMember, IndexPartition, CountUp, StoreFilter, SearchPage, Unsubscribe,
         RefreshIndex, SkipRefresh
<1>2. /\ sub' \in [Subscription -> Steps]
      /\ page' \in [Subscription -> SUBSET Change] /\ blind' \in [Subscription -> SUBSET Change]
      /\ visible' \subseteq Change /\ throttled' \subseteq Api
      /\ recent' \in [Api -> SUBSET Change]
  <2>1. CASE Subscribe(s) \/ AddMember(s) \/ IndexPartition(s) \/ StoreFilter(s) \/ CountUp(s)
    <3>1. UNCHANGED <<page, blind, search>>
      BY <2>1 DEF Subscribe, AddMember, IndexPartition, StoreFilter, CountUp
    <3>2. \E w \in Steps : sub' = [sub EXCEPT ![s] = w]
      BY <2>1 DEF SubTo, Subscribe, AddMember, IndexPartition, StoreFilter, CountUp
    <3> QED BY <3>1, <3>2 DEF Typed, search
  <2>2. CASE SearchPage(s) \/ Unsubscribe(s)
    <3>1. UNCHANGED search /\ \E w \in Steps : sub' = [sub EXCEPT ![s] = w]
      BY <2>2 DEF SubTo, SearchPage, Unsubscribe
    <3>2. \E w \in SUBSET Change : page' = [page EXCEPT ![s] = w]
      BY <2>2 DEF SearchPage, Unsubscribe, Typed
    <3>3. UNCHANGED blind \/ blind' = [blind EXCEPT ![s] = {}]
      BY <2>2 DEF SearchPage, Unsubscribe
    <3>4. page' \in [Subscription -> SUBSET Change] /\ blind' \in [Subscription -> SUBSET Change]
      BY <3>2, <3>3 DEF Typed
    <3>5. sub' \in [Subscription -> Steps]
      BY <3>1 DEF Typed
    <3> QED BY <3>1, <3>4, <3>5 DEF Typed, search
  <2>3. ASSUME NEW p \in Api, RefreshIndex(s, p) \/ SkipRefresh(s, p)
        PROVE  <1>2
    <3>1. UNCHANGED <<page, recent>> /\ sub' = [sub EXCEPT ![s] = "page"]
      BY <2>3 DEF SubTo, RefreshIndex, SkipRefresh, search
    <3>2. UNCHANGED blind \/ blind' = [blind EXCEPT ![s] = recent[p]]
      BY <2>3 DEF RefreshIndex, SkipRefresh
    <3>3. visible' \in {visible, Stored} /\ throttled' \subseteq throttled \cup {p}
      BY <2>3 DEF RefreshIndex, SkipRefresh, search
    <3> QED BY <3>1, <3>2, <3>3 DEF Typed, Stored
  <2> QED BY <2>1, <2>2, <2>3 DEF ClientStep
<1>3. members' \subseteq Subscription
  BY DEF Typed, index, ClientStep, Subscribe, AddMember, IndexPartition, CountUp, StoreFilter,
         SearchPage, Unsubscribe, RefreshIndex, SkipRefresh
<1>4. indexed' \subseteq Channel \X Partition
  <2>1. CASE IndexPartition(s)
    <3>1. <<s[2], PartitionOf[s[1]]>> \in Channel \X Partition
      BY PairOf, FanOutAssumption
    <3> QED BY <2>1, <3>1 DEF Typed, IndexPartition
  <2>2. CASE ~IndexPartition(s)
    <3>1. indexed' \subseteq indexed
      BY <2>2 DEF index, ClientStep, Subscribe, AddMember, CountUp, StoreFilter, SearchPage, Unsubscribe,
         RefreshIndex, SkipRefresh
    <3> QED BY <3>1 DEF Typed
  <2> QED BY <2>1, <2>2
<1>5. filters' \subseteq Filtered
  <2>1. CASE StoreFilter(s)
    BY <2>1 DEF Typed, StoreFilter
  <2>2. CASE ~StoreFilter(s)
    <3>1. filters' \subseteq filters
      BY <2>2 DEF index, ClientStep, Subscribe, AddMember, IndexPartition, CountUp, SearchPage, Unsubscribe,
         RefreshIndex, SkipRefresh
    <3> QED BY <3>1 DEF Typed
  <2> QED BY <2>1, <2>2
<1>6. \A t \in Subscription : sub'[t] = "filter" => t[2] \in Filtered
  BY DEF Typed, ClientStep, SubTo, Subscribe, AddMember, IndexPartition, CountUp, StoreFilter,
         SearchPage, Unsubscribe, RefreshIndex, SkipRefresh
<1> QED BY <1>1, <1>2, <1>3, <1>4, <1>5, <1>6 DEF Typed, TriesLeft, reader, sender

LEMMA TypedRead == ASSUME Typed, NEW e \in Change, ReadStep(e) PROVE Typed'
<1>1. UNCHANGED <<clients, search, index, unsent, heard, told>>
  BY DEF ReadStep, sender, ReadScopes, ReadIndex, ReadFilters, ScopeRead, NextScope, ReadPartition, NextFilter
<1> USE DEF Typed, TriesLeft, clients, search, index, AtTo
<1>2. CASE ReadScopes(e)
  BY <1>1, <1>2, FanOutAssumption DEF ReadScopes
<1>3. CASE ReadIndex(e)
  BY <1>1, <1>3 DEF ReadIndex, AfterChannel, sender
<1>4. CASE ReadFilters(e)
  BY <1>1, <1>4 DEF ReadFilters, Matching, sender
<1>5. CASE ScopeRead(e)
  BY <1>1, <1>5 DEF ScopeRead, sender
<1>6. ASSUME NEW i \in scopes[e], NextScope(e, i) PROVE Typed'
  <2>1. Patterns[e][i] \in Scope
    BY FanOutAssumption
  <2>2. Plain[Patterns[e][i]] \in Channel
    BY <2>1, PlainScope
  <2> QED BY <1>1, <1>6, <2>2 DEF NextScope, sender
<1>7. ASSUME NEW p \in Partition, ReadPartition(e, p) PROVE Typed'
  BY <1>1, <1>7 DEF ReadPartition, AfterChannel, sender
<1>8. ASSUME NEW c \in Filtered, NextFilter(e, c) PROVE Typed'
  BY <1>1, <1>8 DEF NextFilter, sender, Channel
<1> QED BY <1>2, <1>3, <1>4, <1>5, <1>6, <1>7, <1>8 DEF ReadStep

LEMMA TypedSend == ASSUME Typed, NEW e \in Change, SendStep(e) PROVE Typed'
<1>1. UNCHANGED <<clients, search, index, reader, tries>>
  BY DEF SendStep, sender, Publish, Settle, Confirmed, PublishFails
<1> USE DEF Typed, TriesLeft, clients, search, index, reader, AtTo
<1>2. CASE Publish(e)
  <2>1. Group(found[e]) \in SUBSET Messages
    BY GroupIsExact
  <2>2. \A m \in Group(found[e]) : m.devices \X m.channels \subseteq Subscription
    BY GroupIsExact
  <2> QED BY <1>1, <1>2, <2>1, <2>2 DEF Publish
<1>3. CASE Settle(e)
  BY <1>1, <1>3 DEF Settle, sender
<1>4. ASSUME NEW m \in unsent[e], Reaches(e, m)
      PROVE  heard' \in [Change -> [Device -> Nat]] /\ told' \subseteq Change \X Subscription
  BY <1>4 DEF Reaches
<1>5. ASSUME NEW m \in unsent[e], Confirmed(e, m) \/ PublishFails(e, m) PROVE Typed'
  <2>1. /\ unsent' = [unsent EXCEPT ![e] = @ \ {m}] /\ UNCHANGED at
        /\ failed' \in [Change -> BOOLEAN]
    BY <1>5 DEF Confirmed, PublishFails
  <2>2. heard' \in [Change -> [Device -> Nat]] /\ told' \subseteq Change \X Subscription
    BY <1>4, <1>5 DEF Confirmed, PublishFails
  <2> QED BY <1>1, <2>1, <2>2
<1> QED BY <1>2, <1>3, <1>5 DEF SendStep

LEMMA TypedStep == Typed /\ [Next]_vars => Typed'
<1> SUFFICES ASSUME Typed, [Next]_vars PROVE Typed'
  OBVIOUS
<1>1. CASE UNCHANGED vars
  BY <1>1 DEF vars, clients, search, index, reader, sender, Typed, TriesLeft
<1>2. ASSUME NEW e \in Change, Store(e) \/ Tell(e) PROVE Typed'
  <2>1. recent' \in [Api -> SUBSET Change]
    <3>1. \A p \in Api : recent[p] \cup {e} \in SUBSET Change
      BY DEF Typed
    <3>2. CASE Store(e)
      BY <3>1, <3>2 DEF Store, Typed
    <3>3. CASE Tell(e)
      BY <3>3 DEF Tell, search, Typed
    <3> QED BY <1>2, <3>2, <3>3
  <2>2. UNCHANGED <<clients, visible, throttled, index, reader, sender, tries>>
    BY <1>2 DEF Store, Tell, search
  <2>3. \E w \in {"stored", "queued"} : at[e] \in {"unborn", "stored"} /\ at' = [at EXCEPT ![e] = w]
    BY <1>2 DEF Store, Tell, AtTo
  <2> QED BY <2>1, <2>2, <2>3 DEF clients, index, reader, sender, Typed, TriesLeft
<1>3. CASE SearchStep
  <2>1. visible' \subseteq Change /\ throttled' \subseteq Api /\ recent' \in [Api -> SUBSET Change]
    BY <1>3 DEF SearchStep, BackgroundRefresh, ThrottleEnds, Stored, Typed
  <2>2. UNCHANGED <<clients, index, at, reader, sender, tries>>
    BY <1>3 DEF SearchStep, BackgroundRefresh, ThrottleEnds
  <2> QED BY <2>1, <2>2 DEF clients, index, reader, sender, Typed, TriesLeft
<1> QED BY <1>1, <1>2, <1>3, StepCases, TypedClient, TypedRead, TypedSend DEF EventStep

----------------------------------------------------------------------------
(* What the index holds *)

\* Subscribes that have counted themselves.
CountedIn(x) == {s \in Subscription : ScopeOf(s[2]) = x /\ sub[s] \in {"filter", "search", "page", "on"}}

\* A subscribe writes in an order, and no removal takes away what another has written.
IndexHolds ==
    /\ members = {s \in Subscription : sub[s] \in {"index", "count", "filter", "search", "page", "on"}}
    /\ \A s \in Subscription :
          /\ sub[s] \in {"count", "filter", "search", "page", "on"} => <<s[2], PartitionOf[s[1]]>> \in indexed
          /\ sub[s] \in {"search", "page", "on"} /\ s[2] \in Filtered => s[2] \in filters
    /\ count = [x \in Scope |-> Cardinality(CountedIn(x))]

LEMMA IndexInit == Init => IndexHolds
<1> SUFFICES ASSUME Init PROVE IndexHolds
  OBVIOUS
<1>1. \A x \in Scope : CountedIn(x) = {}
  BY DEF Init, CountedIn
<1> QED BY <1>1, FS_EmptySet DEF Init, IndexHolds

LEMMA CountedType ==
    ASSUME NEW x
    PROVE  /\ IsFiniteSet(CountedIn(x))
           /\ Cardinality(CountedIn(x)) \in 0..Cardinality(Subscription)
<1>1. CountedIn(x) \subseteq Subscription
  BY DEF CountedIn
<1> QED BY <1>1, FS_Subset, FS_CardinalityType, FanOutAssumption

\* Steps that do not count leave the counters, and those they count, as they are.
LEMMA CountKept ==
    ASSUME Typed, IndexHolds, UNCHANGED count, NEW s \in Subscription, NEW w,
           sub' = [sub EXCEPT ![s] = w],
           sub[s] \in {"filter", "search", "page", "on"} <=> w \in {"filter", "search", "page", "on"}
    PROVE  count' = [x \in Scope |-> Cardinality(CountedIn(x)')]
<1>1. \A x : CountedIn(x)' = CountedIn(x)
  BY DEF Typed, CountedIn
<1> QED BY <1>1 DEF IndexHolds

LEMMA CountMoved ==
    ASSUME Typed, IndexHolds, NEW s \in Subscription, CountUp(s) \/ Unsubscribe(s)
    PROVE  count' = [x \in Scope |-> Cardinality(CountedIn(x)')]
<1> DEFINE y == ScopeOf(s[2])
<1>1. y \in Scope
  BY PairOf, ChannelScope
<1>2. \A x : x # y => CountedIn(x)' = CountedIn(x)
  BY DEF Typed, CountedIn, SubTo, CountUp, Unsubscribe
<1>3. CASE CountUp(s)
  <2>1. CountedIn(y)' = CountedIn(y) \cup {s} /\ s \notin CountedIn(y)
    BY <1>3 DEF Typed, CountedIn, SubTo, CountUp
  <2>2. Cardinality(CountedIn(y)') = Cardinality(CountedIn(y)) + 1
    BY <2>1, CountedType, FS_AddElement
  <2> QED BY <1>1, <1>2, <1>3, <2>2 DEF IndexHolds, CountUp
<1>4. CASE Unsubscribe(s)
  <2>1. CountedIn(y)' = CountedIn(y) \ {s} /\ s \in CountedIn(y)
    BY <1>4 DEF Typed, CountedIn, SubTo, Unsubscribe
  <2>2. Cardinality(CountedIn(y)') = Cardinality(CountedIn(y)) - 1
    BY <2>1, CountedType, FS_RemoveElement
  <2> QED BY <1>1, <1>2, <1>4, <2>2 DEF IndexHolds, Unsubscribe
<1> QED BY <1>3, <1>4

LEMMA IndexClient ==
    ASSUME Typed, IndexHolds, NEW s \in Subscription, ClientStep(s)
    PROVE  IndexHolds'
<1> USE DEF Typed, SubTo
<1>1. CASE Subscribe(s)
  <2>1. count' = [x \in Scope |-> Cardinality(CountedIn(x)')]
    BY <1>1, CountKept DEF Subscribe, index
  <2> QED BY <1>1, <2>1 DEF IndexHolds, Subscribe, index
<1>2. CASE AddMember(s)
  <2>1. count' = [x \in Scope |-> Cardinality(CountedIn(x)')]
    BY <1>2, CountKept DEF AddMember
  <2> QED BY <1>2, <2>1 DEF IndexHolds, AddMember
<1>3. CASE IndexPartition(s)
  <2>1. count' = [x \in Scope |-> Cardinality(CountedIn(x)')]
    BY <1>3, CountKept DEF IndexPartition
  <2> QED BY <1>3, <2>1 DEF IndexHolds, IndexPartition
<1>4. CASE CountUp(s)
  <2>1. count' = [x \in Scope |-> Cardinality(CountedIn(x)')]
    BY <1>4, CountMoved
  <2> QED BY <1>4, <2>1 DEF IndexHolds, CountUp
<1>5. CASE StoreFilter(s)
  <2>1. count' = [x \in Scope |-> Cardinality(CountedIn(x)')]
    BY <1>5, CountKept DEF StoreFilter
  <2> QED BY <1>5, <2>1 DEF IndexHolds, StoreFilter
<1>6. CASE SearchPage(s) \/ \E p \in Api : RefreshIndex(s, p) \/ SkipRefresh(s, p)
  <2>1. count' = [x \in Scope |-> Cardinality(CountedIn(x)')]
    BY <1>6, CountKept DEF SearchPage, RefreshIndex, SkipRefresh, index
  <2>2. UNCHANGED index /\ sub[s] \in {"search", "page"} /\ \E w \in {"page", "on"} : sub' = [sub EXCEPT ![s] = w]
    BY <1>6 DEF SearchPage, RefreshIndex, SkipRefresh
  <2> QED BY <2>1, <2>2 DEF IndexHolds, index
<1>7. CASE Unsubscribe(s)
  <2>1. count' = [x \in Scope |-> Cardinality(CountedIn(x)')]
    BY <1>7, CountMoved
  <2>2. members' = {t \in Subscription : sub'[t] \in {"index", "count", "filter", "search", "page", "on"}}
    BY <1>7 DEF IndexHolds, Unsubscribe
  <2>3. ASSUME NEW t \in Subscription, sub'[t] \in {"count", "filter", "search", "page", "on"}
        PROVE  <<t[2], PartitionOf[t[1]]>> \in indexed' /\ (t[2] \in Filtered => t[2] \in filters')
    <3>1. t \in members' /\ sub[t] = "on"
      BY <1>7, <2>2, <2>3 DEF Unsubscribe
    <3> QED BY <1>7, <3>1 DEF IndexHolds, Unsubscribe
  <2> QED BY <2>1, <2>2, <2>3 DEF IndexHolds
<1> QED BY <1>1, <1>2, <1>3, <1>4, <1>5, <1>6, <1>7 DEF ClientStep

LEMMA IndexStep == Typed /\ IndexHolds /\ [Next]_vars => IndexHolds'
<1> SUFFICES ASSUME Typed, IndexHolds, [Next]_vars PROVE IndexHolds'
  OBVIOUS
<1>1. ASSUME UNCHANGED <<sub, index>> PROVE IndexHolds'
  BY <1>1 DEF index, IndexHolds, CountedIn
<1>2. CASE UNCHANGED vars \/ SearchStep
  BY <1>1, <1>2 DEF vars, clients, SearchStep, BackgroundRefresh, ThrottleEnds
<1>3. ASSUME NEW e \in Change, EventStep(e) PROVE UNCHANGED <<sub, index>>
  BY <1>3 DEF clients, EventStep, ReadStep, SendStep, Store, Tell, ReadScopes, ReadIndex, ReadFilters, ScopeRead,
              NextScope, ReadPartition, NextFilter, Publish, Settle, Confirmed, PublishFails
<1> QED BY <1>1, <1>2, <1>3, StepCases, IndexClient

----------------------------------------------------------------------------
(* Only matches are told *)

Reading == {"index", "members", "filters", "filter"}

\* Whatever is read for a change, found and sent, matches it.
SoundFor(e) ==
    /\ at[e] \in Reading => Matches(e, chan[e])
    /\ at[e] = "filters" => chan[e] \notin Filtered
    /\ \A c \in chans[e] : Matches(e, c)
    /\ \A s \in found[e] : Matches(e, s[2])
    /\ \A m \in unsent[e] : \A c \in m.channels : Matches(e, c)

Sound == (\A e \in Change : SoundFor(e)) /\ OnlyMatchesAreTold

LEMMA SoundInit == Init => Sound
BY DEF Init, Sound, SoundFor, Reading, OnlyMatchesAreTold

\* A step of one event is nothing to another.
LEMMA OthersKept ==
    ASSUME Typed, NEW e \in Change, EventStep(e), NEW f \in Change, f # e
    PROVE  /\ at'[f] = at[f] /\ scopes'[f] = scopes[f] /\ chan'[f] = chan[f]
           /\ parts'[f] = parts[f] /\ chans'[f] = chans[f] /\ found'[f] = found[f]
           /\ unsent'[f] = unsent[f] /\ failed'[f] = failed[f] /\ tries'[f] = tries[f]
           /\ heard'[f] = heard[f]
           /\ \A s : <<f, s>> \in told <=> <<f, s>> \in told'
<1> USE DEF Typed, AtTo, sender, reader
<1>1. CASE Store(e) \/ Tell(e)
  BY <1>1 DEF Store, Tell
<1>2. CASE ReadScopes(e) \/ ReadIndex(e) \/ ReadFilters(e) \/ ScopeRead(e)
  BY <1>2 DEF ReadScopes, ReadIndex, ReadFilters, ScopeRead
<1>3. ASSUME NEW i \in scopes[e], NextScope(e, i) PROVE UNCHANGED <<parts, chans, found, sender, tries>>
                                                        /\ at'[f] = at[f] /\ scopes'[f] = scopes[f] /\ chan'[f] = chan[f]
  BY <1>3 DEF NextScope
<1>4. CASE \E p \in Partition : ReadPartition(e, p)
  BY <1>4 DEF ReadPartition
<1>5. CASE \E c \in Filtered : NextFilter(e, c)
  BY <1>5 DEF NextFilter
<1>6. CASE Publish(e) \/ Settle(e)
  BY <1>6 DEF Publish, Settle
<1>7. ASSUME NEW m \in unsent[e], Confirmed(e, m) \/ PublishFails(e, m)
      PROVE  heard'[f] = heard[f] /\ \A s : <<f, s>> \in told <=> <<f, s>> \in told'
  BY <1>7 DEF Confirmed, PublishFails, Reaches
<1>8. ASSUME NEW m \in unsent[e], Confirmed(e, m) \/ PublishFails(e, m)
      PROVE  UNCHANGED <<at, reader, tries>> /\ unsent'[f] = unsent[f] /\ failed'[f] = failed[f]
  BY <1>8 DEF Confirmed, PublishFails
<1> QED BY <1>1, <1>2, <1>3, <1>4, <1>5, <1>6, <1>7, <1>8 DEF EventStep, ReadStep, SendStep

LEMMA SoundRead ==
    ASSUME Typed, NEW e \in Change, SoundFor(e), ReadStep(e)
    PROVE  SoundFor(e)'
<1>1. UNCHANGED unsent
  BY DEF ReadStep, sender, ReadScopes, ReadIndex, ReadFilters, ScopeRead, NextScope, ReadPartition, NextFilter
<1>2. CASE ReadScopes(e) \/ ScopeRead(e)
  <2>1. at'[e] = "scope" /\ UNCHANGED chans /\ (found'[e] = {} \/ found'[e] = found[e])
    BY <1>2 DEF ReadScopes, ScopeRead, AtTo, Typed
  <2> QED BY <1>1, <2>1 DEF SoundFor, Reading
<1>3. CASE ReadIndex(e)
  <2>1. /\ at[e] = "index" /\ at'[e] \in {"members", AfterChannel(e)} /\ UNCHANGED <<chan, chans, found>>
    BY <1>3 DEF ReadIndex, AtTo, Typed
  <2> QED BY <1>1, <2>1 DEF SoundFor, Reading, AfterChannel
<1>4. CASE ReadFilters(e)
  <2>1. /\ at[e] = "filters" /\ at'[e] = "filter" /\ UNCHANGED <<chan, found>>
        /\ chans'[e] = Matching(e, {c \in filters : FilterScope[c] = ScopeOf(chan[e])})
    BY <1>4 DEF ReadFilters, AtTo, Typed
  <2>2. ASSUME NEW c \in chans'[e] PROVE Matches(e, c)
    <3>1. c \in Filtered /\ c \notin Stale /\ <<e, c>> \in Passes /\ FilterScope[c] = ScopeOf(chan[e])
      BY <2>1, <2>2 DEF Matching, Typed
    <3>2. \E i \in DOMAIN Patterns[e] : Patterns[e][i] = ScopeOf(chan[e])
      BY <2>1 DEF Matches, SoundFor, Reading
    <3> QED BY <3>1, <3>2 DEF Matches, ScopeOf
  <2> QED BY <1>1, <2>1, <2>2 DEF SoundFor, Reading
<1>5. ASSUME NEW i \in scopes[e], NextScope(e, i) PROVE SoundFor(e)'
  <2>1. i \in DOMAIN Patterns[e] /\ Patterns[e][i] \in Scope
    BY FanOutAssumption DEF Typed
  <2>2. Matches(e, Plain[Patterns[e][i]])
    BY <2>1, PlainScope DEF Matches
  <2>3. at'[e] = "index" /\ chan'[e] = Plain[Patterns[e][i]] /\ UNCHANGED <<chans, found>>
    BY <1>5 DEF NextScope, AtTo, Typed
  <2> QED BY <1>1, <2>2, <2>3 DEF SoundFor
<1>6. ASSUME NEW p \in Partition, ReadPartition(e, p) PROVE SoundFor(e)'
  <2>1. /\ at[e] = "members" /\ at'[e] \in {"members", AfterChannel(e)} /\ UNCHANGED <<chan, chans>>
    BY <1>6 DEF ReadPartition, AtTo, Typed
  <2>2. \A s \in found'[e] : s \in found[e] \/ s[2] = chan[e]
    BY <1>6 DEF ReadPartition, Typed
  <2> QED BY <1>1, <2>1, <2>2 DEF SoundFor, Reading, AfterChannel
<1>7. ASSUME NEW c \in Filtered, NextFilter(e, c) PROVE SoundFor(e)'
  <2>1. /\ c \in chans[e] /\ at'[e] = "index" /\ chan'[e] = c
        /\ chans'[e] \subseteq chans[e] /\ UNCHANGED found
    BY <1>7 DEF NextFilter, AtTo, Typed
  <2> QED BY <1>1, <2>1 DEF SoundFor
<1> QED BY <1>2, <1>3, <1>4, <1>5, <1>6, <1>7 DEF ReadStep

LEMMA SoundSend ==
    ASSUME Typed, NEW e \in Change, SoundFor(e), OnlyMatchesAreTold, SendStep(e)
    PROVE  SoundFor(e)' /\ OnlyMatchesAreTold'
<1>1. CASE Publish(e)
  <2>1. /\ at'[e] = "publish" /\ unsent'[e] = Group(found[e]) /\ UNCHANGED <<reader, told>>
    BY <1>1 DEF Publish, AtTo, Typed
  <2>2. \A m \in unsent'[e] : \A c \in m.channels : \E s \in found[e] : s[2] = c
    BY <2>1, GroupIsExact DEF Typed
  <2> QED BY <2>1, <2>2 DEF SoundFor, Reading, OnlyMatchesAreTold, reader
<1>2. CASE Settle(e)
  <2>1. at'[e] \notin Reading /\ UNCHANGED <<reader, sender>>
    BY <1>2 DEF Settle, AtTo, Typed, Reading
  <2> QED BY <2>1 DEF SoundFor, Reading, OnlyMatchesAreTold, reader, sender
<1>3. ASSUME NEW m \in unsent[e], Confirmed(e, m) \/ PublishFails(e, m)
      PROVE  SoundFor(e)' /\ OnlyMatchesAreTold'
  <2>1. told' \subseteq told \cup {<<e, s>> : s \in m.devices \X m.channels}
    BY <1>3 DEF Confirmed, PublishFails, Reaches
  <2>2. OnlyMatchesAreTold'
    BY <2>1 DEF OnlyMatchesAreTold, SoundFor
  <2>3. UNCHANGED <<at, reader>> /\ unsent'[e] \subseteq unsent[e]
    BY <1>3 DEF Confirmed, PublishFails, Typed
  <2> QED BY <2>2, <2>3 DEF SoundFor, reader
<1> QED BY <1>1, <1>2, <1>3 DEF SendStep

LEMMA SoundEvent ==
    ASSUME Typed, NEW e \in Change, SoundFor(e), OnlyMatchesAreTold, EventStep(e)
    PROVE  SoundFor(e)' /\ OnlyMatchesAreTold'
<1>1. CASE Store(e) \/ Tell(e)
  <2>1. at'[e] \in {"stored", "queued"} /\ UNCHANGED <<reader, sender>>
    BY <1>1 DEF Store, Tell, AtTo, Typed
  <2> QED BY <2>1 DEF SoundFor, Reading, OnlyMatchesAreTold, reader, sender
<1>2. ASSUME ReadStep(e) PROVE OnlyMatchesAreTold'
  BY <1>2 DEF OnlyMatchesAreTold, sender, ReadStep, ReadScopes, ReadIndex, ReadFilters, ScopeRead,
              NextScope, ReadPartition, NextFilter
<1> QED BY <1>1, <1>2, SoundRead, SoundSend DEF EventStep

LEMMA SoundStep == Typed /\ Sound /\ [Next]_vars => Sound'
<1> SUFFICES ASSUME Typed, Sound, [Next]_vars PROVE Sound'
  OBVIOUS
<1>1. ASSUME UNCHANGED <<at, reader, sender>> PROVE Sound'
  BY <1>1 DEF Sound, SoundFor, OnlyMatchesAreTold, reader, sender
<1>2. ASSUME SearchStep \/ \E s \in Subscription : ClientStep(s) PROVE UNCHANGED <<at, reader, sender>>
  BY <1>2 DEF SearchStep, BackgroundRefresh, ThrottleEnds, ClientStep, Subscribe, AddMember, IndexPartition, CountUp, StoreFilter, SearchPage, Unsubscribe,
         RefreshIndex, SkipRefresh
<1>3. ASSUME NEW e \in Change, EventStep(e) PROVE Sound'
  <2>1. ASSUME NEW f \in Change, f # e PROVE SoundFor(f)'
    BY <1>3, <2>1, OthersKept DEF Sound, SoundFor
  <2>2. SoundFor(e)' /\ OnlyMatchesAreTold'
    BY <1>3, SoundEvent DEF Sound
  <2> QED BY <2>1, <2>2 DEF Sound
<1> QED BY <1>1, <1>2, <1>3, StepCases DEF vars

----------------------------------------------------------------------------
(* Nobody is missed *)

\* While a process does not refresh the search index again, what a search lacks was stored
\* since it last did.
Fresh == \A p \in throttled : Stored \ visible \subseteq recent[p]

LEMMA FreshInit == Init => Fresh
BY DEF Init, Fresh

LEMMA FreshStep == Typed /\ Fresh /\ [Next]_vars => Fresh'
<1> SUFFICES ASSUME Typed, Fresh, [Next]_vars PROVE Fresh'
  OBVIOUS
<1>1. ASSUME Stored' = Stored, UNCHANGED search PROVE Fresh'
  BY <1>1 DEF Fresh, search
<1>2. ASSUME NEW s \in Subscription, ClientStep(s) PROVE Fresh'
  <2>1. UNCHANGED at
    BY <1>2 DEF ClientStep, Subscribe, AddMember, IndexPartition, CountUp, StoreFilter, SearchPage,
                Unsubscribe, RefreshIndex, SkipRefresh
  <2>2. CASE \E p \in Api : RefreshIndex(s, p)
    BY <2>1, <2>2 DEF RefreshIndex, Fresh, Stored
  <2>3. CASE ~\E p \in Api : RefreshIndex(s, p)
    <3>1. UNCHANGED search
      BY <1>2, <2>3 DEF ClientStep, Subscribe, AddMember, IndexPartition, CountUp, StoreFilter, SearchPage,
                        Unsubscribe, SkipRefresh
    <3> QED BY <1>1, <2>1, <3>1 DEF Stored
  <2> QED BY <2>2, <2>3
<1>3. CASE SearchStep
  <2>1. CASE BackgroundRefresh
    BY <2>1 DEF BackgroundRefresh, Fresh, Stored
  <2>2. ASSUME NEW p \in Api, ThrottleEnds(p) PROVE Fresh'
    BY <2>2 DEF ThrottleEnds, Fresh, Stored, Typed
  <2> QED BY <1>3, <2>1, <2>2 DEF SearchStep
<1>4. ASSUME NEW e \in Change, EventStep(e) PROVE Fresh'
  <2>1. CASE Store(e)
    <3>1. Stored' \subseteq Stored \cup {e} /\ UNCHANGED <<visible, throttled>>
      BY <2>1 DEF Store, AtTo, Stored, Typed
    <3>2. \A p \in throttled : recent'[p] = recent[p] \cup {e}
      BY <2>1 DEF Store, Typed
    <3> QED BY <3>1, <3>2 DEF Fresh
  <2>2. CASE ~Store(e)
    <3>1. UNCHANGED search /\ at[e] # "unborn" /\ at'[e] # "unborn" /\ \A f \in Change : f # e => at'[f] = at[f]
      BY <1>4, <2>2 DEF EventStep, ReadStep, SendStep, Tell, ReadScopes, ReadIndex, ReadFilters, ScopeRead,
             NextScope, ReadPartition, NextFilter, Publish, Settle, Confirmed, PublishFails, AtTo, AfterChannel, Typed
    <3> QED BY <1>1, <3>1 DEF Stored
  <2> QED BY <2>1, <2>2
<1> QED BY <1>1, <1>2, <1>3, <1>4, StepCases DEF vars, Stored

\* A subscriber whose first page does not show the change, or will not if it is not
\* refreshed, although the throttle is no reason for that.
Owed(e, s) ==
    /\ Matches(e, s[2]) /\ e \notin blind[s]
    /\ \/ sub[s] = "page" /\ e \notin visible
       \/ sub[s] = "on" /\ e \notin page[s]

\* What is left to read will find the subscription.
ToRead(e, s) ==
    \/ \E i \in scopes[e] : Patterns[e][i] = ScopeOf(s[2])
    \/ at[e] = "index" /\ chan[e] = s[2]
    \/ at[e] = "members" /\ chan[e] = s[2] /\ PartitionOf[s[1]] \in parts[e]
    \/ /\ s[2] \in chans[e]
       /\ at[e] = "filter" \/ (at[e] \in {"index", "members"} /\ chan[e] \in Filtered)
    \/ /\ s[2] \in Filtered /\ ScopeOf(s[2]) = ScopeOf(chan[e])
       /\ at[e] = "filters" \/ (at[e] \in {"index", "members"} /\ chan[e] \notin Filtered)

InUnsent(e, s) == \E m \in unsent[e] : s[1] \in m.devices /\ s[2] \in m.channels

CompleteFor(e, s) ==
    Owed(e, s) =>
      /\ at[e] \in Reading \cup {"scope"} => s \in found[e] \/ ToRead(e, s)
      /\ at[e] = "publish" => InUnsent(e, s) \/ failed[e] \/ <<e, s>> \in told
      /\ at[e] = "done" => <<e, s>> \in told

Complete == \A e \in Change, s \in Subscription : CompleteFor(e, s)

LEMMA CompleteInit == Init => Complete
BY DEF Init, Complete, CompleteFor, Owed

\* Who is owed a change is in the index, where the reader looks.
LEMMA OwedIsIndexed ==
    ASSUME Typed, IndexHolds, NEW e \in Change, NEW s \in Subscription, Owed(e, s)
    PROVE  /\ s \in members /\ <<s[2], PartitionOf[s[1]]>> \in indexed
           /\ s[2] \in Filtered => s[2] \in filters /\ s[2] \in Matching(e, {s[2]})
           /\ ScopeOf(s[2]) \in ActiveScopes
           /\ \E i \in DOMAIN Patterns[e] : Patterns[e][i] = ScopeOf(s[2])
<1> DEFINE x == ScopeOf(s[2])
<1>1. x \in Scope
  BY PairOf, ChannelScope
<1>2. s \in CountedIn(x)
  BY DEF CountedIn, Owed
<1>3. Cardinality(CountedIn(x)) # 0 /\ Cardinality(CountedIn(x)) \in Nat
  BY <1>2, CountedType, FS_EmptySet, FS_CardinalityType
<1>4. x \in ActiveScopes
  BY <1>1, <1>3 DEF ActiveScopes, IndexHolds
<1> QED BY <1>4 DEF Owed, IndexHolds, Matches, Matching

\* No step of a subscribe request makes it owed a change that is stored already.
LEMMA NothingStoredIsOwed ==
    ASSUME Typed, Fresh, NEW s \in Subscription, ClientStep(s), NEW e \in Stored, Owed(e, s)'
    PROVE  Owed(e, s)
<1>1. UNCHANGED at /\ e \in Change
  BY DEF Stored, ClientStep, Subscribe, AddMember, IndexPartition, CountUp, StoreFilter, SearchPage,
         Unsubscribe, RefreshIndex, SkipRefresh
<1>2. CASE SearchPage(s)
  BY <1>2 DEF SearchPage, SubTo, Owed, Matches, Typed, search
<1>3. CASE \E p \in Api : RefreshIndex(s, p)
  BY <1>1, <1>3 DEF RefreshIndex, SubTo, Owed, Typed
<1>4. ASSUME NEW p \in Api, SkipRefresh(s, p) PROVE FALSE
  <2>1. p \in throttled /\ blind'[s] = recent[p] /\ sub'[s] = "page" /\ UNCHANGED visible
    BY <1>4 DEF SkipRefresh, SubTo, Typed, search
  <2>2. e \in visible \/ e \in recent[p]
    BY <2>1 DEF Fresh
  <2> QED BY <2>1, <2>2 DEF Owed
<1>5. CASE Subscribe(s) \/ AddMember(s) \/ IndexPartition(s) \/ CountUp(s) \/ StoreFilter(s) \/ Unsubscribe(s)
  <2>1. sub'[s] \notin {"page", "on"}
    BY <1>5 DEF Typed, SubTo, Subscribe, AddMember, IndexPartition, CountUp, StoreFilter, Unsubscribe
  <2> QED BY <2>1 DEF Owed
<1> QED BY <1>2, <1>3, <1>4, <1>5 DEF ClientStep

LEMMA CompleteClient ==
    ASSUME Typed, Fresh, Complete, NEW s \in Subscription, ClientStep(s)
    PROVE  Complete'
<1>1. UNCHANGED <<at, reader, sender>>
  BY DEF ClientStep, Subscribe, AddMember, IndexPartition, CountUp, StoreFilter, SearchPage, Unsubscribe,
         RefreshIndex, SkipRefresh
<1>2. ASSUME NEW t \in Subscription, t # s
      PROVE  sub'[t] = sub[t] /\ page'[t] = page[t] /\ blind'[t] = blind[t]
  BY <1>2 DEF Typed, SubTo, ClientStep, Subscribe, AddMember, IndexPartition, CountUp, StoreFilter,
              SearchPage, Unsubscribe, RefreshIndex, SkipRefresh
<1>3. visible' = visible \/ visible' = Stored
  BY DEF search, ClientStep, Subscribe, AddMember, IndexPartition, CountUp, StoreFilter, SearchPage,
         Unsubscribe, RefreshIndex, SkipRefresh
<1>4. ASSUME NEW e \in Change, NEW t \in Subscription PROVE CompleteFor(e, t)'
  <2>1. CASE at[e] = "unborn"
    BY <1>1, <2>1 DEF CompleteFor, Reading
  <2>2. CASE at[e] # "unborn"
    <3>1. e \in Stored
      BY <2>2 DEF Stored
    <3>2. Owed(e, t)' => Owed(e, t)
      BY <1>2, <1>3, <3>1, NothingStoredIsOwed DEF Owed, Matches
    <3>3. CompleteFor(e, t)
      BY DEF Complete
    <3> QED BY <1>1, <3>2, <3>3 DEF CompleteFor, ToRead, InUnsent, reader, sender
  <2> QED BY <2>1, <2>2
<1> QED BY <1>4 DEF Complete

LEMMA CompleteRead ==
    ASSUME Typed, IndexHolds, NEW e \in Change, SoundFor(e), ReadStep(e),
           NEW s \in Subscription, CompleteFor(e, s)
    PROVE  CompleteFor(e, s)'
<1>1. UNCHANGED <<clients, search, index, sender>> \/ (ReadScopes(e) /\ UNCHANGED <<clients, search, index, unsent, told>>)
  BY DEF ReadStep, sender, ReadScopes, ReadIndex, ReadFilters, ScopeRead, NextScope, ReadPartition, NextFilter
<1>2. at'[e] \in Reading \cup {"scope"}
  BY DEF ReadStep, ReadScopes, ReadIndex, ReadFilters, ScopeRead, NextScope, ReadPartition, NextFilter,
         AtTo, AfterChannel, Typed, Reading
<1>0. Owed(e, s)' <=> Owed(e, s)
  BY <1>1 DEF Owed, Matches, clients, search
<1> SUFFICES ASSUME Owed(e, s) PROVE s \in found'[e] \/ ToRead(e, s)'
  BY <1>0, <1>2 DEF CompleteFor, Reading
<1> DEFINE x == ScopeOf(s[2])
<1>3. CASE ReadScopes(e)
  <2>1. PICK i \in DOMAIN Patterns[e] : Patterns[e][i] = x
    BY OwedIsIndexed
  <2>2. i \in scopes'[e]
    <3>1. scopes'[e] = {j \in DOMAIN Patterns[e] : Patterns[e][j] \in ActiveScopes}
      BY <1>3 DEF ReadScopes, Typed
    <3>2. Patterns[e][i] \in ActiveScopes
      BY <2>1, OwedIsIndexed
    <3> QED BY <2>1, <3>1, <3>2
  <2> QED BY <2>1, <2>2 DEF ToRead
<1>4. CASE ~ReadScopes(e)
  <2>1. at[e] \in Reading \cup {"scope"}
    BY <1>4 DEF ReadStep, ReadIndex, ReadFilters, ScopeRead, NextScope, ReadPartition, NextFilter, Reading
  <2>2. s \in found[e] \/ ToRead(e, s)
    BY <2>1 DEF CompleteFor
  <2>3. found[e] \subseteq found'[e]
    BY <1>4 DEF ReadStep, ReadIndex, ReadFilters, ScopeRead, NextScope, ReadPartition, NextFilter, Typed
  <2> SUFFICES ASSUME s \notin found[e] PROVE s \in found'[e] \/ ToRead(e, s)'
    BY <2>3
  <2>4. CASE ReadIndex(e)
    <3> DEFINE active == {p \in Partition : <<chan[e], p>> \in indexed}
    <3>1. /\ at[e] = "index" /\ UNCHANGED <<scopes, chan, chans>>
          /\ at'[e] = IF active = {} THEN AfterChannel(e) ELSE "members"
          /\ parts'[e] = active
      BY <2>4 DEF ReadIndex, AtTo, Typed
    <3>2. chan[e] = s[2] => PartitionOf[s[1]] \in active
      BY OwedIsIndexed, PairOf, FanOutAssumption
    <3> QED BY <2>2, <3>1, <3>2 DEF ToRead, AfterChannel
  <2>5. CASE ReadFilters(e)
    <3>1. /\ at[e] = "filters" /\ at'[e] = "filter" /\ UNCHANGED <<scopes, chan>>
          /\ chans'[e] = Matching(e, {c \in filters : FilterScope[c] = ScopeOf(chan[e])})
      BY <2>5 DEF ReadFilters, AtTo, Typed
    <3>2. CASE s[2] \in Filtered /\ x = ScopeOf(chan[e])
      <4>1. s[2] \in filters /\ s[2] \in Matching(e, {s[2]}) /\ FilterScope[s[2]] = ScopeOf(chan[e])
        BY <3>2, OwedIsIndexed DEF ScopeOf
      <4>2. s[2] \in chans'[e]
        BY <3>1, <4>1 DEF Matching
      <4>3. ToRead(e, s)'
        BY <3>1, <4>2 DEF ToRead
      <4> QED BY <4>3
    <3>3. CASE ~(s[2] \in Filtered /\ x = ScopeOf(chan[e]))
      <4>1. \E i \in scopes[e] : Patterns[e][i] = x
        BY <2>2, <3>1, <3>3 DEF ToRead
      <4> QED BY <3>1, <4>1 DEF ToRead
    <3> QED BY <3>2, <3>3
  <2>6. CASE ScopeRead(e)
    <3>1. at[e] = "filter" /\ chans[e] = {} /\ UNCHANGED scopes
      BY <2>6 DEF ScopeRead
    <3> QED BY <2>2, <3>1 DEF ToRead
  <2>7. ASSUME NEW i \in scopes[e], NextScope(e, i) PROVE ToRead(e, s)'
    <3>1. /\ at[e] = "scope" /\ at'[e] = "index" /\ scopes'[e] = scopes[e] \ {i}
          /\ chan'[e] = Plain[Patterns[e][i]]
      BY <2>7 DEF NextScope, AtTo, Typed
    <3>2. PICK j \in scopes[e] : Patterns[e][j] = x
      BY <2>2, <3>1 DEF ToRead
    <3>3. CASE j # i
      BY <3>1, <3>2, <3>3 DEF ToRead
    <3>4. CASE j = i
      <4>1. ScopeOf(chan'[e]) = x /\ chan'[e] \notin Filtered /\ (s[2] \in Filtered \/ s[2] = chan'[e])
        BY <3>1, <3>2, <3>4, PlainScope, ChannelScope, PairOf
      <4> QED BY <3>1, <4>1 DEF ToRead
    <3> QED BY <3>3, <3>4
  <2>8. ASSUME NEW p \in Partition, ReadPartition(e, p) PROVE s \in found'[e] \/ ToRead(e, s)'
    <3>1. /\ at[e] = "members" /\ UNCHANGED <<scopes, chan, chans>> /\ parts'[e] = parts[e] \ {p}
          /\ at'[e] = IF parts'[e] = {} THEN AfterChannel(e) ELSE "members"
          /\ found'[e] = found[e] \cup {t \in members : t[2] = chan[e] /\ PartitionOf[t[1]] = p}
      BY <2>8 DEF ReadPartition, AtTo, Typed
    <3>2. s \in members
      BY OwedIsIndexed
    <3> QED BY <2>2, <3>1, <3>2 DEF ToRead, AfterChannel
  <2>9. ASSUME NEW c \in Filtered, NextFilter(e, c) PROVE ToRead(e, s)'
    <3>1. /\ at[e] = "filter" /\ at'[e] = "index" /\ UNCHANGED scopes
          /\ chan'[e] = c /\ chans'[e] = chans[e] \ {c}
      BY <2>9 DEF NextFilter, AtTo, Typed
    <3> QED BY <2>2, <3>1 DEF ToRead
  <2> QED BY <1>4, <2>4, <2>5, <2>6, <2>7, <2>8, <2>9 DEF ReadStep
<1> QED BY <1>3, <1>4

LEMMA CompleteSend ==
    ASSUME Typed, NEW e \in Change, SendStep(e), NEW s \in Subscription, CompleteFor(e, s)
    PROVE  CompleteFor(e, s)'
<1>1. UNCHANGED <<clients, search, index, reader>>
  BY DEF SendStep, sender, Publish, Settle, Confirmed, PublishFails
<1> SUFFICES ASSUME Owed(e, s) PROVE CompleteFor(e, s)'
  BY <1>1 DEF CompleteFor, Owed, Matches, clients, search
<1>2. CASE Publish(e)
  <2>1. at[e] = "scope" /\ scopes[e] = {} /\ at'[e] = "publish" /\ unsent'[e] = Group(found[e])
    BY <1>2 DEF Publish, AtTo, Typed
  <2>2. s \in found[e]
    BY <2>1 DEF CompleteFor, ToRead
  <2>3. InUnsent(e, s)'
    <3>1. found[e] \in SUBSET Subscription
      BY DEF Typed
    <3>2. \E m \in Group(found[e]) : s[1] \in m.devices /\ s[2] \in m.channels
      BY <2>2, <3>1, GroupIsExact
    <3> QED BY <2>1, <3>2 DEF InUnsent
  <2> QED BY <2>1, <2>3 DEF CompleteFor, Reading
<1>3. CASE Settle(e)
  <2>1. /\ at[e] = "publish" /\ unsent[e] = {} /\ UNCHANGED told
        /\ at'[e] \in {"done", "queued", "dead"} /\ (at'[e] = "done" => ~failed[e])
    BY <1>3 DEF Settle, AtTo, Typed, sender
  <2> QED BY <2>1 DEF CompleteFor, InUnsent, Reading
<1>4. ASSUME NEW m \in unsent[e], Confirmed(e, m) PROVE CompleteFor(e, s)'
  <2>1. /\ at[e] = "publish" /\ UNCHANGED <<at, failed>> /\ unsent'[e] = unsent[e] \ {m}
        /\ told' = told \cup {<<e, t>> : t \in m.devices \X m.channels}
    BY <1>4 DEF Confirmed, Reaches, Typed
  <2>2. InUnsent(e, s) => InUnsent(e, s)' \/ <<e, s>> \in told'
    BY <2>1, PairOf DEF InUnsent
  <2> QED BY <2>1, <2>2 DEF CompleteFor, Reading
<1>5. ASSUME NEW m \in unsent[e], PublishFails(e, m) PROVE CompleteFor(e, s)'
  <2>1. at'[e] = "publish" /\ failed'[e]
    BY <1>5 DEF PublishFails, Typed
  <2> QED BY <2>1 DEF CompleteFor, Reading
<1> QED BY <1>2, <1>3, <1>4, <1>5 DEF SendStep

LEMMA CompleteStep == Typed /\ IndexHolds /\ Fresh /\ Sound /\ Complete /\ [Next]_vars => Complete'
<1> SUFFICES ASSUME Typed, IndexHolds, Fresh, Sound, Complete, [Next]_vars PROVE Complete'
  OBVIOUS
<1>1. CASE UNCHANGED vars
  BY <1>1 DEF vars, clients, search, reader, sender, Complete, CompleteFor, Owed, Matches, ToRead, InUnsent
<1>2. ASSUME NEW e \in Change, EventStep(e), NEW f \in Change, NEW s \in Subscription
      PROVE  CompleteFor(f, s)'
  <2>1. UNCHANGED <<clients, visible>> /\ CompleteFor(f, s)
    BY <1>2 DEF EventStep, ReadStep, SendStep, Store, Tell, ReadScopes, ReadIndex, ReadFilters, ScopeRead,
                NextScope, ReadPartition, NextFilter, Publish, Settle, Confirmed, PublishFails, Complete, search
  <2>2. CASE f # e
    <3>1. Owed(f, s)' <=> Owed(f, s)
      BY <2>1 DEF Owed, Matches, clients
    <3> QED BY <1>2, <2>1, <2>2, <3>1, OthersKept DEF CompleteFor, ToRead, InUnsent
  <2>3. CASE f = e /\ (Store(e) \/ Tell(e))
    <3>1. at'[e] \in {"stored", "queued"}
      BY <2>3 DEF Store, Tell, AtTo, Typed
    <3> QED BY <2>3, <3>1 DEF CompleteFor, Reading
  <2> QED BY <1>2, <2>1, <2>2, <2>3, CompleteRead, CompleteSend DEF EventStep, Sound
<1>3. ASSUME SearchStep, NEW e \in Change, NEW s \in Subscription PROVE CompleteFor(e, s)'
  <2>1. UNCHANGED <<clients, at, reader, sender>> /\ (UNCHANGED visible \/ visible' = Stored) /\ CompleteFor(e, s)
    BY <1>3 DEF SearchStep, BackgroundRefresh, ThrottleEnds, Complete
  <2>2. Owed(e, s)' => Owed(e, s) \/ at[e] = "unborn"
    BY <2>1 DEF Owed, Matches, clients, Stored
  <2> QED BY <2>1, <2>2 DEF CompleteFor, ToRead, InUnsent, Reading, reader, sender
<1> QED BY <1>1, <1>2, <1>3, StepCases, CompleteClient DEF Complete

----------------------------------------------------------------------------
(* One message per attempt *)

\* While an attempt is under way, whoever is still to hear of it has a message to come
\* at most once, and has heard less often than there were attempts.
OnceFor(e) ==
    \A d \in Device :
        /\ heard[e][d] <= tries[e]
        /\ at[e] \in Reading \cup {"scope"} => heard[e][d] < tries[e]
        /\ \A m \in unsent[e] : d \in m.devices =>
              /\ heard[e][d] < tries[e]
              /\ \A n \in unsent[e] : d \in n.devices => m = n

Once == \A e \in Change : OnceFor(e)

LEMMA OnceInit == Init => Once
BY DEF Init, Once, OnceFor, Reading

LEMMA OnceRead ==
    ASSUME Typed, NEW e \in Change, OnceFor(e), ReadStep(e)
    PROVE  OnceFor(e)'
<1>1. CASE ReadScopes(e)
  <2>1. UNCHANGED <<unsent, heard>> /\ tries'[e] = tries[e] + 1
    BY <1>1 DEF ReadScopes, Typed
  <2>2. \A d \in Device : heard[e][d] \in Nat
    BY DEF Typed
  <2> QED BY <2>1, <2>2 DEF OnceFor, Typed
<1>2. CASE ~ReadScopes(e)
  <2>1. UNCHANGED <<sender, tries>> /\ at[e] \in Reading \cup {"scope"}
    BY <1>2 DEF ReadStep, ReadIndex, ReadFilters, ScopeRead, NextScope, ReadPartition, NextFilter, Reading
  <2> QED BY <2>1 DEF OnceFor, sender
<1> QED BY <1>1, <1>2

LEMMA OnceSend ==
    ASSUME Typed, NEW e \in Change, OnceFor(e), SendStep(e)
    PROVE  OnceFor(e)'
<1>0. UNCHANGED tries /\ tries[e] \in Nat /\ \A d \in Device : heard[e][d] \in Nat
  BY FanOutAssumption DEF SendStep, sender, Publish, Settle, Confirmed, PublishFails, Typed
<1>1. CASE Publish(e)
  <2>1. /\ at[e] = "scope" /\ at'[e] = "publish" /\ unsent'[e] = Group(found[e]) /\ UNCHANGED heard
    BY <1>1 DEF Publish, AtTo, Typed
  <2>2. \A m, n \in unsent'[e], d \in Device : d \in m.devices /\ d \in n.devices => m = n
    <3>1. found[e] \in SUBSET Subscription
      BY DEF Typed
    <3> QED BY <2>1, <3>1, GroupIsExact
  <2> QED BY <1>0, <2>1, <2>2 DEF OnceFor, Reading
<1>2. CASE Settle(e)
  <2>1. at'[e] \notin Reading \cup {"scope"} /\ UNCHANGED sender
    BY <1>2 DEF Settle, AtTo, Typed, Reading
  <2> QED BY <1>0, <2>1 DEF OnceFor, sender
<1>3. ASSUME NEW m \in unsent[e], Confirmed(e, m) \/ PublishFails(e, m) PROVE OnceFor(e)'
  <2>1. at[e] = "publish" /\ UNCHANGED at /\ unsent'[e] = unsent[e] \ {m}
    BY <1>3 DEF Confirmed, PublishFails, Typed
  <2>2. ASSUME NEW d \in Device, heard'[e][d] # heard[e][d]
        PROVE  d \in m.devices /\ heard'[e][d] = heard[e][d] + 1
    BY <1>3, <2>2 DEF Confirmed, PublishFails, Reaches, Typed
  <2>3. ASSUME NEW d \in Device PROVE heard'[e][d] <= tries'[e]
    BY <1>0, <1>3, <2>2 DEF OnceFor
  <2>4. ASSUME NEW d \in Device, NEW n \in unsent'[e], d \in n.devices
        PROVE  /\ heard'[e][d] < tries'[e]
               /\ \A k \in unsent'[e] : d \in k.devices => k = n
    <3>1. n \in unsent[e] /\ d \notin m.devices
      BY <1>3, <2>1, <2>4 DEF OnceFor
    <3>2. heard'[e][d] = heard[e][d]
      BY <2>2, <3>1
    <3> QED BY <1>0, <2>1, <2>4, <3>1, <3>2 DEF OnceFor
  <2> QED BY <2>1, <2>3, <2>4 DEF OnceFor, Reading
<1> QED BY <1>1, <1>2, <1>3 DEF SendStep

LEMMA OnceStep == Typed /\ Once /\ [Next]_vars => Once'
<1> SUFFICES ASSUME Typed, Once, [Next]_vars PROVE Once'
  OBVIOUS
<1>1. ASSUME UNCHANGED <<at, reader, sender, tries>> PROVE Once'
  BY <1>1 DEF Once, OnceFor, reader, sender
<1>2. ASSUME SearchStep \/ \E s \in Subscription : ClientStep(s) PROVE UNCHANGED <<at, reader, sender, tries>>
  BY <1>2 DEF SearchStep, BackgroundRefresh, ThrottleEnds, ClientStep, Subscribe, AddMember, IndexPartition, CountUp, StoreFilter, SearchPage, Unsubscribe,
         RefreshIndex, SkipRefresh
<1>3. ASSUME NEW e \in Change, EventStep(e), NEW f \in Change PROVE OnceFor(f)'
  <2>1. CASE f # e
    BY <1>3, <2>1, OthersKept DEF Once, OnceFor
  <2>2. CASE f = e /\ (Store(e) \/ Tell(e))
    <3>1. at'[e] \in {"stored", "queued"} /\ UNCHANGED <<sender, tries>>
      BY <2>2 DEF Store, Tell, AtTo, Typed
    <3> QED BY <2>2, <3>1 DEF Once, OnceFor, Reading, sender
  <2> QED BY <1>3, <2>1, <2>2, OnceRead, OnceSend DEF Once, EventStep
<1> QED BY <1>1, <1>2, <1>3, StepCases DEF Once, vars

----------------------------------------------------------------------------
(* Theorems *)

FanOutInv == Typed /\ IndexHolds /\ Fresh /\ Sound /\ Complete /\ Once

LEMMA FanOutInvariant == Spec => []FanOutInv
<1>1. Init => FanOutInv
  BY TypedInit, IndexInit, FreshInit, SoundInit, CompleteInit, OnceInit DEF FanOutInv
<1>2. FanOutInv /\ [Next]_vars => FanOutInv'
  BY TypedStep, IndexStep, FreshStep, SoundStep, CompleteStep, OnceStep DEF FanOutInv
<1> QED BY <1>1, <1>2, PTL DEF Spec

\* Every reachable state is type-correct; no device is counted for a scope twice, and
\* no attempt is made beyond the last.
THEOREM TypeCorrect == Spec => []TypeOK
<1>1. FanOutInv => TypeOK
  <2> SUFFICES ASSUME FanOutInv PROVE TypeOK
    OBVIOUS
  <2> USE DEF FanOutInv
  <2>1. count \in [Scope -> 0..Cardinality(Subscription)]
    BY CountedType DEF IndexHolds
  <2>2. heard \in [Change -> [Device -> 0..MaxTries]]
    <3>1. \A e \in Change, d \in Device : heard[e][d] \in 0..MaxTries
      BY FanOutAssumption DEF Typed, Once, OnceFor
    <3> QED BY <3>1 DEF Typed
  <2> QED BY <2>1, <2>2 DEF Typed, TypeOK
<1> QED BY <1>1, FanOutInvariant, PTL

\* Whoever subscribes while a change is stored and told, and whichever way the reads of
\* the index fall between the writes of the subscribes: every subscriber has the change in
\* its first page or is told, unless the process that answered refreshed the search index
\* before the change was stored, and not again; and nobody is told on a channel that the
\* change does not match.
THEOREM FanOutExact == Spec => []FanOutIsExact
<1>1. FanOutInv => FanOutIsExact
  BY DEF FanOutInv, Complete, CompleteFor, Owed, Sound, FanOutIsExact, NothingIsMissed, Missed
<1> QED BY <1>1, FanOutInvariant, PTL

\* An attempt sends a device at most one message, however many of its channels match, so it
\* hears an event at most once per attempt.
THEOREM OneMessage == Spec => []OneMessagePerAttempt
<1>1. FanOutInv => OneMessagePerAttempt
  BY DEF FanOutInv, Once, OnceFor, OneMessagePerAttempt
<1> QED BY <1>1, FanOutInvariant, PTL
=============================================================================
