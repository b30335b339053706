---------------------- MODULE SubscriptionIndexProofs ----------------------
(***************************************************************************)
(* Theorems about SubscriptionIndex, for any number of devices, channels,  *)
(* partitions and requests.  Whatever requests and clean-ups do to each    *)
(* other, every member of the scope is counted exactly once, and the types *)
(* hold; while they come one at a time, the index mirrors the documents.   *)
(***************************************************************************)
EXTENDS SubscriptionIndex, FiniteSetTheorems, SequenceTheorems, WellFoundedInduction, TLAPS

\* Requests whose member is in a partition and not in the counter yet.
Adding == {r \in Request : pc[r] \in {"index", "count"}}

\* Removals whose member is out of its partition and in the counter still.
Removing == {t \in Request \X Channel :
                task[t[1]][t[2]] \in {"cardPartition", "unindex", "cardIndex",
                                      "dropFilter", "decrement"}}

\* Only an unsubscribe or a clean-up under way has removals: a new one forgets none.
Shape ==
    /\ pc \in [Request -> Pc]
    /\ chan \in [Request -> Channel]
    /\ task \in [Request -> [Channel -> Task]]
    /\ \A r \in Request : pc[r] \notin {"removing", "cleanup"} =>
          \A c \in Channel : task[r][c] = "none"

Finite == IsFiniteSet(members) /\ IsFiniteSet(Adding) /\ IsFiniteSet(Removing)
Numbers == scope.count \in Int /\ dropped \in Int

Counts == Finite /\ Numbers /\ CountedOnce

----------------------------------------------------------------------------
(* The ways a step may move members between the sets *)

\* The counter and the sets it is the sum of, seen at once.
Balance(count, m, a, d) ==
    /\ count \in Int
    /\ IsFiniteSet(m) /\ IsFiniteSet(a) /\ IsFiniteSet(d)
    /\ count = Cardinality(m) - Cardinality(a) + Cardinality(d)

LEMMA CountsIsBalance ==
    Numbers => (Counts <=> Balance(scope.count + dropped, members, Adding, Removing))
BY DEF Counts, Numbers, Finite, Balance, CountedOnce, Adding, Removing

\* A new member that is yet to be counted.
LEMMA BalanceAdd ==
    ASSUME NEW n, NEW m, NEW a, NEW d, Balance(n, m, a, d), NEW x, x \notin m, NEW r, r \notin a
    PROVE  Balance(n, m \cup {x}, a \cup {r}, d)
<1>1. /\ Cardinality(m) \in Nat /\ Cardinality(a) \in Nat /\ Cardinality(d) \in Nat
  BY FS_CardinalityType DEF Balance
<1>2. IsFiniteSet(m \cup {x}) /\ Cardinality(m \cup {x}) = Cardinality(m) + 1
  BY FS_AddElement DEF Balance
<1>3. IsFiniteSet(a \cup {r}) /\ Cardinality(a \cup {r}) = Cardinality(a) + 1
  BY FS_AddElement DEF Balance
<1> QED BY <1>1, <1>2, <1>3 DEF Balance

\* It is counted.
LEMMA BalanceCountUp ==
    ASSUME NEW n, NEW m, NEW a, NEW d, Balance(n, m, a, d), NEW r \in a
    PROVE  Balance(n + 1, m, a \ {r}, d)
<1>1. /\ Cardinality(m) \in Nat /\ Cardinality(a) \in Nat /\ Cardinality(d) \in Nat
  BY FS_CardinalityType DEF Balance
<1>2. IsFiniteSet(a \ {r}) /\ Cardinality(a \ {r}) = Cardinality(a) - 1
  BY FS_RemoveElement DEF Balance
<1> QED BY <1>1, <1>2 DEF Balance

\* A member that is gone and counted still.
LEMMA BalanceRemove ==
    ASSUME NEW n, NEW m, NEW a, NEW d, Balance(n, m, a, d), NEW x \in m, NEW t, t \notin d
    PROVE  Balance(n, m \ {x}, a, d \cup {t})
<1>1. /\ Cardinality(m) \in Nat /\ Cardinality(a) \in Nat /\ Cardinality(d) \in Nat
  BY FS_CardinalityType DEF Balance
<1>2. IsFiniteSet(m \ {x}) /\ Cardinality(m \ {x}) = Cardinality(m) - 1
  BY FS_RemoveElement DEF Balance
<1>3. IsFiniteSet(d \cup {t}) /\ Cardinality(d \cup {t}) = Cardinality(d) + 1
  BY FS_AddElement DEF Balance
<1> QED BY <1>1, <1>2, <1>3 DEF Balance

\* It is counted no more.
LEMMA BalanceCountDown ==
    ASSUME NEW n, NEW m, NEW a, NEW d, Balance(n, m, a, d), NEW t \in d
    PROVE  Balance(n - 1, m, a, d \ {t})
<1>1. /\ Cardinality(m) \in Nat /\ Cardinality(a) \in Nat /\ Cardinality(d) \in Nat
  BY FS_CardinalityType DEF Balance
<1>2. IsFiniteSet(d \ {t}) /\ Cardinality(d \ {t}) = Cardinality(d) - 1
  BY FS_RemoveElement DEF Balance
<1> QED BY <1>1, <1>2 DEF Balance

\* Most steps move nothing.
LEMMA CountsKept ==
    ASSUME Counts, UNCHANGED <<members, scope, dropped>>, Adding' = Adding, Removing' = Removing
    PROVE  Counts'
BY DEF Counts, Finite, Numbers, CountedOnce, Adding, Removing

----------------------------------------------------------------------------
(* Shape *)

LEMMA ShapeInit == Init => Shape
BY IndexAssumption DEF Init, Shape, Pc, Task

LEMMA ShapeStep == Shape /\ [Next]_vars => Shape'
<1> SUFFICES ASSUME Shape, [Next]_vars PROVE Shape'
  OBVIOUS
<1>1. CASE UNCHANGED vars \/ \E d \in Device : Connect(d)
  BY <1>1 DEF vars, requests, Connect, Shape
<1>2. ASSUME NEW r \in Request, RequestStep(r) PROVE Shape'
  <2>1. ASSUME NEW d \in Device, NEW c \in Channel, Subscribe(r, d, c) PROVE Shape'
    BY <2>1 DEF Subscribe, Start, GoTo, Shape, Pc
  <2>2. ASSUME NEW d \in Device, NEW c \in Channel, Unsubscribe(r, d, c) PROVE Shape'
    BY <2>2 DEF Unsubscribe, Start, GoTo, Shape, Pc
  <2>3. CASE AppendEntry(r) \/ AddMember(r) \/ IndexPartition(r) \/ CountUp(r) \/ StoreFilter(r)
    <3>1. /\ UNCHANGED <<chan, task>> /\ pc[r] \in {"append", "add", "index", "count", "filter"}
          /\ \E w \in {"add", "index", "count", "filter", "idle"} : pc' = [pc EXCEPT ![r] = w]
      BY <2>3 DEF AppendEntry, AddMember, IndexPartition, CountUp, StoreFilter, GoTo
    <3> QED BY <3>1 DEF Shape, Pc
  <2>4. CASE PopEntry(r)
    <3>1. /\ pc[r] = "pop" /\ pc' = [pc EXCEPT ![r] = "removing"]
          /\ task' = [task EXCEPT ![r][chan[r]] = "remove"] /\ UNCHANGED chan
      BY <2>4 DEF PopEntry, GoTo, TaskTo
    <3> QED BY <3>1 DEF Shape, Pc, Task
  <2>5. ASSUME NEW c \in Channel, RemoveDevice(r, c) PROVE Shape'
    <3>1. PICK w \in Task : task' = [task EXCEPT ![r][c] = w]
      BY <2>5 DEF RemoveDevice, RemoveMember, CardPartition, Unindex, CardIndex, DropFilter,
                  CountDown, DropScope, TaskTo, Task
    <3>2. task[r][c] # "none" /\ UNCHANGED <<pc, chan>>
      BY <2>5 DEF RemoveDevice, RemoveMember, CardPartition, Unindex, CardIndex, DropFilter,
                  CountDown, DropScope
    <3> QED BY <3>1, <3>2 DEF Shape
  <2>6. CASE Removed(r)
    BY <2>6 DEF Removed, GoTo, Shape, Pc
  <2>7. ASSUME NEW d \in Device, Disconnect(r, d) PROVE Shape'
    BY <2>7 DEF Disconnect, Start, GoTo, Shape, Pc, Task
  <2>8. CASE ClearList(r) \/ GoOffline(r)
    <3>1. /\ UNCHANGED <<chan, task>> /\ pc[r] \in {"clear", "offline"}
          /\ \E w \in {"idle", "offline"} : pc' = [pc EXCEPT ![r] = w]
      BY <2>8 DEF ClearList, GoOffline, GoTo
    <3> QED BY <3>1 DEF Shape, Pc
  <2> QED BY <1>2, <2>1, <2>2, <2>3, <2>4, <2>5, <2>6, <2>7, <2>8 DEF RequestStep
<1> QED BY <1>1, <1>2 DEF Next

----------------------------------------------------------------------------
(* Counting *)

LEMMA CountsInit == Init => Counts
<1> SUFFICES ASSUME Init PROVE Counts
  OBVIOUS
<1>1. members = {} /\ Adding = {} /\ Removing = {} /\ scope.count = 0 /\ dropped = 0
  BY DEF Init, Adding, Removing
<1>2. Balance(0, {}, {}, {})
  BY FS_EmptySet DEF Balance
<1> QED BY <1>1, <1>2, CountsIsBalance DEF Numbers

\* removeDevice for one channel, command by command.
LEMMA RemoveCounts ==
    ASSUME Shape, Counts, NEW r \in Request, NEW c \in Channel, RemoveDevice(r, c)
    PROVE  Counts'
<1> DEFINE t == <<r, c>>
           Counted == {"cardPartition", "unindex", "cardIndex", "dropFilter", "decrement"}
<1>0. Numbers /\ Balance(scope.count + dropped, members, Adding, Removing)
  BY CountsIsBalance DEF Counts
<1>1. Adding' = Adding
  BY DEF RemoveDevice, RemoveMember, CardPartition, Unindex, CardIndex, DropFilter, CountDown,
         DropScope, Adding
<1>2. ASSUME NEW w \in Task, TaskTo(r, c, w)
      PROVE  /\ Removing' = IF w \in Counted THEN Removing \cup {t} ELSE Removing \ {t}
             /\ t \in Removing <=> task[r][c] \in Counted
  BY <1>2 DEF TaskTo, Removing, Shape
<1>3. ASSUME NEW w \in Task, TaskTo(r, c, w), UNCHANGED <<members, scope, dropped>>,
             w \in Counted <=> task[r][c] \in Counted
      PROVE  Counts'
  <2>1. Removing' = Removing
    BY <1>2, <1>3
  <2> QED BY <1>1, <1>3, <2>1, CountsKept
<1>4. CASE RemoveMember(r, c)
  <2>1. CASE <<c, dev[r]>> \in members
    <3>1. /\ members' = members \ {<<c, dev[r]>>} /\ UNCHANGED <<scope, dropped>>
          /\ task[r][c] = "remove" /\ TaskTo(r, c, "cardPartition")
      BY <1>4, <2>1 DEF RemoveMember
    <3>2. Removing' = Removing \cup {t} /\ t \notin Removing
      BY <1>2, <3>1 DEF Task
    <3>3. Balance(scope.count + dropped, members', Adding', Removing')
      BY <1>0, <1>1, <2>1, <3>1, <3>2, BalanceRemove
    <3> QED BY <1>0, <3>1, <3>3 DEF Balance, Counts, Finite, Numbers, CountedOnce, Adding, Removing
  <2>2. CASE <<c, dev[r]>> \notin members
    <3>1. UNCHANGED <<members, scope, dropped>> /\ task[r][c] = "remove" /\ TaskTo(r, c, "none")
      BY <1>4, <2>2 DEF RemoveMember
    <3> QED BY <1>3, <3>1 DEF Task
  <2> QED BY <2>1, <2>2
<1>5. CASE CardPartition(r, c) \/ Unindex(r, c) \/ CardIndex(r, c) \/ DropFilter(r, c)
  <2>1. /\ UNCHANGED <<members, scope, dropped>> /\ task[r][c] \in Counted
        /\ \E w \in Counted : TaskTo(r, c, w)
    BY <1>5 DEF CardPartition, Unindex, CardIndex, DropFilter, index
  <2> QED BY <1>3, <2>1 DEF Task
<1>6. CASE CountDown(r, c)
  <2>1. /\ scope'.count = scope.count - 1 /\ UNCHANGED <<members, dropped>>
        /\ task[r][c] = "decrement" /\ \E w \in {"dropScope", "none"} : TaskTo(r, c, w)
    BY <1>6 DEF CountDown
  <2>2. Removing' = Removing \ {t} /\ t \in Removing
    BY <1>2, <2>1 DEF Task
  <2>3. \A n, x : Balance(n, members, Adding, Removing) /\ x \in Removing
                    => Balance(n - 1, members, Adding, Removing \ {x})
    BY BalanceCountDown
  <2>4. Balance((scope.count + dropped) - 1, members, Adding, Removing \ {t})
    <3> DEFINE n == scope.count + dropped
    <3>1. Balance(n, members, Adding, Removing) /\ t \in Removing
      BY <1>0, <2>2
    <3> HIDE DEF n
    <3>2. Balance(n - 1, members, Adding, Removing \ {t})
      BY <2>3, <3>1, Zenon
    <3> QED BY <3>2, Zenon DEF n
  <2>5. scope'.count + dropped' = (scope.count + dropped) - 1 /\ Numbers'
    BY <1>0, <2>1 DEF Numbers
  <2>6. members' = members
    BY <2>1
  <2>7. Finite' /\ scope'.count + dropped'
                     = Cardinality(members') - Cardinality(Adding') + Cardinality(Removing')
    BY <1>1, <2>2, <2>4, <2>5, <2>6 DEF Balance, Finite
  <2> QED BY <2>5, <2>7 DEF Counts, CountedOnce, Adding, Removing
<1>7. CASE DropScope(r, c)
  <2>1. /\ scope'.count = 0 /\ dropped' = dropped + scope.count /\ UNCHANGED members
        /\ task[r][c] = "dropScope" /\ TaskTo(r, c, "none")
    BY <1>7 DEF DropScope
  <2>2. Removing' = Removing
    BY <1>2, <2>1 DEF Task
  <2>3. scope'.count + dropped' = scope.count + dropped /\ Numbers'
    BY <1>0, <2>1 DEF Numbers
  <2> QED BY <1>0, <1>1, <2>1, <2>2, <2>3 DEF Balance, Counts, Finite, CountedOnce, Adding, Removing
<1> QED BY <1>4, <1>5, <1>6, <1>7 DEF RemoveDevice

LEMMA CountsStep == Shape /\ Counts /\ [Next]_vars => Counts'
<1> SUFFICES ASSUME Shape, Counts, [Next]_vars PROVE Counts'
  OBVIOUS
<1>0. Numbers /\ Balance(scope.count + dropped, members, Adding, Removing)
  BY CountsIsBalance DEF Counts
<1>1. CASE UNCHANGED vars \/ \E d \in Device : Connect(d)
  <2>1. UNCHANGED <<members, scope, dropped, pc, task>>
    BY <1>1 DEF vars, requests, index, Connect
  <2> QED BY <2>1, CountsKept DEF Adding, Removing
<1>2. ASSUME NEW r \in Request, RequestStep(r) PROVE Counts'
  <2>1. ASSUME UNCHANGED <<members, scope, dropped, task>>,
               NEW w \in Pc \ {"index", "count"}, pc' = [pc EXCEPT ![r] = w],
               pc[r] \notin {"index", "count"}
        PROVE  Counts'
    BY <2>1, CountsKept DEF Adding, Removing, Shape
  <2>2. ASSUME NEW d \in Device, NEW c \in Channel, Subscribe(r, d, c) \/ Unsubscribe(r, d, c)
        PROVE  Counts'
    BY <2>1, <2>2 DEF Subscribe, Unsubscribe, Start, GoTo, index, Pc
  <2>3. CASE AppendEntry(r) \/ StoreFilter(r) \/ Removed(r) \/ ClearList(r) \/ GoOffline(r)
    <3>1. /\ UNCHANGED <<members, scope, dropped, task>>
          /\ pc[r] \notin {"index", "count"}
          /\ \E w \in {"add", "idle", "clear", "offline"} : pc' = [pc EXCEPT ![r] = w]
      BY <2>3 DEF AppendEntry, StoreFilter, Removed, ClearList, GoOffline, GoTo, index
    <3> QED BY <2>1, <3>1 DEF Pc
  <2>4. CASE AddMember(r)
    <3>1. CASE <<chan[r], dev[r]>> \in members
      <4>1. members' = members /\ UNCHANGED <<scope, dropped, task>> /\ pc[r] = "add"
            /\ pc' = [pc EXCEPT ![r] = "idle"]
        BY <2>4, <3>1 DEF AddMember, GoTo
      <4> QED BY <2>1, <4>1 DEF Pc
    <3>2. CASE <<chan[r], dev[r]>> \notin members
      <4>1. /\ members' = members \cup {<<chan[r], dev[r]>>} /\ UNCHANGED <<scope, dropped, task>>
            /\ pc[r] = "add" /\ pc' = [pc EXCEPT ![r] = "index"]
        BY <2>4, <3>2 DEF AddMember, GoTo
      <4>2. Adding' = Adding \cup {r} /\ r \notin Adding /\ Removing' = Removing
        BY <4>1 DEF Adding, Removing, Shape
      <4>3. Balance(scope.count + dropped, members', Adding', Removing')
        BY <1>0, <3>2, <4>1, <4>2, BalanceAdd
      <4> QED BY <1>0, <4>1, <4>3 DEF Balance, Counts, Finite, Numbers, CountedOnce, Adding, Removing
    <3> QED BY <3>1, <3>2
  <2>5. CASE IndexPartition(r)
    <3>1. /\ UNCHANGED <<members, scope, dropped, task>>
          /\ pc[r] = "index" /\ pc' = [pc EXCEPT ![r] = "count"]
      BY <2>5 DEF IndexPartition, GoTo
    <3> QED BY <3>1, CountsKept DEF Adding, Removing, Shape
  <2>6. CASE CountUp(r)
    <3>1. /\ scope'.count = scope.count + 1 /\ UNCHANGED <<members, dropped, task>>
          /\ pc[r] = "count" /\ \E w \in {"filter", "idle"} : pc' = [pc EXCEPT ![r] = w]
      BY <2>6 DEF CountUp, GoTo
    <3>2. Adding' = Adding \ {r} /\ r \in Adding /\ Removing' = Removing
      BY <3>1 DEF Adding, Removing, Shape
    <3>3. Balance(scope.count + dropped + 1, members', Adding', Removing')
      BY <1>0, <3>1, <3>2, BalanceCountUp
    <3>4. scope'.count + dropped' = scope.count + dropped + 1 /\ Numbers'
      BY <1>0, <3>1 DEF Numbers
    <3> QED BY <3>3, <3>4 DEF Balance, Counts, Finite, CountedOnce, Adding, Removing
  <2>7. CASE PopEntry(r)
    <3>1. /\ UNCHANGED <<members, scope, dropped>> /\ pc[r] = "pop"
          /\ pc' = [pc EXCEPT ![r] = "removing"] /\ task' = [task EXCEPT ![r][chan[r]] = "remove"]
      BY <2>7 DEF PopEntry, GoTo, TaskTo, index
    <3>2. Adding' = Adding
      BY <3>1 DEF Adding, Shape
    <3>3. Removing' = Removing
      BY <3>1 DEF Removing, Shape
    <3> QED BY <3>1, <3>2, <3>3, CountsKept
  <2>8. ASSUME NEW d \in Device, Disconnect(r, d) PROVE Counts'
    <3>1. /\ UNCHANGED <<members, scope, dropped>> /\ pc[r] = "idle"
          /\ pc' = [pc EXCEPT ![r] = "cleanup"]
          /\ task' = [task EXCEPT ![r] = [c \in Channel |->
                   IF connected[d] /\ Contains(list[d], c) THEN "remove" ELSE "none"]]
      BY <2>8 DEF Disconnect, Start, GoTo, index
    <3>2. Adding' = Adding
      BY <3>1 DEF Adding, Shape
    <3>3. Removing' = Removing
      BY <3>1 DEF Removing, Shape
    <3> QED BY <3>1, <3>2, <3>3, CountsKept
  <2>9. ASSUME NEW c \in Channel, RemoveDevice(r, c) PROVE Counts'
    BY <2>9, RemoveCounts
  <2> QED BY <1>2, <2>2, <2>3, <2>4, <2>5, <2>6, <2>7, <2>8, <2>9 DEF RequestStep
<1> QED BY <1>1, <1>2 DEF Next

\* "bail so we don't double-count the scope HINCRBY": apart from what HDEL throws away, the
\* counter of the scope is exact, over any number of devices, channels and requests.
THEOREM MembersCountedOnce == Spec => []CountedOnce
<1>1. Shape /\ Counts => CountedOnce
  BY DEF Counts
<1> QED BY <1>1, ShapeInit, ShapeStep, CountsInit, CountsStep, PTL DEF Spec

----------------------------------------------------------------------------
(* The index while requests come one at a time *)

\* The subscriptions of d about to be listed.
Appending(d) == {q \in Request : pc[q] = "append" /\ dev[q] = d}

\* Types, beyond Shape.
Typed ==
    /\ socket \in [Device -> BOOLEAN] /\ connected \in [Device -> BOOLEAN]
    /\ list \in [Device -> Seq(Channel)]
    /\ members \subseteq Channel \X Device /\ partitions \subseteq Channel \X Partition
    /\ scope \in [present : BOOLEAN, count : Int] /\ dropped \in Int
    /\ filters \subseteq Filtered
    /\ dev \in [Request -> Device] /\ position \in [Request -> Nat]
    /\ overlapped \in 0..MaxOverlaps
    /\ \A r \in Request : /\ pc[r] = "filter" => chan[r] \in Filtered
                          /\ pc[r] = "pop" => position[r] >= 1

\* A list keeps room for what is about to be appended.
Room ==
    \A d \in Device :
        /\ IsFiniteSet(Appending(d))
        /\ Len(list[d]) + Cardinality(Appending(d)) <= MaxList

Distinct(l) == \A i, j \in 1..Len(l) : l[i] = l[j] => i = j

\* The request is the one in flight, if any is.
Only(r) == \A q \in Request : pc[q] # "idle" => q = r

\* The member that r adds or removes.
Its(r) == <<chan[r], dev[r]>>

Documents ==
    \A d \in Device : Distinct(list[d]) /\ (list[d] # <<>> => connected[d])

\* What r relies on in the document of its device.
DocumentAt(r) ==
    LET l == list[dev[r]] IN
    /\ pc[r] = "append" => connected[dev[r]] /\ ~Contains(l, chan[r])
    /\ pc[r] \in {"add", "index", "count", "filter"} => Contains(l, chan[r])
    /\ pc[r] = "pop" => position[r] \in 1..Len(l) /\ l[position[r]] = chan[r]
    /\ pc[r] = "removing" => \A c \in Channel : task[r][c] = "remove" => ~Contains(l, c)
    /\ pc[r] = "offline" => l = <<>>

\* Members are what the lists say, but for what r has yet to add or remove.
MembersAt(r) ==
    \A c \in Channel, d \in Device :
        <<c, d>> \in members <=>
            \/ pc[r] = "removing" /\ d = dev[r] /\ task[r][c] = "remove"
            \/ /\ Contains(list[d], c)
               /\ pc[r] = "add" => <<c, d>> # Its(r)
               /\ pc[r] \in {"cleanup", "clear"} /\ d = dev[r] => task[r][c] = "remove"

\* A partition is indexed if it has a member, but for what r has yet to do.
PartitionsAt(r) ==
    /\ \A c \in Channel, p \in Partition :
          <<c, p>> \in partitions <=>
              \/ \E d \in Device : /\ <<c, d>> \in members /\ PartitionOf[d] = p
                                   /\ pc[r] = "index" => <<c, d>> # Its(r)
              \/ task[r][c] \in {"cardPartition", "unindex"} /\ PartitionOf[dev[r]] = p
    /\ \A c \in Channel : task[r][c] = "unindex" =>
          \A d \in Device : <<c, d>> \in members => PartitionOf[d] # PartitionOf[dev[r]]

\* A filter is stored if its channel has a member, but for what r has yet to do.
FiltersAt(r) ==
    /\ \A c \in Channel :
          c \in filters <=>
              /\ c \in Filtered
              /\ \/ \E d \in Device : /\ <<c, d>> \in members
                                      /\ pc[r] \in {"index", "count", "filter"} => <<c, d>> # Its(r)
                 \/ task[r][c] \in {"cardPartition", "unindex", "cardIndex", "dropFilter"}
    /\ \A c \in Channel : task[r][c] = "dropFilter" => \A d \in Device : <<c, d>> \notin members

\* The counter is there while it counts something, but for what r has yet to drop.
ScopeAt(r) ==
    /\ dropped = 0 /\ scope.count >= 0
    /\ scope.count > 0 => scope.present
    /\ scope.present => scope.count > 0 \/ \E c \in Channel : task[r][c] = "dropScope"
    /\ \A c \in Channel : task[r][c] = "dropScope" => scope.count = 0

IndexAt(r) == DocumentAt(r) /\ MembersAt(r) /\ PartitionsAt(r) /\ FiltersAt(r) /\ ScopeAt(r)

OneAtATime ==
    overlapped = 0 =>
        /\ \E r \in Request : Only(r)
        /\ Documents
        /\ \A r \in Request : Only(r) => IndexAt(r)
----------------------------------------------------------------------------
(* Sequences *)

LEMMA LeastIn == ASSUME NEW I \in SUBSET Nat, I # {} PROVE Min(I) \in I
<1>1. PICK x \in I : \A y \in I : ~(<<y, x>> \in OpToRel(<, Nat))
  BY NatLessThanWellFounded, WFMin, Zenon
<1>2. \A y \in I : ~(y < x)
  BY <1>1 DEF OpToRel
<1>3. \E m \in I : \A y \in I : m =< y
  BY <1>2
<1> QED BY <1>3 DEF Min

\* The index hasSubscription finds.
IndexIn(l, c) == SelectInSeq(l, LAMBDA x : x = c)

LEMMA PositionOf ==
    ASSUME NEW l \in Seq(Channel), NEW c \in Channel, Contains(l, c)
    PROVE  IndexIn(l, c) \in 1..Len(l) /\ l[IndexIn(l, c)] = c
<1> DEFINE I == {i \in 1..Len(l) : l[i] = c}
<1>1. I # {} /\ I \in SUBSET Nat
  BY DEF Contains
<1>2. IndexIn(l, c) = Min(I)
  BY <1>1 DEF IndexIn, SelectInSeq
<1>3. Min(I) \in I
  BY <1>1, LeastIn
<1> QED BY <1>2, <1>3

\* A list that gains an entry at its end.
LEMMA AppendedList ==
    ASSUME NEW l \in Seq(Channel), NEW c \in Channel
    PROVE  /\ Append(l, c) \in Seq(Channel) /\ Len(Append(l, c)) = Len(l) + 1
           /\ \A x \in Channel : Contains(Append(l, c), x) <=> Contains(l, x) \/ x = c
           /\ Distinct(l) /\ ~Contains(l, c) => Distinct(Append(l, c))
<1>1. /\ Append(l, c) \in Seq(Channel) /\ Len(Append(l, c)) = Len(l) + 1
      /\ \A i \in 1..Len(l) : Append(l, c)[i] = l[i]
      /\ Append(l, c)[Len(l) + 1] = c /\ Len(l) \in Nat
  BY AppendProperties
<1> DEFINE m == Append(l, c)
<1> HIDE DEF m
<1>2. /\ m \in Seq(Channel) /\ Len(m) = Len(l) + 1 /\ Len(l) \in Nat
      /\ \A i \in 1..Len(l) : m[i] = l[i]
      /\ m[Len(l) + 1] = c
  BY <1>1 DEF m
<1>3. \A x \in Channel : Contains(m, x) <=> Contains(l, x) \/ x = c
  <2> SUFFICES ASSUME NEW x \in Channel PROVE Contains(m, x) <=> Contains(l, x) \/ x = c
    OBVIOUS
  <2>1. ASSUME Contains(m, x) PROVE Contains(l, x) \/ x = c
    BY <1>2, <2>1 DEF Contains
  <2>2. ASSUME Contains(l, x) PROVE Contains(m, x)
    BY <1>2, <2>2 DEF Contains
  <2>3. ASSUME x = c PROVE Contains(m, x)
    BY <1>2, <2>3 DEF Contains
  <2> QED BY <2>1, <2>2, <2>3
<1>4. Distinct(l) /\ ~Contains(l, c) => Distinct(m)
  BY <1>2 DEF Distinct, Contains
<1> QED BY <1>2, <1>3, <1>4 DEF m

\* A list that loses the entry at i.
LEMMA RemovedFrom ==
    ASSUME NEW l \in Seq(Channel), NEW i \in 1..Len(l)
    PROVE  /\ RemoveAt(l, i) \in Seq(Channel) /\ Len(RemoveAt(l, i)) = Len(l) - 1
           /\ Distinct(l) => /\ Distinct(RemoveAt(l, i))
                             /\ \A x \in Channel :
                                   Contains(RemoveAt(l, i), x) <=> Contains(l, x) /\ x # l[i]
<1> DEFINE a == SubSeq(l, 1, i - 1)
           b == SubSeq(l, i + 1, Len(l))
           m == RemoveAt(l, i)
           n == Len(l)
<1>0. n \in Nat /\ i \in 1..n
  OBVIOUS
<1>1. /\ a \in Seq(Channel) /\ Len(a) = i - 1
      /\ \A k \in 1..(i - 1) : a[k] = l[k]
  <2>1. 1 \in 1..(n + 1) /\ i - 1 \in 0..n
    BY <1>0
  <2> QED BY <1>0, <2>1, SubSeqProperties
<1>2. /\ b \in Seq(Channel) /\ Len(b) = n - i
      /\ \A k \in 1..(n - i) : b[k] = l[i + k]
  <2>1. i + 1 \in 1..(n + 1) /\ n \in 0..n
    BY <1>0
  <2> QED BY <1>0, <2>1, SubSeqProperties
<1>3. m = a \o b
  BY DEF RemoveAt
<1> HIDE DEF a, b, m, n
<1>4. /\ m \in Seq(Channel) /\ Len(m) = n - 1
      /\ \A k \in 1..(n - 1) : m[k] = IF k <= i - 1 THEN a[k] ELSE b[k - (i - 1)]
  <2>1. Len(a) + Len(b) = n - 1
    BY <1>0, <1>1, <1>2
  <2>2. /\ m \in Seq(Channel) /\ Len(m) = Len(a) + Len(b)
        /\ \A k \in 1..(Len(a) + Len(b)) : m[k] = IF k <= Len(a) THEN a[k] ELSE b[k - Len(a)]
    BY <1>1, <1>2, <1>3, ConcatProperties
  <2> QED BY <1>1, <2>1, <2>2
<1>5. \A k \in 1..(n - 1) : m[k] = IF k < i THEN l[k] ELSE l[k + 1]
  BY <1>0, <1>1, <1>2, <1>4
<1>6. ASSUME Distinct(l)
      PROVE  Distinct(m) /\ \A x \in Channel : Contains(m, x) <=> Contains(l, x) /\ x # l[i]
  <2>1. \A j, k \in 1..n : l[j] = l[k] => j = k
    BY <1>6 DEF Distinct, n
  <2>2. Distinct(m)
    BY <1>0, <1>4, <1>5, <2>1 DEF Distinct
  <2>3. ASSUME NEW x \in Channel, Contains(m, x) PROVE Contains(l, x) /\ x # l[i]
    <3>1. PICK k \in 1..(n - 1) : m[k] = x
      BY <1>4, <2>3 DEF Contains
    <3>2. PICK j \in 1..n : j # i /\ l[j] = x
      <4>1. k \in 1..n /\ k + 1 \in 1..n /\ (k < i => k # i) /\ (~(k < i) => k + 1 # i)
        BY <1>0, <3>1
      <4> QED BY <1>5, <3>1, <4>1
    <3> QED BY <1>0, <2>1, <3>2 DEF Contains, n
  <2>4. ASSUME NEW x \in Channel, Contains(l, x), x # l[i] PROVE Contains(m, x)
    <3>1. PICK j \in 1..n : l[j] = x /\ j # i
      BY <2>4 DEF Contains, n
    <3>2. CASE j < i
      <4>1. j \in 1..(n - 1) /\ m[j] = x
        BY <1>0, <1>5, <3>1, <3>2
      <4> QED BY <1>4, <4>1 DEF Contains
    <3>3. CASE j > i
      <4>1. j - 1 \in 1..(n - 1) /\ m[j - 1] = x
        BY <1>0, <1>5, <3>1, <3>3
      <4> QED BY <1>4, <4>1 DEF Contains
    <3> QED BY <1>0, <3>1, <3>2, <3>3
  <2> QED BY <2>2, <2>3, <2>4
<1> QED BY <1>4, <1>6 DEF m, n

----------------------------------------------------------------------------
(* Types *)

LEMMA TypedInit == Init => Typed
<1> SUFFICES ASSUME Init PROVE Typed
  OBVIOUS
<1>1. (CHOOSE d \in Device : TRUE) \in Device
  BY IndexAssumption
<1>2. list \in [Device -> Seq(Channel)] /\ position \in [Request -> Nat]
  BY DEF Init
<1> QED BY <1>1, <1>2, IndexAssumption DEF Init, Typed

LEMMA OverlapType == ASSUME Typed, NEW r \in Request, Start(r) PROVE overlapped' \in 0..MaxOverlaps
BY IndexAssumption DEF Start, Typed

LEMMA TypedStep == Shape /\ Typed /\ [Next]_vars => Typed'
<1> SUFFICES ASSUME Shape, Typed, [Next]_vars PROVE Typed'
  OBVIOUS
<1> USE DEF Shape, Typed
<1>1. CASE UNCHANGED vars \/ \E d \in Device : Connect(d)
  <2>1. CASE UNCHANGED vars
    BY <2>1 DEF vars, documents, index, requests
  <2>2. ASSUME NEW d \in Device, Connect(d) PROVE Typed'
    BY <2>2 DEF Connect, index, requests
  <2> QED BY <1>1, <2>1, <2>2
<1>2. ASSUME NEW r \in Request, RequestStep(r) PROVE Typed'
  <2>1. ASSUME NEW d \in Device, NEW c \in Channel, Subscribe(r, d, c) PROVE Typed'
    BY <2>1, OverlapType DEF Subscribe, GoTo, documents, index
  <2>2. ASSUME NEW d \in Device, NEW c \in Channel, Unsubscribe(r, d, c) PROVE Typed'
    <3>1. IndexIn(list[d], c) \in Nat /\ IndexIn(list[d], c) >= 1
      <4>1. list[d] \in Seq(Channel) /\ Contains(list[d], c)
        BY <2>2 DEF Unsubscribe
      <4> QED BY <4>1, PositionOf
    <3>2. position' = [position EXCEPT ![r] = IndexIn(list[d], c)]
      BY <2>2 DEF Unsubscribe, IndexIn, SelectInSeq
    <3>3. position' \in [Request -> Nat] /\ position'[r] >= 1
      BY <3>1, <3>2
    <3> QED BY <2>2, <3>2, <3>3, OverlapType DEF Unsubscribe, GoTo, documents, index
  <2>3. CASE AppendEntry(r)
    <3>1. Append(list[dev[r]], chan[r]) \in Seq(Channel)
      BY AppendProperties
    <3> QED BY <2>3, <3>1 DEF AppendEntry, GoTo, index
  <2>4. CASE AddMember(r)
    BY <2>4 DEF AddMember, GoTo, documents
  <2>5. CASE IndexPartition(r)
    BY <2>5, IndexAssumption DEF IndexPartition, GoTo, documents
  <2>6. CASE CountUp(r)
    BY <2>6 DEF CountUp, GoTo, documents
  <2>7. CASE StoreFilter(r)
    BY <2>7 DEF StoreFilter, GoTo, documents
  <2>8. CASE PopEntry(r)
    <3> DEFINE l == list[dev[r]]
               i == IF position[r] <= Len(l) THEN position[r] ELSE Len(l)
    <3>1. list' = [list EXCEPT ![dev[r]] = IF l = <<>> THEN l ELSE RemoveAt(l, i)]
      BY <2>8 DEF PopEntry
    <3>2. l \in Seq(Channel) /\ (l # <<>> => i \in 1..Len(l))
      BY <2>8 DEF PopEntry
    <3>3. (IF l = <<>> THEN l ELSE RemoveAt(l, i)) \in Seq(Channel)
      BY <3>2, RemovedFrom
    <3>4. list' \in [Device -> Seq(Channel)]
      BY <3>1, <3>3
    <3> QED BY <2>8, <3>4 DEF PopEntry, GoTo, index
  <2>9. ASSUME NEW c \in Channel, RemoveDevice(r, c) PROVE Typed'
    <3>1. UNCHANGED <<documents, pc, dev, overlapped, chan, position>>
      BY <2>9 DEF RemoveDevice, RemoveMember, CardPartition, Unindex, CardIndex, DropFilter,
                  CountDown, DropScope
    <3>0. /\ members' = members \/ members' = members \ {<<c, dev[r]>>}
          /\ partitions' = partitions \/ partitions' = partitions \ {<<c, PartitionOf[dev[r]]>>}
          /\ filters' = filters \/ filters' = filters \ {c}
      BY <2>9, Zenon DEF RemoveDevice, RemoveMember, CardPartition, Unindex, CardIndex, DropFilter,
                         CountDown, DropScope, index
    <3>2. scope' \in [present : BOOLEAN, count : Int] /\ dropped' \in Int
      <4>0. scope.count \in Int /\ dropped \in Int
        OBVIOUS
      <4>1. CASE CountDown(r, c) \/ DropScope(r, c)
        <5>1. CASE CountDown(r, c)
          BY <4>0, <5>1 DEF CountDown
        <5>2. CASE DropScope(r, c)
          BY <4>0, <5>2 DEF DropScope
        <5> QED BY <4>1, <5>1, <5>2
      <4>2. CASE ~(CountDown(r, c) \/ DropScope(r, c))
        BY <2>9, <4>2 DEF RemoveDevice, RemoveMember, CardPartition, Unindex, CardIndex, DropFilter,
                          index
      <4> QED BY <4>1, <4>2
    <3> QED BY <3>1, <3>0, <3>2 DEF documents
  <2>10. CASE Removed(r)
    BY <2>10 DEF Removed, GoTo, documents, index
  <2>11. ASSUME NEW d \in Device, Disconnect(r, d) PROVE Typed'
    BY <2>11, OverlapType DEF Disconnect, GoTo, index
  <2>12. CASE ClearList(r)
    BY <2>12 DEF ClearList, GoTo, index
  <2>13. CASE GoOffline(r)
    BY <2>13 DEF GoOffline, GoTo, index
  <2> QED BY <1>2, <2>1, <2>2, <2>3, <2>4, <2>5, <2>6, <2>7, <2>8, <2>9, <2>10, <2>11, <2>12, <2>13
          DEF RequestStep
<1> QED BY <1>1, <1>2 DEF Next

----------------------------------------------------------------------------
(* The length of a list *)

RoomFor(d) == IsFiniteSet(Appending(d)) /\ Len(list[d]) + Cardinality(Appending(d)) <= MaxList

LEMMA RoomInit == Init => Room
<1> SUFFICES ASSUME Init, NEW d \in Device PROVE RoomFor(d)
  BY DEF Room, RoomFor
<1>1. Appending(d) = {} /\ list[d] = <<>>
  BY DEF Init, Appending
<1> QED BY <1>1, FS_EmptySet, IndexAssumption DEF RoomFor

\* Most steps append nothing, and no list grows.
LEMMA RoomKept ==
    ASSUME Typed, Room, NEW d \in Device, Appending(d)' = Appending(d),
           list'[d] \in Seq(Channel), Len(list'[d]) <= Len(list[d])
    PROVE  RoomFor(d)'
<1>1. RoomFor(d) /\ Cardinality(Appending(d)) \in Nat
  BY FS_CardinalityType DEF Room, RoomFor
<1>2. Len(list[d]) \in Nat /\ Len(list'[d]) \in Nat
  BY DEF Typed
<1> QED BY <1>1, <1>2, IndexAssumption DEF RoomFor

LEMMA RoomStep == Shape /\ Typed /\ Room /\ [Next]_vars => Room'
<1> SUFFICES ASSUME Shape, Typed, Room, [Next]_vars, NEW e \in Device PROVE RoomFor(e)'
  BY DEF Room, RoomFor
<1>0. list[e] \in Seq(Channel)
  BY DEF Typed
<1>1. ASSUME UNCHANGED <<list, pc, dev>> PROVE RoomFor(e)'
  BY <1>0, <1>1, RoomKept DEF Appending
<1>2. ASSUME NEW r \in Request, NEW w \in Pc \ {"append"}, pc' = [pc EXCEPT ![r] = w],
             pc[r] # "append", \A q \in Request \ {r} : dev'[q] = dev[q]
      PROVE  Appending(e)' = Appending(e)
  BY <1>2 DEF Shape, Appending
<1>3. CASE UNCHANGED vars \/ \E d \in Device : Connect(d)
  BY <1>1, <1>3 DEF vars, documents, requests, Connect
<1>4. ASSUME NEW r \in Request, RequestStep(r) PROVE RoomFor(e)'
  <2>1. ASSUME NEW d \in Device, NEW c \in Channel, Subscribe(r, d, c) PROVE RoomFor(e)'
    <3>1. /\ pc[r] = "idle" /\ pc' = [pc EXCEPT ![r] = "append"] /\ dev' = [dev EXCEPT ![r] = d]
          /\ Len(list[d]) + Cardinality(Appending(d)) < MaxList /\ UNCHANGED list
      BY <2>1 DEF Subscribe, Start, GoTo, Appending, documents
    <3>2. CASE e = d
      <4>1. Appending(d)' = Appending(d) \cup {r} /\ r \notin Appending(d)
        BY <3>1 DEF Appending, Shape, Typed
      <4>2. IsFiniteSet(Appending(d)')
            /\ Cardinality(Appending(d)') = Cardinality(Appending(d)) + 1
        BY <4>1, FS_AddElement DEF Room
      <4>3. Cardinality(Appending(d)) \in Nat /\ Len(list[d]) \in Nat
        BY FS_CardinalityType DEF Room, Typed
      <4> QED BY <3>1, <3>2, <4>2, <4>3, IndexAssumption DEF RoomFor
    <3>3. CASE e # d
      <4>1. Appending(e)' = Appending(e)
        BY <3>1, <3>3 DEF Appending, Shape, Typed
      <4> QED BY <1>0, <3>1, <4>1, RoomKept DEF Typed
    <3> QED BY <3>2, <3>3
  <2>2. CASE AppendEntry(r)
    <3>1. /\ pc[r] = "append" /\ pc' = [pc EXCEPT ![r] = "add"] /\ UNCHANGED dev
          /\ list' = [list EXCEPT ![dev[r]] = Append(@, chan[r])]
      BY <2>2 DEF AppendEntry, GoTo
    <3>2. CASE e = dev[r]
      <4>1. Appending(e)' = Appending(e) \ {r} /\ r \in Appending(e)
        BY <3>1, <3>2 DEF Appending, Shape
      <4>2. IsFiniteSet(Appending(e)')
            /\ Cardinality(Appending(e)') = Cardinality(Appending(e)) - 1
        BY <4>1, FS_RemoveElement DEF Room
      <4>3. Cardinality(Appending(e)) \in Nat /\ Len(list[e]) \in Nat
        BY <1>0, FS_CardinalityType DEF Room
      <4>4. list'[e] = Append(list[e], chan[r])
        BY <3>1, <3>2 DEF Typed
      <4>5. Len(list'[e]) = Len(list[e]) + 1
        BY <1>0, <4>4, AppendedList DEF Shape
      <4>6. RoomFor(e)
        BY DEF Room, RoomFor
      <4> QED BY <4>2, <4>3, <4>5, <4>6, IndexAssumption DEF RoomFor
    <3>3. CASE e # dev[r]
      <4>1. Appending(e)' = Appending(e) /\ list'[e] = list[e]
        BY <3>1, <3>3 DEF Appending, Shape, Typed
      <4> QED BY <1>0, <4>1, RoomKept DEF Typed
    <3> QED BY <3>2, <3>3
  <2>3. ASSUME NEW d \in Device, NEW c \in Channel, Unsubscribe(r, d, c) PROVE RoomFor(e)'
    <3>1. UNCHANGED list
      BY <2>3 DEF Unsubscribe, documents
    <3>2. Appending(e)' = Appending(e)
      BY <1>2, <2>3 DEF Unsubscribe, Start, GoTo, Typed, Pc
    <3> QED BY <1>0, <3>1, <3>2, RoomKept
  <2>4. ASSUME NEW d \in Device, Disconnect(r, d) PROVE RoomFor(e)'
    <3>1. UNCHANGED list
      BY <2>4 DEF Disconnect
    <3>2. Appending(e)' = Appending(e)
      BY <1>2, <2>4 DEF Disconnect, Start, GoTo, Typed, Pc
    <3> QED BY <1>0, <3>1, <3>2, RoomKept
  <2>5. CASE \/ AddMember(r) \/ IndexPartition(r) \/ CountUp(r) \/ StoreFilter(r)
             \/ Removed(r) \/ GoOffline(r)
    <3>1. /\ UNCHANGED <<list, dev>> /\ pc[r] # "append"
          /\ \E w \in {"index", "count", "filter", "idle", "clear"} : pc' = [pc EXCEPT ![r] = w]
      BY <2>5 DEF AddMember, IndexPartition, CountUp, StoreFilter, Removed, GoOffline, GoTo, documents
    <3>2. Appending(e)' = Appending(e)
      BY <1>2, <3>1 DEF Pc
    <3> QED BY <1>0, <3>1, <3>2, RoomKept
  <2>6. CASE PopEntry(r)
    <3> DEFINE l == list[dev[r]]
               i == IF position[r] <= Len(l) THEN position[r] ELSE Len(l)
    <3>1. /\ list' = [list EXCEPT ![dev[r]] = IF l = <<>> THEN l ELSE RemoveAt(l, i)]
          /\ pc[r] = "pop" /\ pc' = [pc EXCEPT ![r] = "removing"] /\ UNCHANGED dev
      BY <2>6 DEF PopEntry, GoTo
    <3>2. Appending(e)' = Appending(e)
      BY <1>2, <3>1 DEF Pc
    <3>3. l \in Seq(Channel) /\ (l # <<>> => i \in 1..Len(l)) /\ dev[r] \in Device
      BY <3>1 DEF Typed
    <3>4. l # <<>> => RemoveAt(l, i) \in Seq(Channel) /\ Len(RemoveAt(l, i)) = Len(l) - 1
      BY <3>3, RemovedFrom
    <3> HIDE DEF i
    <3>5. list'[e] \in Seq(Channel) /\ Len(list'[e]) <= Len(list[e])
      <4>1. CASE e = dev[r]
        <5>1. list'[e] = IF l = <<>> THEN l ELSE RemoveAt(l, i)
          BY <3>1, <4>1 DEF Typed
        <5>2. Len(l) \in Nat
          BY <3>3
        <5> QED BY <3>3, <3>4, <4>1, <5>1, <5>2
      <4>2. CASE e # dev[r]
        <5>1. list'[e] = list[e]
          BY <3>1, <4>2 DEF Typed
        <5> QED BY <1>0, <5>1
      <4> QED BY <4>1, <4>2
    <3> QED BY <3>2, <3>5, RoomKept
  <2>7. CASE ClearList(r)
    <3>1. /\ list' = [list EXCEPT ![dev[r]] = <<>>] /\ UNCHANGED dev
          /\ pc[r] = "clear" /\ pc' = [pc EXCEPT ![r] = "offline"]
      BY <2>7 DEF ClearList, GoTo
    <3>2. Appending(e)' = Appending(e)
      BY <1>2, <3>1 DEF Pc
    <3>3. list'[e] = list[e] \/ list'[e] = <<>>
      BY <3>1 DEF Typed
    <3>4. list'[e] \in Seq(Channel) /\ Len(list'[e]) <= Len(list[e])
      <4>1. CASE list'[e] = list[e]
        BY <1>0, <4>1
      <4>2. CASE list'[e] = <<>>
        <5>1. list'[e] \in Seq(Channel) /\ Len(list'[e]) = 0
          BY <4>2
        <5>2. Len(list[e]) \in Nat
          BY <1>0
        <5> QED BY <5>1, <5>2
      <4> QED BY <3>3, <4>1, <4>2
    <3> QED BY <3>2, <3>4, RoomKept
  <2>8. ASSUME NEW c \in Channel, RemoveDevice(r, c) PROVE RoomFor(e)'
    <3>1. UNCHANGED <<list, pc, dev>>
      BY <2>8 DEF RemoveDevice, RemoveMember, CardPartition, Unindex, CardIndex, DropFilter,
                  CountDown, DropScope, documents
    <3> QED BY <1>1, <3>1
  <2> QED BY <1>4, <2>1, <2>2, <2>3, <2>4, <2>5, <2>6, <2>7, <2>8 DEF RequestStep
<1> QED BY <1>3, <1>4 DEF Next

\* Type correctness: whatever requests do to each other, every entry of every Redis
\* structure names a channel, a device or a partition of the scope, filters are kept
\* for filtered channels only, and no list outgrows what was admitted to it.
THEOREM TypeCorrect == Spec => []TypeOK
<1>1. Shape /\ Typed /\ Room => TypeOK
  <2> SUFFICES ASSUME Shape, Typed, Room PROVE TypeOK
    OBVIOUS
  <2>1. ASSUME NEW d \in Device PROVE list[d] \in Seq(Channel) /\ Len(list[d]) <= MaxList
    <3>1. /\ list[d] \in Seq(Channel) /\ Len(list[d]) \in Nat /\ Cardinality(Appending(d)) \in Nat
          /\ Len(list[d]) + Cardinality(Appending(d)) <= MaxList
      BY FS_CardinalityType DEF Typed, Room
    <3> QED BY <3>1, IndexAssumption
  <2> QED BY <2>1 DEF Shape, Typed, TypeOK
<1> QED BY <1>1, ShapeInit, ShapeStep, TypedInit, TypedStep, RoomInit, RoomStep, PTL DEF Spec

----------------------------------------------------------------------------
(* One request at a time: the steps that leave the index alone *)

\* What a request works on that has nothing pending in the index.
Idles(r) == pc[r] \notin {"index", "count", "filter"} /\ \A c \in Channel : task[r][c] \in {"none", "remove"}

LEMMA IndexKept ==
    ASSUME NEW r \in Request, UNCHANGED <<members, partitions, filters, scope, dropped>>,
           Idles(r), Idles(r)', PartitionsAt(r), FiltersAt(r), ScopeAt(r)
    PROVE  PartitionsAt(r)' /\ FiltersAt(r)' /\ ScopeAt(r)'
<1>0. \A c \in Channel : /\ task[r][c] \notin {"cardPartition", "unindex"}
                         /\ task'[r][c] \notin {"cardPartition", "unindex"}
  BY DEF Idles
<1>1. PartitionsAt(r)'
  <2>1. pc[r] # "index" /\ pc'[r] # "index"
    BY DEF Idles
  <2>2. ASSUME NEW c \in Channel, NEW p \in Partition
        PROVE  <<c, p>> \in partitions <=> \E d \in Device : <<c, d>> \in members /\ PartitionOf[d] = p
    <3>1. <<c, p>> \in partitions <=>
              \/ \E d \in Device : /\ <<c, d>> \in members /\ PartitionOf[d] = p
                                   /\ pc[r] = "index" => <<c, d>> # Its(r)
              \/ task[r][c] \in {"cardPartition", "unindex"} /\ PartitionOf[dev[r]] = p
      BY Zenon DEF PartitionsAt
    <3>2. task[r][c] \notin {"cardPartition", "unindex"}
      BY <1>0
    <3> QED BY <2>1, <3>1, <3>2, Zenon
  <2>3. \A c \in Channel : task'[r][c] # "unindex"
    BY <1>0
  <2>4. ASSUME NEW c \in Channel, NEW p \in Partition
        PROVE  (<<c, p>> \in partitions)' <=>
              \/ \E d \in Device : /\ <<c, d>> \in members' /\ PartitionOf[d] = p
                                   /\ pc'[r] = "index" => <<c, d>> # Its(r)'
              \/ task'[r][c] \in {"cardPartition", "unindex"} /\ PartitionOf[dev'[r]] = p
    <3>1. task'[r][c] \notin {"cardPartition", "unindex"}
      BY <1>0
    <3>2. (<<c, p>> \in partitions)' <=> <<c, p>> \in partitions
      OBVIOUS
    <3>3. members' = members
      OBVIOUS
    <3> QED BY <2>1, <2>2, <3>1, <3>2, <3>3, Zenon
  <2> QED BY <2>3, <2>4, Zenon DEF PartitionsAt
<1>2. FiltersAt(r)'
  BY DEF FiltersAt, Idles
<1>3. ScopeAt(r)'
  BY DEF ScopeAt, Idles
<1> QED BY <1>1, <1>2, <1>3

\* Once no request is in flight, what is so for one is so for any.
LEMMA IdleIsIdle ==
    ASSUME Shape', NEW r \in Request, NEW q \in Request, pc'[r] = "idle", pc'[q] = "idle", IndexAt(r)'
    PROVE  IndexAt(q)'
<1>1. \A c \in Channel : task'[r][c] = "none" /\ task'[q][c] = "none"
  BY DEF Shape
<1>2. DocumentAt(q)'
  BY DEF DocumentAt
<1>3. MembersAt(q)'
  BY <1>1 DEF IndexAt, MembersAt
<1>4. PartitionsAt(q)'
  BY <1>1 DEF IndexAt, PartitionsAt
<1>5. FiltersAt(q)'
  BY <1>1 DEF IndexAt, FiltersAt
<1>6. ScopeAt(q)'
  BY <1>1 DEF IndexAt, ScopeAt
<1> QED BY <1>2, <1>3, <1>4, <1>5, <1>6 DEF IndexAt

LEMMA SubscribeIndex ==
    ASSUME Shape, Typed, Documents, NEW r \in Request, IndexAt(r),
           NEW d \in Device, NEW c \in Channel, Subscribe(r, d, c)
    PROVE  Documents' /\ IndexAt(r)'
<1>1. /\ pc[r] = "idle" /\ pc'[r] = "append" /\ dev'[r] = d /\ chan'[r] = c
      /\ UNCHANGED <<members, partitions, filters, scope, dropped, list, connected, task>>
      /\ connected[d] /\ ~Contains(list[d], c) /\ \A x \in Channel : task[r][x] = "none"
  BY DEF Subscribe, Start, GoTo, documents, index, Shape, Typed
<1>2. Documents'
  BY <1>1 DEF Documents
<1>3. DocumentAt(r)'
  BY <1>1 DEF DocumentAt
<1>4. MembersAt(r)'
  BY <1>1 DEF IndexAt, MembersAt
<1>5. PartitionsAt(r)' /\ FiltersAt(r)' /\ ScopeAt(r)'
  BY <1>1, IndexKept DEF IndexAt, Idles
<1> QED BY <1>2, <1>3, <1>4, <1>5 DEF IndexAt

LEMMA AppendIndex ==
    ASSUME Shape, Typed, Documents, NEW r \in Request, IndexAt(r), AppendEntry(r)
    PROVE  Documents' /\ IndexAt(r)'
<1> DEFINE l == list[dev[r]]
<1>1. /\ pc[r] = "append" /\ pc'[r] = "add" /\ dev'[r] = dev[r] /\ chan'[r] = chan[r]
      /\ UNCHANGED <<members, partitions, filters, scope, dropped, connected, task>>
      /\ \A x \in Channel : task[r][x] = "none"
  BY DEF AppendEntry, GoTo, index, Shape
<1>2. /\ list'[dev[r]] = Append(l, chan[r])
      /\ \A d \in Device \ {dev[r]} : list'[d] = list[d]
  BY DEF AppendEntry, Typed
<1>3. l \in Seq(Channel) /\ chan[r] \in Channel /\ dev[r] \in Device
  BY DEF Shape, Typed
<1>4. connected[dev[r]] /\ ~Contains(l, chan[r]) /\ Distinct(l)
  BY <1>1, <1>3 DEF IndexAt, DocumentAt, Documents
<1>5. Distinct(list'[dev[r]]) /\ \A x \in Channel :
         Contains(list'[dev[r]], x) <=> Contains(l, x) \/ x = chan[r]
  BY <1>2, <1>3, <1>4, AppendedList
<1>6. Documents'
  BY <1>1, <1>2, <1>4, <1>5 DEF Documents
<1>7. DocumentAt(r)'
  BY <1>1, <1>3, <1>5 DEF DocumentAt
<1>8. MembersAt(r)'
  <2> SUFFICES ASSUME NEW c \in Channel, NEW d \in Device
               PROVE  <<c, d>> \in members <=> Contains(list'[d], c) /\ <<c, d>> # Its(r)
    BY <1>1 DEF MembersAt, Its
  <2>1. <<c, d>> \in members <=> Contains(list[d], c)
    BY <1>1 DEF IndexAt, MembersAt
  <2>2. CASE d = dev[r]
    BY <1>4, <1>5, <2>1, <2>2 DEF Its
  <2>3. CASE d # dev[r]
    BY <1>2, <2>1, <2>3 DEF Its
  <2> QED BY <2>2, <2>3
<1>9. PartitionsAt(r)' /\ FiltersAt(r)' /\ ScopeAt(r)'
  BY <1>1, IndexKept DEF IndexAt, Idles
<1> QED BY <1>6, <1>7, <1>8, <1>9 DEF IndexAt

LEMMA UnsubscribeIndex ==
    ASSUME Shape, Typed, Documents, NEW r \in Request, IndexAt(r),
           NEW d \in Device, NEW c \in Channel, Unsubscribe(r, d, c)
    PROVE  Documents' /\ IndexAt(r)'
<1>1. /\ pc[r] = "idle" /\ pc'[r] = "pop" /\ dev'[r] = d /\ chan'[r] = c
      /\ UNCHANGED <<members, partitions, filters, scope, dropped, list, connected, task>>
      /\ Contains(list[d], c) /\ \A x \in Channel : task[r][x] = "none"
  BY DEF Unsubscribe, Start, GoTo, documents, index, Shape, Typed
<1>2. position'[r] = IndexIn(list[d], c)
  BY DEF Unsubscribe, IndexIn, SelectInSeq, Typed
<1>3. position'[r] \in 1..Len(list[d]) /\ list[d][position'[r]] = c
  BY <1>1, <1>2, PositionOf DEF Typed
<1>4. Documents'
  BY <1>1 DEF Documents
<1>5. DocumentAt(r)'
  BY <1>1, <1>3 DEF DocumentAt
<1>6. MembersAt(r)'
  BY <1>1 DEF IndexAt, MembersAt
<1>7. PartitionsAt(r)' /\ FiltersAt(r)' /\ ScopeAt(r)'
  BY <1>1, IndexKept DEF IndexAt, Idles
<1> QED BY <1>4, <1>5, <1>6, <1>7 DEF IndexAt

LEMMA PopIndex ==
    ASSUME Shape, Typed, Documents, NEW r \in Request, IndexAt(r), PopEntry(r)
    PROVE  Documents' /\ IndexAt(r)'
<1> DEFINE l == list[dev[r]]
           i == IF position[r] <= Len(l) THEN position[r] ELSE Len(l)
<1>1. /\ pc[r] = "pop" /\ pc'[r] = "removing" /\ dev'[r] = dev[r] /\ chan'[r] = chan[r]
      /\ UNCHANGED <<members, partitions, filters, scope, dropped, connected>>
      /\ task'[r][chan[r]] = "remove"
      /\ \A x \in Channel \ {chan[r]} : task'[r][x] = "none"
      /\ \A x \in Channel : task[r][x] = "none"
  BY DEF PopEntry, GoTo, TaskTo, index, Shape
<1>2. list' = [list EXCEPT ![dev[r]] = IF l = <<>> THEN l ELSE RemoveAt(l, i)]
  BY DEF PopEntry
<1>3. l \in Seq(Channel) /\ chan[r] \in Channel /\ dev[r] \in Device
  BY DEF Shape, Typed
<1>4. i \in 1..Len(l) /\ l[i] = chan[r] /\ Distinct(l)
  BY <1>1, <1>3 DEF IndexAt, DocumentAt, Documents, Typed
<1>5. l # <<>>
  BY <1>3, <1>4
<1> HIDE DEF i
<1>6. list'[dev[r]] = RemoveAt(l, i) /\ \A d \in Device \ {dev[r]} : list'[d] = list[d]
  BY <1>2, <1>3, <1>5 DEF Typed
<1>7. Distinct(list'[dev[r]]) /\ \A x \in Channel :
         Contains(list'[dev[r]], x) <=> Contains(l, x) /\ x # chan[r]
  BY <1>3, <1>4, <1>6, RemovedFrom
<1>8. Documents'
  BY <1>1, <1>3, <1>5, <1>6, <1>7 DEF Documents
<1>9. DocumentAt(r)'
  BY <1>1, <1>3, <1>7 DEF DocumentAt
<1>10. MembersAt(r)'
  <2> SUFFICES ASSUME NEW c \in Channel, NEW d \in Device
               PROVE  <<c, d>> \in members <=> \/ d = dev[r] /\ c = chan[r]
                                               \/ Contains(list'[d], c)
    BY <1>1 DEF MembersAt
  <2>1. <<c, d>> \in members <=> Contains(list[d], c)
    BY <1>1 DEF IndexAt, MembersAt
  <2>2. Contains(l, chan[r])
    BY <1>3, <1>4 DEF Contains
  <2>3. CASE d = dev[r]
    BY <1>7, <2>1, <2>2, <2>3
  <2>4. CASE d # dev[r]
    BY <1>6, <2>1, <2>4
  <2> QED BY <2>3, <2>4
<1>11. PartitionsAt(r)' /\ FiltersAt(r)' /\ ScopeAt(r)'
  BY <1>1, IndexKept DEF IndexAt, Idles
<1> QED BY <1>8, <1>9, <1>10, <1>11 DEF IndexAt

LEMMA DisconnectIndex ==
    ASSUME Shape, Typed, Documents, NEW r \in Request, IndexAt(r), NEW d \in Device, Disconnect(r, d)
    PROVE  Documents' /\ IndexAt(r)'
<1>1. /\ pc[r] = "idle" /\ pc'[r] = "cleanup" /\ dev'[r] = d /\ UNCHANGED chan
      /\ UNCHANGED <<members, partitions, filters, scope, dropped, list, connected>>
      /\ \A x \in Channel : task[r][x] = "none"
      /\ \A x \in Channel :
            task'[r][x] = IF connected[d] /\ Contains(list[d], x) THEN "remove" ELSE "none"
  BY DEF Disconnect, Start, GoTo, index, Shape, Typed
<1>2. Documents'
  BY <1>1 DEF Documents
<1>3. DocumentAt(r)'
  BY <1>1 DEF DocumentAt
<1>4. \A x \in Channel : Contains(list[d], x) => task'[r][x] = "remove"
  <2>1. \A x \in Channel : Contains(list[d], x) => list[d] # <<>>
    BY DEF Contains
  <2> QED BY <1>1, <2>1 DEF Documents
<1>5. MembersAt(r)'
  BY <1>1, <1>4 DEF IndexAt, MembersAt
<1>6. PartitionsAt(r)' /\ FiltersAt(r)' /\ ScopeAt(r)'
  BY <1>1, IndexKept DEF IndexAt, Idles
<1> QED BY <1>2, <1>3, <1>5, <1>6 DEF IndexAt

LEMMA RemovedIndex ==
    ASSUME Shape, Typed, Documents, NEW r \in Request, IndexAt(r), Removed(r)
    PROVE  Documents' /\ IndexAt(r)'
<1>0. \/ pc[r] = "removing" /\ pc'[r] = "idle"
      \/ pc[r] = "cleanup" /\ pc'[r] = "clear"
  BY DEF Removed, GoTo, Shape
<1>1. /\ UNCHANGED <<members, partitions, filters, scope, dropped, list, connected, dev, chan, task>>
      /\ \A x \in Channel : task[r][x] = "none"
  BY DEF Removed, documents, index
<1>2. Documents'
  BY <1>1 DEF Documents
<1>3. DocumentAt(r)'
  BY <1>0 DEF DocumentAt
<1>4. MembersAt(r)'
  BY <1>0, <1>1 DEF IndexAt, MembersAt
<1>5. PartitionsAt(r)' /\ FiltersAt(r)' /\ ScopeAt(r)'
  BY <1>0, <1>1, IndexKept DEF IndexAt, Idles
<1> QED BY <1>2, <1>3, <1>4, <1>5 DEF IndexAt

LEMMA ClearIndex ==
    ASSUME Shape, Typed, Documents, NEW r \in Request, IndexAt(r), ClearList(r) \/ GoOffline(r)
    PROVE  Documents' /\ IndexAt(r)'
<1>1. /\ pc[r] \in {"clear", "offline"} /\ pc'[r] \in {"offline", "idle"}
      /\ UNCHANGED <<members, partitions, filters, scope, dropped, dev, chan, task>>
      /\ \A x \in Channel : task[r][x] = "none"
  BY DEF ClearList, GoOffline, GoTo, index, Shape
<1>2. PartitionsAt(r)' /\ FiltersAt(r)' /\ ScopeAt(r)'
  BY <1>1, IndexKept DEF IndexAt, Idles
<1>3. ASSUME NEW c \in Channel PROVE ~Contains(<<>>, c)
  BY DEF Contains
<1>4. CASE ClearList(r)
  <2>1. /\ pc[r] = "clear" /\ pc'[r] = "offline" /\ UNCHANGED connected
        /\ list' = [list EXCEPT ![dev[r]] = <<>>]
    BY <1>4 DEF ClearList, GoTo, Shape
  <2>2. list'[dev[r]] = <<>> /\ \A d \in Device \ {dev[r]} : list'[d] = list[d]
    BY <2>1 DEF Typed
  <2>3. Documents'
    BY <2>1, <2>2 DEF Documents, Distinct
  <2>4. DocumentAt(r)'
    BY <1>1, <2>1, <2>2 DEF DocumentAt
  <2>5. MembersAt(r)'
    BY <1>1, <1>3, <2>1, <2>2 DEF IndexAt, MembersAt
  <2> QED BY <1>2, <2>3, <2>4, <2>5 DEF IndexAt
<1>5. CASE GoOffline(r)
  <2>1. /\ pc[r] = "offline" /\ pc'[r] = "idle" /\ UNCHANGED list
        /\ connected' = [connected EXCEPT ![dev[r]] = FALSE] /\ list[dev[r]] = <<>>
    BY <1>5 DEF GoOffline, GoTo, Shape, IndexAt, DocumentAt
  <2>2. Documents'
    BY <2>1 DEF Documents, Typed
  <2>3. DocumentAt(r)'
    BY <2>1 DEF DocumentAt
  <2>4. MembersAt(r)'
    BY <1>1, <2>1 DEF IndexAt, MembersAt
  <2> QED BY <1>2, <2>2, <2>3, <2>4 DEF IndexAt
<1> QED BY <1>4, <1>5

----------------------------------------------------------------------------
(* One request at a time: addDevice *)

LEMMA AddIndex ==
    ASSUME Shape, Typed, Documents, NEW r \in Request, IndexAt(r), AddMember(r)
    PROVE  Documents' /\ IndexAt(r)'
<1>1. /\ pc[r] = "add" /\ UNCHANGED <<partitions, filters, scope, dropped, list, connected, dev, chan, task>>
      /\ members' = members \cup {<<chan[r], dev[r]>>}
      /\ pc'[r] = IF <<chan[r], dev[r]>> \in members THEN "idle" ELSE "index"
      /\ \A x \in Channel : task[r][x] = "none"
  BY DEF AddMember, GoTo, documents, Shape
<1>2. chan[r] \in Channel /\ dev[r] \in Device
  BY DEF Shape, Typed
<1>3. Contains(list[dev[r]], chan[r]) /\ <<chan[r], dev[r]>> \notin members
  BY <1>1, <1>2 DEF IndexAt, DocumentAt, MembersAt, Its
<1>4. pc'[r] = "index" /\ Its(r)' = Its(r) /\ Its(r) \notin members /\ members' = members \cup {Its(r)}
  BY <1>1, <1>3 DEF Its
<1>5. Documents' /\ DocumentAt(r)'
  BY <1>1, <1>3, <1>4 DEF Documents, DocumentAt
<1>6. MembersAt(r)'
  BY <1>1, <1>3, <1>4 DEF IndexAt, MembersAt, Its
\* The members that count for the index are those there were.
<1>7. ASSUME NEW c \in Channel, NEW d \in Device
      PROVE  <<c, d>> \in members <=> <<c, d>> \in members' /\ <<c, d>> # Its(r)
  BY <1>4
<1>8. PartitionsAt(r)'
  <2>1. ASSUME NEW c \in Channel, NEW p \in Partition
        PROVE  <<c, p>> \in partitions <=> \E d \in Device : <<c, d>> \in members /\ PartitionOf[d] = p
    BY <1>1 DEF IndexAt, PartitionsAt
  <2>2. ASSUME NEW c \in Channel, NEW p \in Partition
        PROVE  (<<c, p>> \in partitions)' <=>
                  \E d \in Device : <<c, d>> \in members' /\ PartitionOf[d] = p /\ <<c, d>> # Its(r)'
    <3>1. (<<c, p>> \in partitions)' <=> <<c, p>> \in partitions
      BY <1>1
    <3> QED BY <1>4, <1>7, <2>1, <3>1, Zenon
  <2>3. \A c \in Channel : task'[r][c] = "none"
    BY <1>1
  <2> QED BY <1>4, <2>2, <2>3 DEF PartitionsAt
<1>9. FiltersAt(r)'
  <2>1. ASSUME NEW c \in Channel
        PROVE  c \in filters <=> c \in Filtered /\ \E d \in Device : <<c, d>> \in members
    BY <1>1 DEF IndexAt, FiltersAt
  <2> QED BY <1>1, <1>4, <1>7, <2>1 DEF FiltersAt
<1>10. ScopeAt(r)'
  BY <1>1 DEF IndexAt, ScopeAt
<1> QED BY <1>5, <1>6, <1>8, <1>9, <1>10 DEF IndexAt

LEMMA IndexPartitionIndex ==
    ASSUME Shape, Typed, Documents, NEW r \in Request, IndexAt(r), IndexPartition(r)
    PROVE  Documents' /\ IndexAt(r)'
<1>1. /\ pc[r] = "index" /\ pc'[r] = "count"
      /\ UNCHANGED <<members, filters, scope, dropped, list, connected, dev, chan, task>>
      /\ partitions' = partitions \cup {<<chan[r], PartitionOf[dev[r]]>>}
      /\ \A x \in Channel : task[r][x] = "none"
  BY DEF IndexPartition, GoTo, documents, Shape
<1>2. chan[r] \in Channel /\ dev[r] \in Device /\ Its(r)' = Its(r)
  BY <1>1 DEF Shape, Typed, Its
<1>3. Contains(list[dev[r]], chan[r]) /\ Its(r) \in members
  BY <1>1, <1>2 DEF IndexAt, DocumentAt, MembersAt, Its
<1>4. Documents' /\ DocumentAt(r)'
  BY <1>1, <1>3 DEF Documents, DocumentAt
<1>5. MembersAt(r)'
  BY <1>1 DEF IndexAt, MembersAt
<1>6. PartitionsAt(r)'
  <2>1. ASSUME NEW c \in Channel, NEW p \in Partition
        PROVE  <<c, p>> \in partitions' <=> \E d \in Device : <<c, d>> \in members /\ PartitionOf[d] = p
    <3>1. <<c, p>> \in partitions <=>
             \E d \in Device : <<c, d>> \in members /\ PartitionOf[d] = p /\ <<c, d>> # Its(r)
      BY <1>1 DEF IndexAt, PartitionsAt
    <3>2. <<c, p>> \in partitions' <=> <<c, p>> \in partitions \/ (c = chan[r] /\ p = PartitionOf[dev[r]])
      BY <1>1
    <3> QED BY <1>2, <1>3, <3>1, <3>2 DEF Its
  <2> QED BY <1>1, <2>1 DEF PartitionsAt
<1>7. FiltersAt(r)'
  BY <1>1, <1>2 DEF IndexAt, FiltersAt
<1>8. ScopeAt(r)'
  BY <1>1 DEF IndexAt, ScopeAt
<1> QED BY <1>4, <1>5, <1>6, <1>7, <1>8 DEF IndexAt

LEMMA CountUpIndex ==
    ASSUME Shape, Typed, Documents, NEW r \in Request, IndexAt(r), CountUp(r)
    PROVE  Documents' /\ IndexAt(r)'
<1>1. /\ pc[r] = "count" /\ pc'[r] = IF chan[r] \in Filtered THEN "filter" ELSE "idle"
      /\ UNCHANGED <<members, partitions, filters, dropped, list, connected, dev, chan, task>>
      /\ scope' = [present |-> TRUE, count |-> scope.count + 1]
      /\ \A x \in Channel : task[r][x] = "none"
  BY DEF CountUp, GoTo, documents, Shape
<1>2. chan[r] \in Channel /\ dev[r] \in Device /\ Its(r)' = Its(r)
  BY <1>1 DEF Shape, Typed, Its
<1>3. Contains(list[dev[r]], chan[r])
  BY <1>1 DEF IndexAt, DocumentAt
<1>4. Documents' /\ DocumentAt(r)'
  BY <1>1, <1>3 DEF Documents, DocumentAt
<1>5. MembersAt(r)'
  BY <1>1 DEF IndexAt, MembersAt
<1>6. PartitionsAt(r)'
  <2>1. pc[r] # "index" /\ pc'[r] # "index"
    BY <1>1
  <2> QED BY <1>1, <2>1 DEF IndexAt, PartitionsAt
<1>7. FiltersAt(r)'
  <2>1. ASSUME NEW c \in Channel
        PROVE  c \in filters <=>
                  c \in Filtered /\ \E d \in Device : <<c, d>> \in members /\ <<c, d>> # Its(r)
    BY <1>1 DEF IndexAt, FiltersAt
  <2>2. CASE chan[r] \in Filtered
    BY <1>1, <1>2, <2>1, <2>2 DEF FiltersAt
  <2>3. CASE chan[r] \notin Filtered
    <3>1. ASSUME NEW c \in Channel
          PROVE  c \in filters <=> c \in Filtered /\ \E d \in Device : <<c, d>> \in members
      BY <2>1, <2>3 DEF Its
    <3> QED BY <1>1, <2>3, <3>1 DEF FiltersAt
  <2> QED BY <2>2, <2>3
<1>8. ScopeAt(r)'
  BY <1>1 DEF IndexAt, ScopeAt, Typed
<1> QED BY <1>4, <1>5, <1>6, <1>7, <1>8 DEF IndexAt

LEMMA StoreFilterIndex ==
    ASSUME Shape, Typed, Documents, NEW r \in Request, IndexAt(r), StoreFilter(r)
    PROVE  Documents' /\ IndexAt(r)'
<1>1. /\ pc[r] = "filter" /\ pc'[r] = "idle"
      /\ UNCHANGED <<members, partitions, scope, dropped, list, connected, dev, chan, task>>
      /\ filters' = filters \cup {chan[r]}
      /\ \A x \in Channel : task[r][x] = "none"
  BY DEF StoreFilter, GoTo, documents, Shape
<1>2. chan[r] \in Channel /\ dev[r] \in Device /\ chan[r] \in Filtered
  BY <1>1 DEF Shape, Typed
<1>3. Its(r) \in members
  BY <1>1, <1>2 DEF IndexAt, DocumentAt, MembersAt, Its
<1>4. Documents' /\ DocumentAt(r)'
  BY <1>1 DEF Documents, DocumentAt
<1>5. MembersAt(r)'
  BY <1>1 DEF IndexAt, MembersAt
<1>6. PartitionsAt(r)'
  <2>1. pc[r] # "index" /\ pc'[r] # "index"
    BY <1>1
  <2> QED BY <1>1, <2>1 DEF IndexAt, PartitionsAt
<1>7. FiltersAt(r)'
  <2>1. ASSUME NEW c \in Channel
        PROVE  c \in filters' <=> c \in Filtered /\ \E d \in Device : <<c, d>> \in members
    <3>1. c \in filters <=>
             c \in Filtered /\ \E d \in Device : <<c, d>> \in members /\ <<c, d>> # Its(r)
      BY <1>1 DEF IndexAt, FiltersAt
    <3> QED BY <1>1, <1>2, <1>3, <3>1 DEF Its
  <2> QED BY <1>1, <2>1 DEF FiltersAt
<1>8. ScopeAt(r)'
  BY <1>1 DEF IndexAt, ScopeAt
<1> QED BY <1>4, <1>5, <1>6, <1>7, <1>8 DEF IndexAt

----------------------------------------------------------------------------
(* One request at a time: removeDevice *)

\* What every command of removeDevice leaves alone.
LEMMA RemovalFrame ==
    ASSUME Shape, NEW r \in Request, NEW c \in Channel, RemoveDevice(r, c)
    PROVE  /\ pc[r] \in {"removing", "cleanup"}
           /\ UNCHANGED <<pc, dev, chan, list, connected>>
           /\ \A x \in Channel \ {c} : task'[r][x] = task[r][x]
<1>1. task[r][c] # "none" /\ UNCHANGED <<pc, dev, chan, list, connected>>
  BY DEF RemoveDevice, RemoveMember, CardPartition, Unindex, CardIndex, DropFilter, CountDown,
         DropScope, documents
<1>2. PICK w \in Task : task' = [task EXCEPT ![r][c] = w]
  BY DEF RemoveDevice, RemoveMember, CardPartition, Unindex, CardIndex, DropFilter,
         CountDown, DropScope, TaskTo, Task
<1> QED BY <1>1, <1>2 DEF Shape

\* Only the first command changes the members, and nothing waits for it afterwards.
LEMMA RemovalMembers ==
    ASSUME Shape, Typed, Documents, NEW r \in Request, IndexAt(r), NEW c \in Channel,
           RemoveDevice(r, c), task'[r][c] # "remove",
           members' = IF task[r][c] = "remove" THEN members \ {<<c, dev[r]>>} ELSE members
    PROVE  Documents' /\ DocumentAt(r)' /\ MembersAt(r)'
<1>1. /\ pc[r] \in {"removing", "cleanup"} /\ UNCHANGED <<pc, dev, chan, list, connected>>
      /\ \A x \in Channel \ {c} : task'[r][x] = task[r][x]
  BY RemovalFrame
<1>2. Documents'
  BY <1>1 DEF Documents
<1>3. DocumentAt(r)'
  BY <1>1 DEF IndexAt, DocumentAt
<1>4. MembersAt(r)'
  <2> SUFFICES ASSUME NEW x \in Channel, NEW d \in Device
               PROVE  <<x, d>> \in members' <=>
                         \/ pc[r] = "removing" /\ d = dev[r] /\ task'[r][x] = "remove"
                         \/ /\ Contains(list[d], x)
                            /\ pc[r] = "cleanup" /\ d = dev[r] => task'[r][x] = "remove"
    BY <1>1 DEF MembersAt
  <2>1. <<x, d>> \in members <=>
           \/ pc[r] = "removing" /\ d = dev[r] /\ task[r][x] = "remove"
           \/ /\ Contains(list[d], x)
              /\ pc[r] = "cleanup" /\ d = dev[r] => task[r][x] = "remove"
    BY <1>1 DEF IndexAt, MembersAt
  <2>2. CASE x # c \/ d # dev[r]
    BY <1>1, <2>1, <2>2
  <2>3. CASE x = c /\ d = dev[r]
    <3>1. pc[r] = "removing" /\ task[r][c] = "remove" => ~Contains(list[d], x)
      BY <2>3 DEF IndexAt, DocumentAt
    <3>2. task[r][c] = "remove" => <<x, d>> \notin members'
      BY <2>3
    <3> QED BY <1>1, <2>1, <2>3, <3>1, <3>2
  <2> QED BY <2>2, <2>3
<1> QED BY <1>2, <1>3, <1>4

\* The partitions and the filters, seen from removeDevice.
LEMMA PartitionsThen ==
    ASSUME NEW r \in Request, pc'[r] # "index",
           \A c \in Channel, p \in Partition :
              (<<c, p>> \in partitions)' <=>
                 \/ \E d \in Device : <<c, d>> \in members' /\ PartitionOf[d] = p
                 \/ task'[r][c] \in {"cardPartition", "unindex"} /\ PartitionOf[dev'[r]] = p,
           \A c \in Channel : task'[r][c] = "unindex" =>
              \A d \in Device : <<c, d>> \in members' => PartitionOf[d] # PartitionOf[dev'[r]]
    PROVE  PartitionsAt(r)'
BY Zenon DEF PartitionsAt

LEMMA FiltersThen ==
    ASSUME NEW r \in Request, pc'[r] \notin {"index", "count", "filter"},
           \A c \in Channel :
              (c \in filters)' <=>
                 /\ c \in Filtered
                 /\ \/ \E d \in Device : <<c, d>> \in members'
                    \/ task'[r][c] \in {"cardPartition", "unindex", "cardIndex", "dropFilter"},
           \A c \in Channel : task'[r][c] = "dropFilter" => \A d \in Device : <<c, d>> \notin members'
    PROVE  FiltersAt(r)'
BY Zenon DEF FiltersAt

LEMMA RemoveMemberIndex ==
    ASSUME Shape, Typed, Documents, NEW r \in Request, IndexAt(r), NEW c \in Channel, RemoveMember(r, c)
    PROVE  Documents' /\ IndexAt(r)'
<1>1. RemoveDevice(r, c)
  BY DEF RemoveDevice
<1>2. /\ pc[r] \in {"removing", "cleanup"} /\ UNCHANGED <<pc, dev, chan>>
      /\ \A x \in Channel \ {c} : task'[r][x] = task[r][x]
  BY <1>1, RemovalFrame
<1>3. /\ task[r][c] = "remove" /\ UNCHANGED <<partitions, filters, scope, dropped>>
      /\ members' = members \ {<<c, dev[r]>>} /\ dev[r] \in Device
      /\ task'[r][c] = IF <<c, dev[r]>> \in members THEN "cardPartition" ELSE "none"
  BY DEF RemoveMember, TaskTo, Shape, Typed
<1>4. Documents' /\ DocumentAt(r)' /\ MembersAt(r)'
  BY <1>1, <1>3, RemovalMembers
<1>5. ScopeAt(r)'
  BY <1>2, <1>3 DEF IndexAt, ScopeAt
<1>6. PartitionsAt(r)'
  <2>1. ASSUME NEW x \in Channel, NEW p \in Partition
        PROVE  <<x, p>> \in partitions <=>
                  \/ \E d \in Device : <<x, d>> \in members' /\ PartitionOf[d] = p
                  \/ task'[r][x] \in {"cardPartition", "unindex"} /\ PartitionOf[dev[r]] = p
    <3>1. <<x, p>> \in partitions <=>
             \/ \E d \in Device : <<x, d>> \in members /\ PartitionOf[d] = p
             \/ task[r][x] \in {"cardPartition", "unindex"} /\ PartitionOf[dev[r]] = p
      BY <1>2 DEF IndexAt, PartitionsAt
    <3>2. CASE x # c
      BY <1>2, <1>3, <3>1, <3>2
    <3>3. CASE x = c
      BY <1>3, <3>1, <3>3
    <3> QED BY <3>2, <3>3
  <2>2. ASSUME NEW x \in Channel, task'[r][x] = "unindex", NEW d \in Device, <<x, d>> \in members'
        PROVE  PartitionOf[d] # PartitionOf[dev[r]]
    <3>1. x # c
      BY <1>3, <2>2
    <3> QED BY <1>2, <1>3, <2>2, <3>1 DEF IndexAt, PartitionsAt
  <2> QED BY <1>2, <1>3, <2>1, <2>2, PartitionsThen
<1>7. FiltersAt(r)'
  <2>1. ASSUME NEW x \in Channel
        PROVE  x \in filters <=>
                  /\ x \in Filtered
                  /\ \/ \E d \in Device : <<x, d>> \in members'
                     \/ task'[r][x] \in {"cardPartition", "unindex", "cardIndex", "dropFilter"}
    <3>1. x \in filters <=>
             /\ x \in Filtered
             /\ \/ \E d \in Device : <<x, d>> \in members
                \/ task[r][x] \in {"cardPartition", "unindex", "cardIndex", "dropFilter"}
      BY <1>2 DEF IndexAt, FiltersAt
    <3>2. CASE x # c
      BY <1>2, <1>3, <3>1, <3>2
    <3>3. CASE x = c
      BY <1>3, <3>1, <3>3
    <3> QED BY <3>2, <3>3
  <2>2. ASSUME NEW x \in Channel, task'[r][x] = "dropFilter", NEW d \in Device
        PROVE  <<x, d>> \notin members'
    <3>1. x # c
      BY <1>3, <2>2
    <3> QED BY <1>2, <1>3, <2>2, <3>1 DEF IndexAt, FiltersAt
  <2> QED BY <1>2, <1>3, <2>1, <2>2, FiltersThen
<1> QED BY <1>4, <1>5, <1>6, <1>7 DEF IndexAt

\* What is so of channel c while it is not being added to.
Indexed(r, c) ==
    /\ \A p \in Partition :
          <<c, p>> \in partitions <=>
             \/ \E d \in Device : <<c, d>> \in members /\ PartitionOf[d] = p
             \/ task[r][c] \in {"cardPartition", "unindex"} /\ PartitionOf[dev[r]] = p
    /\ task[r][c] = "unindex" =>
          \A d \in Device : <<c, d>> \in members => PartitionOf[d] # PartitionOf[dev[r]]

Kept(r, c) ==
    /\ c \in filters <=>
          /\ c \in Filtered
          /\ \/ \E d \in Device : <<c, d>> \in members
             \/ task[r][c] \in {"cardPartition", "unindex", "cardIndex", "dropFilter"}
    /\ task[r][c] = "dropFilter" => \A d \in Device : <<c, d>> \notin members

LEMMA IndexedNow ==
    ASSUME NEW r \in Request, PartitionsAt(r), pc[r] # "index", NEW c \in Channel
    PROVE  Indexed(r, c)
BY Zenon DEF PartitionsAt, Indexed

LEMMA ChannelNow ==
    ASSUME NEW r \in Request, IndexAt(r), pc[r] \notin {"index", "count", "filter"}, NEW c \in Channel
    PROVE  Indexed(r, c) /\ Kept(r, c)
<1>1. Indexed(r, c)
  BY IndexedNow DEF IndexAt
<1>2. Kept(r, c)
  BY DEF IndexAt, FiltersAt, Kept
<1> QED BY <1>1, <1>2

\* A command after the first that does what is right for its channel.
LEMMA ChannelThen ==
    ASSUME Shape, Typed, Documents, NEW r \in Request, IndexAt(r), NEW c \in Channel,
           RemoveDevice(r, c), members' = members, {task[r][c], task'[r][c]} \cap {"remove"} = {},
           partitions' = partitions \/ partitions' = partitions \ {<<c, PartitionOf[dev[r]]>>},
           filters' = filters \/ filters' = filters \ {c},
           Indexed(r, c)', Kept(r, c)', ScopeAt(r)'
    PROVE  Documents' /\ IndexAt(r)'
<1>1. /\ pc[r] \in {"removing", "cleanup"} /\ UNCHANGED <<pc, dev, chan>>
      /\ \A x \in Channel \ {c} : task'[r][x] = task[r][x]
  BY RemovalFrame
<1>2. Documents' /\ DocumentAt(r)' /\ MembersAt(r)'
  BY RemovalMembers
<1>3. ASSUME NEW x \in Channel, x # c PROVE Indexed(r, x)' /\ Kept(r, x)'
  <2>1. Indexed(r, x) /\ Kept(r, x)
    BY <1>1, ChannelNow
  <2>2. task'[r][x] = task[r][x] /\ dev' = dev
    BY <1>1, <1>3
  <2>3. \A p : (<<x, p>> \in partitions)' <=> <<x, p>> \in partitions
    BY <1>3
  <2>4. (x \in filters)' <=> x \in filters
    BY <1>3
  <2>5. Indexed(r, x)'
    BY <2>1, <2>2, <2>3 DEF Indexed
  <2>6. Kept(r, x)'
    BY <2>1, <2>2, <2>4 DEF Kept
  <2> QED BY <2>5, <2>6
<1>4. \A x \in Channel : Indexed(r, x)' /\ Kept(r, x)'
  BY <1>3
<1>5. PartitionsAt(r)'
  BY <1>1, <1>4, PartitionsThen DEF Indexed
<1>6. FiltersAt(r)'
  BY <1>1, <1>4, FiltersThen DEF Kept
<1> QED BY <1>2, <1>5, <1>6 DEF IndexAt

\* The commands before the counter leave it alone.
LEMMA ScopeKept ==
    ASSUME Shape, NEW r \in Request, IndexAt(r), NEW c \in Channel, RemoveDevice(r, c),
           UNCHANGED <<scope, dropped>>, {task[r][c], task'[r][c]} \cap {"dropScope"} = {}
    PROVE  ScopeAt(r)'
<1>1. \A x \in Channel : task'[r][x] = "dropScope" <=> task[r][x] = "dropScope"
  BY RemovalFrame
<1> QED BY <1>1 DEF IndexAt, ScopeAt

LEMMA CardPartitionIndex ==
    ASSUME Shape, Typed, Documents, NEW r \in Request, IndexAt(r), NEW c \in Channel, CardPartition(r, c)
    PROVE  Documents' /\ IndexAt(r)'
<1>1. RemoveDevice(r, c)
  BY DEF RemoveDevice
<1>2. /\ task[r][c] = "cardPartition" /\ UNCHANGED <<members, partitions, filters, scope, dropped, dev>>
      /\ task'[r][c] = IF PartitionEmptied(r, c) THEN "unindex" ELSE "decrement"
  BY DEF CardPartition, TaskTo, Shape, index
<1>3. Indexed(r, c) /\ Kept(r, c) /\ dev[r] \in Device
  BY <1>1, RemovalFrame, ChannelNow DEF Typed
<1>4. PartitionEmptied(r, c) <=>
         \A d \in Device : <<c, d>> \in members => PartitionOf[d] # PartitionOf[dev[r]]
  BY DEF PartitionEmptied, PartitionSet, Typed
<1>5. Indexed(r, c)'
  BY <1>2, <1>3, <1>4 DEF Indexed
<1>6. Kept(r, c)'
  BY <1>2, <1>3, <1>4 DEF Kept
<1>7. ScopeAt(r)'
  BY <1>1, <1>2, ScopeKept
<1> QED BY <1>1, <1>2, <1>5, <1>6, <1>7, ChannelThen

LEMMA UnindexIndex ==
    ASSUME Shape, Typed, Documents, NEW r \in Request, IndexAt(r), NEW c \in Channel, Unindex(r, c)
    PROVE  Documents' /\ IndexAt(r)'
<1>1. RemoveDevice(r, c)
  BY DEF RemoveDevice
<1>2. /\ task[r][c] = "unindex" /\ task'[r][c] = "cardIndex"
      /\ UNCHANGED <<members, filters, scope, dropped, dev>>
      /\ partitions' = partitions \ {<<c, PartitionOf[dev[r]]>>}
  BY DEF Unindex, TaskTo, Shape
<1>3. Indexed(r, c) /\ Kept(r, c)
  BY <1>1, RemovalFrame, ChannelNow
<1>4. Indexed(r, c)'
  BY <1>2, <1>3 DEF Indexed
<1>5. Kept(r, c)'
  BY <1>2, <1>3 DEF Kept
<1>6. ScopeAt(r)'
  BY <1>1, <1>2, ScopeKept
<1> QED BY <1>1, <1>2, <1>4, <1>5, <1>6, ChannelThen

LEMMA CardIndexIndex ==
    ASSUME Shape, Typed, Documents, NEW r \in Request, IndexAt(r), NEW c \in Channel, CardIndex(r, c)
    PROVE  Documents' /\ IndexAt(r)'
<1>1. RemoveDevice(r, c)
  BY DEF RemoveDevice
<1>2. /\ task[r][c] = "cardIndex" /\ UNCHANGED <<members, partitions, filters, scope, dropped, dev>>
      /\ task'[r][c] = IF c \in Filtered /\ ~\E p \in Partition : <<c, p>> \in partitions
                       THEN "dropFilter" ELSE "decrement"
  BY DEF CardIndex, TaskTo, Shape, index
<1>3. Indexed(r, c) /\ Kept(r, c)
  BY <1>1, RemovalFrame, ChannelNow
<1>4. (\E p \in Partition : <<c, p>> \in partitions) <=> \E d \in Device : <<c, d>> \in members
  BY <1>2, <1>3, IndexAssumption DEF Indexed
<1>5. Indexed(r, c)'
  BY <1>2, <1>3 DEF Indexed
<1>6. Kept(r, c)'
  BY <1>2, <1>3, <1>4 DEF Kept
<1>7. ScopeAt(r)'
  BY <1>1, <1>2, ScopeKept
<1> QED BY <1>1, <1>2, <1>5, <1>6, <1>7, ChannelThen

LEMMA DropFilterIndex ==
    ASSUME Shape, Typed, Documents, NEW r \in Request, IndexAt(r), NEW c \in Channel, DropFilter(r, c)
    PROVE  Documents' /\ IndexAt(r)'
<1>1. RemoveDevice(r, c)
  BY DEF RemoveDevice
<1>2. /\ task[r][c] = "dropFilter" /\ task'[r][c] = "decrement"
      /\ UNCHANGED <<members, partitions, scope, dropped, dev>>
      /\ filters' = filters \ {c}
  BY DEF DropFilter, TaskTo, Shape
<1>3. Indexed(r, c) /\ Kept(r, c)
  BY <1>1, RemovalFrame, ChannelNow
<1>4. Indexed(r, c)'
  BY <1>2, <1>3 DEF Indexed
<1>5. Kept(r, c)'
  BY <1>2, <1>3 DEF Kept
<1>6. ScopeAt(r)'
  BY <1>1, <1>2, ScopeKept
<1> QED BY <1>1, <1>2, <1>4, <1>5, <1>6, ChannelThen

\* What is counted while nothing is being added: the members, and the removals that
\* are yet to be counted.
LEMMA CountIs ==
    ASSUME Counts, NEW r \in Request, Only(r), pc[r] \notin {"index", "count"}, ScopeAt(r)
    PROVE  /\ scope.count = Cardinality(members) + Cardinality(Removing)
           /\ Cardinality(members) \in Nat /\ Cardinality(Removing) \in Nat
<1>1. Adding = {}
  BY DEF Adding, Only
<1>2. Cardinality(Adding) = 0 /\ dropped = 0
  BY <1>1, FS_EmptySet DEF ScopeAt
<1>3. Cardinality(members) \in Nat /\ Cardinality(Removing) \in Nat /\ scope.count \in Int
  BY FS_CardinalityType DEF Counts, Finite, Numbers
<1>4. scope.count + dropped = Cardinality(members) - Cardinality(Adding) + Cardinality(Removing)
  BY DEF Counts, CountedOnce, Adding, Removing
<1> QED BY <1>2, <1>3, <1>4

LEMMA CountDownIndex ==
    ASSUME Shape, Typed, Documents, Counts, NEW r \in Request, Only(r), IndexAt(r),
           NEW c \in Channel, CountDown(r, c)
    PROVE  Documents' /\ IndexAt(r)'
<1>1. RemoveDevice(r, c)
  BY DEF RemoveDevice
<1>2. /\ task[r][c] = "decrement" /\ UNCHANGED <<members, partitions, filters, dropped, dev>>
      /\ scope' = [present |-> TRUE, count |-> scope.count - 1]
      /\ task'[r][c] = IF scope.count - 1 <= 0 THEN "dropScope" ELSE "none"
  BY DEF CountDown, TaskTo, Shape
<1>3. Indexed(r, c) /\ Kept(r, c)
  BY <1>1, RemovalFrame, ChannelNow
<1>4. Indexed(r, c)'
  BY <1>2, <1>3 DEF Indexed
<1>5. Kept(r, c)'
  BY <1>2, <1>3 DEF Kept
<1>6. scope.count \in Int /\ scope.count >= 1
  <2>1. /\ scope.count = Cardinality(members) + Cardinality(Removing)
        /\ Cardinality(members) \in Nat /\ Cardinality(Removing) \in Nat
    BY <1>1, RemovalFrame, CountIs DEF IndexAt
  <2>2. <<r, c>> \in Removing
    BY <1>2 DEF Removing
  <2>3. Cardinality(Removing) # 0
    BY <2>2, FS_EmptySet DEF Counts, Finite
  <2> QED BY <2>1, <2>3
<1>7. ScopeAt(r)'
  <2>1. dropped = 0 /\ \A x \in Channel : task[r][x] # "dropScope"
    BY <1>6 DEF IndexAt, ScopeAt
  <2>2. \A x \in Channel \ {c} : task'[r][x] # "dropScope"
    BY <1>1, <2>1, RemovalFrame
  <2>3. scope'.present = TRUE /\ scope'.count = scope.count - 1
    BY <1>2
  <2>4. scope.count - 1 > 0 \/ (scope.count - 1 = 0 /\ task'[r][c] = "dropScope")
    BY <1>2, <1>6
  <2>5. scope.count - 1 > 0 => task'[r][c] = "none"
    BY <1>2, <1>6
  <2> QED BY <1>2, <1>6, <2>1, <2>2, <2>3, <2>4, <2>5 DEF ScopeAt
<1> QED BY <1>1, <1>2, <1>4, <1>5, <1>7, ChannelThen

LEMMA DropScopeIndex ==
    ASSUME Shape, Typed, Documents, NEW r \in Request, IndexAt(r), NEW c \in Channel, DropScope(r, c)
    PROVE  Documents' /\ IndexAt(r)'
<1>1. RemoveDevice(r, c)
  BY DEF RemoveDevice
<1>2. /\ task[r][c] = "dropScope" /\ task'[r][c] = "none"
      /\ UNCHANGED <<members, partitions, filters, dev>>
      /\ scope' = [present |-> FALSE, count |-> 0] /\ dropped' = dropped + scope.count
  BY DEF DropScope, TaskTo, Shape
<1>3. Indexed(r, c) /\ Kept(r, c)
  BY <1>1, RemovalFrame, ChannelNow
<1>4. Indexed(r, c)'
  BY <1>2, <1>3 DEF Indexed
<1>5. Kept(r, c)'
  BY <1>2, <1>3 DEF Kept
<1>6. ScopeAt(r)'
  <2>1. dropped = 0 /\ scope.count = 0
    BY <1>2 DEF IndexAt, ScopeAt
  <2> QED BY <1>2, <2>1 DEF ScopeAt
<1> QED BY <1>1, <1>2, <1>4, <1>5, <1>6, ChannelThen

----------------------------------------------------------------------------
(* The index mirrors the documents *)

LEMMA OneInit == Init => OneAtATime
<1> SUFFICES ASSUME Init PROVE OneAtATime
  OBVIOUS
<1>1. \A r \in Request : Only(r)
  BY DEF Init, Only
<1>2. Documents
  BY DEF Init, Documents, Distinct
<1>3. ASSUME NEW r \in Request PROVE IndexAt(r)
  <2>1. /\ pc[r] = "idle" /\ members = {} /\ partitions = {} /\ filters = {}
        /\ \A c \in Channel : task[r][c] = "none"
    BY DEF Init
  <2>2. \A d \in Device, c \in Channel : ~Contains(list[d], c)
    BY DEF Init, Contains
  <2>3. ScopeAt(r)
    BY <2>1 DEF Init, ScopeAt
  <2>4. DocumentAt(r) /\ MembersAt(r)
    BY <2>1, <2>2 DEF DocumentAt, MembersAt
  <2>5. PartitionsAt(r) /\ FiltersAt(r)
    BY <2>1 DEF PartitionsAt, FiltersAt
  <2> QED BY <2>3, <2>4, <2>5 DEF IndexAt
<1> QED BY <1>1, <1>2, <1>3, IndexAssumption DEF OneAtATime

\* A step of no request.
LEMMA IndexSame ==
    ASSUME NEW r \in Request, IndexAt(r),
           UNCHANGED <<list, members, partitions, scope, filters, dropped, pc, dev, chan, task>>
    PROVE  MembersAt(r)' /\ PartitionsAt(r)' /\ FiltersAt(r)' /\ ScopeAt(r)'
<1>1. MembersAt(r)'
  BY DEF IndexAt, MembersAt, Its
<1>2. PartitionsAt(r)'
  BY DEF IndexAt, PartitionsAt, Its
<1>3. FiltersAt(r)'
  BY DEF IndexAt, FiltersAt, Its
<1>4. ScopeAt(r)'
  BY DEF IndexAt, ScopeAt
<1> QED BY <1>1, <1>2, <1>3, <1>4

\* A device that connects changes nothing of this.
LEMMA ConnectIndex ==
    ASSUME Documents, NEW d \in Device, Connect(d), Typed
    PROVE  Documents' /\ \A r \in Request : IndexAt(r) => IndexAt(r)'
<1>1. /\ connected' = [connected EXCEPT ![d] = TRUE] /\ UNCHANGED <<list, index, requests>>
  BY DEF Connect
<1>2. UNCHANGED <<list, members, partitions, scope, filters, dropped, pc, dev, chan, position, task>>
  BY <1>1 DEF index, requests
<1>3. \A e \in Device : connected[e] => connected'[e]
  BY <1>1 DEF Typed
<1>4. Documents'
  BY <1>2, <1>3 DEF Documents
<1>5. ASSUME NEW r \in Request, IndexAt(r) PROVE IndexAt(r)'
  <2>1. DocumentAt(r)'
    BY <1>2, <1>3, <1>5 DEF IndexAt, DocumentAt, Typed
  <2> QED BY <1>2, <1>5, <2>1, IndexSame DEF IndexAt
<1> QED BY <1>4, <1>5

LEMMA RequestIndex ==
    ASSUME Shape, Typed, Counts, Documents, NEW r \in Request, Only(r), IndexAt(r), RequestStep(r)
    PROVE  Documents' /\ IndexAt(r)'
<1>1. CASE \E d \in Device, c \in Channel : Subscribe(r, d, c) \/ Unsubscribe(r, d, c)
  BY <1>1, SubscribeIndex, UnsubscribeIndex
<1>2. CASE AppendEntry(r) \/ AddMember(r) \/ IndexPartition(r) \/ CountUp(r) \/ StoreFilter(r)
  BY <1>2, AppendIndex, AddIndex, IndexPartitionIndex, CountUpIndex, StoreFilterIndex
<1>3. CASE PopEntry(r) \/ Removed(r) \/ ClearList(r) \/ GoOffline(r)
  BY <1>3, PopIndex, RemovedIndex, ClearIndex
<1>4. ASSUME NEW c \in Channel, RemoveDevice(r, c) PROVE Documents' /\ IndexAt(r)'
  BY <1>4, RemoveMemberIndex, CardPartitionIndex, UnindexIndex, CardIndexIndex, DropFilterIndex,
     CountDownIndex, DropScopeIndex DEF RemoveDevice
<1>5. CASE \E d \in Device : Disconnect(r, d)
  BY <1>5, DisconnectIndex
<1> QED BY <1>1, <1>2, <1>3, <1>4, <1>5 DEF RequestStep

\* A step of r moves r only; from idle it starts, which counts as an overlap unless
\* nothing is in flight.
LEMMA RequestMoves ==
    ASSUME Shape, Typed, NEW r \in Request, RequestStep(r)
    PROVE  /\ \A q \in Request \ {r} : pc'[q] = pc[q]
           /\ overlapped' \in {overlapped, overlapped + 1}
           /\ pc[r] = "idle" => Start(r)
<1>1. CASE \/ \E d \in Device, c \in Channel : Subscribe(r, d, c) \/ Unsubscribe(r, d, c)
           \/ \E d \in Device : Disconnect(r, d)
  BY <1>1 DEF Subscribe, Unsubscribe, Disconnect, Start, GoTo, Shape
<1>2. CASE AppendEntry(r) \/ AddMember(r) \/ IndexPartition(r) \/ CountUp(r) \/ StoreFilter(r)
  BY <1>2 DEF AppendEntry, AddMember, IndexPartition, CountUp, StoreFilter, GoTo, Shape
<1>3. CASE PopEntry(r) \/ Removed(r) \/ ClearList(r) \/ GoOffline(r)
  BY <1>3 DEF PopEntry, Removed, ClearList, GoOffline, GoTo, Shape
<1>4. ASSUME NEW c \in Channel, RemoveDevice(r, c)
      PROVE  UNCHANGED <<pc, overlapped>> /\ pc[r] # "idle"
  <2>1. UNCHANGED overlapped
    BY <1>4 DEF RemoveDevice, RemoveMember, CardPartition, Unindex, CardIndex, DropFilter,
                CountDown, DropScope
  <2> QED BY <1>4, <2>1, RemovalFrame
<1> QED BY <1>1, <1>2, <1>3, <1>4 DEF RequestStep

LEMMA OneStep == Shape /\ Shape' /\ Typed /\ Counts /\ OneAtATime /\ [Next]_vars => OneAtATime'
<1> SUFFICES ASSUME Shape, Shape', Typed, Counts, OneAtATime, [Next]_vars, overlapped' = 0
             PROVE  /\ (\E r \in Request : Only(r))' /\ Documents'
                    /\ \A r \in Request : Only(r)' => IndexAt(r)'
  BY DEF OneAtATime
<1>1. CASE UNCHANGED vars
  <2>1. UNCHANGED <<connected, list, members, partitions, scope, filters, dropped>>
    BY <1>1 DEF vars, documents, index
  <2>2. UNCHANGED <<pc, dev, chan, position, task, overlapped>>
    BY <1>1 DEF vars, requests
  <2>3. Documents' <=> Documents
    BY <2>1 DEF Documents
  <2>4. ASSUME NEW r \in Request PROVE (Only(r)' <=> Only(r)) /\ (IndexAt(r) => IndexAt(r)')
    <3>1. Only(r)' <=> Only(r)
      BY <2>2 DEF Only
    <3>2. DocumentAt(r) => DocumentAt(r)'
      BY <2>1, <2>2 DEF DocumentAt
    <3> QED BY <2>1, <2>2, <3>1, <3>2, IndexSame DEF IndexAt
  <2> QED BY <2>2, <2>3, <2>4 DEF OneAtATime
<1>2. ASSUME NEW d \in Device, Connect(d)
      PROVE  /\ (\E r \in Request : Only(r))' /\ Documents'
             /\ \A r \in Request : Only(r)' => IndexAt(r)'
  <2>1. UNCHANGED <<pc, overlapped>>
    BY <1>2 DEF Connect, requests
  <2>2. \A r \in Request : Only(r)' <=> Only(r)
    BY <2>1 DEF Only
  <2> QED BY <1>2, <2>1, <2>2, ConnectIndex DEF OneAtATime
<1>3. ASSUME NEW r \in Request, RequestStep(r)
      PROVE  /\ (\E q \in Request : Only(q))' /\ Documents'
             /\ \A q \in Request : Only(q)' => IndexAt(q)'
  <2>1. overlapped = 0
    BY <1>3, RequestMoves, IndexAssumption DEF Typed
  <2>2. Only(r)
    <3>1. CASE pc[r] = "idle"
      <4>1. InFlight = {}
        BY <1>3, <2>1, <3>1, RequestMoves DEF Start
      <4> QED BY <4>1 DEF InFlight, Only
    <3>2. CASE pc[r] # "idle"
      BY <2>1, <3>2 DEF OneAtATime, Only
    <3> QED BY <3>1, <3>2
  <2>3. Documents' /\ IndexAt(r)'
    BY <1>3, <2>1, <2>2, RequestIndex DEF OneAtATime
  <2>4. Only(r)'
    BY <1>3, <2>2, RequestMoves DEF Only
  <2>5. ASSUME NEW q \in Request, Only(q)' PROVE IndexAt(q)'
    <3>1. CASE q = r
      BY <2>3, <3>1
    <3>2. CASE q # r
      <4>1. pc'[q] = "idle" /\ pc'[r] = "idle"
        BY <2>4, <2>5, <3>2 DEF Only
      <4> QED BY <2>3, <4>1, IdleIsIdle
    <3> QED BY <3>1, <3>2
  <2> QED BY <2>3, <2>4, <2>5
<1> QED BY <1>1, <1>2, <1>3 DEF Next

LEMMA IndexInvariant == Spec => [](Shape /\ Typed /\ Counts /\ OneAtATime)
<1>1. Init => Shape /\ Typed /\ Counts /\ OneAtATime
  BY ShapeInit, TypedInit, CountsInit, OneInit
<1>2. Shape /\ Typed /\ Counts /\ OneAtATime /\ [Next]_vars => (Shape /\ Typed /\ Counts /\ OneAtATime)'
  BY ShapeStep, TypedStep, CountsStep, OneStep
<1> QED BY <1>1, <1>2, PTL DEF Spec

\* While requests come one at a time, after each the index mirrors the documents: the
\* members are the entries of the lists, a partition is indexed and a filter stored
\* just where there is a member, and the scope is there, with their number, just while
\* there are members; whatever the devices, the channels and the partitions.
THEOREM IndexMirrors == Spec => []IndexMatchesDocuments
<1>1. Shape /\ Typed /\ Counts /\ OneAtATime => IndexMatchesDocuments
  <2> SUFFICES ASSUME Shape, Typed, Counts, OneAtATime, Quiet, overlapped = 0
               PROVE  /\ members = {m \in Channel \X Device : Contains(list[m[2]], m[1])}
                      /\ partitions = {<<m[1], PartitionOf[m[2]]>> : m \in members}
                      /\ scope = [present |-> members # {}, count |-> Cardinality(members)]
                      /\ filters = Filtered \cap {m[1] : m \in members}
    BY DEF IndexMatchesDocuments
  <2>1. PICK r \in Request : TRUE
    BY IndexAssumption
  <2>2. /\ \A q \in Request : pc[q] = "idle" /\ \A c \in Channel : task[q][c] = "none"
        /\ Only(r)
    BY DEF Quiet, InFlight, Shape, Only
  <2>3. IndexAt(r)
    BY <2>2 DEF OneAtATime
  <2>4. \A c \in Channel, d \in Device : <<c, d>> \in members <=> Contains(list[d], c)
    BY <2>2, <2>3 DEF IndexAt, MembersAt
  <2>5. members = {m \in Channel \X Device : Contains(list[m[2]], m[1])}
    BY <2>4 DEF Typed
  <2>6. \A c \in Channel, p \in Partition :
           <<c, p>> \in partitions <=> \E d \in Device : <<c, d>> \in members /\ PartitionOf[d] = p
    <3>1. \A c \in Channel : Indexed(r, c) /\ task[r][c] \notin {"cardPartition", "unindex"}
      BY <2>2, <2>3, ChannelNow
    <3> QED BY <3>1 DEF Indexed
  <2>7. partitions = {<<m[1], PartitionOf[m[2]]>> : m \in members}
    <3>1. \A m \in members : m[1] \in Channel /\ m[2] \in Device /\ m = <<m[1], m[2]>>
      BY DEF Typed
    <3>2. ASSUME NEW x \in partitions PROVE \E m \in members : x = <<m[1], PartitionOf[m[2]]>>
      <4>1. x[1] \in Channel /\ x[2] \in Partition /\ x = <<x[1], x[2]>>
        BY DEF Typed
      <4>2. PICK d \in Device : <<x[1], d>> \in members /\ PartitionOf[d] = x[2]
        BY <2>6, <4>1
      <4> QED BY <4>1, <4>2
    <3>3. ASSUME NEW m \in members PROVE <<m[1], PartitionOf[m[2]]>> \in partitions
      BY <2>6, <3>1, IndexAssumption
    <3> QED BY <3>2, <3>3
  <2>8. scope = [present |-> members # {}, count |-> Cardinality(members)]
    <3>1. Removing = {}
      BY <2>2 DEF Removing
    <3>2. scope.count = Cardinality(members) /\ Cardinality(members) \in Nat
      BY <2>2, <2>3, <3>1, CountIs, FS_EmptySet DEF IndexAt
    <3>3. Cardinality(members) > 0 <=> members # {}
      BY <3>2, FS_EmptySet DEF Counts, Finite
    <3>4. scope.present <=> scope.count > 0
      BY <2>2, <2>3 DEF IndexAt, ScopeAt
    <3>5. scope.present = (members # {})
      BY <3>2, <3>3, <3>4 DEF Typed
    <3> QED BY <3>2, <3>5 DEF Typed
  <2>9. filters = Filtered \cap {m[1] : m \in members}
    <3>1. \A c \in Channel :
             c \in filters <=> c \in Filtered /\ \E d \in Device : <<c, d>> \in members
      BY <2>2, <2>3 DEF IndexAt, FiltersAt
    <3>2. \A m \in members : m[1] \in Channel /\ m[2] \in Device /\ m = <<m[1], m[2]>>
      BY DEF Typed
    <3>3. ASSUME NEW c \in filters PROVE c \in Filtered \cap {m[1] : m \in members}
      <4>1. c \in Channel /\ c \in Filtered
        BY IndexAssumption DEF Typed
      <4>2. PICK d \in Device : <<c, d>> \in members
        BY <3>1, <4>1
      <4> QED BY <4>1, <4>2
    <3>4. ASSUME NEW c \in Filtered \cap {m[1] : m \in members} PROVE c \in filters
      <4>1. PICK m \in members : m[1] = c
        OBVIOUS
      <4> QED BY <3>1, <3>2, <4>1
    <3> QED BY <3>3, <3>4
  <2> QED BY <2>5, <2>7, <2>8, <2>9
<1> QED BY <1>1, IndexInvariant, PTL
==============================================================================
