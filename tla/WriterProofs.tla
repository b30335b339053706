---------------------------- MODULE WriterProofs ----------------------------
(* Proofs about Writer, for any number of messages and breaks. *)
EXTENDS Writer, StoredObject, FiniteSetTheorems, TLAPS

\* Where a message is that its writer has not written in this attempt.
Before == {"idle", "dbget", "sending", "lost", "queued", "write"}

\* A message was written at most once more than handlers broke off, and one that is to be
\* written once more has broken off since.
WriteCount ==
    \A m \in Msg :
        /\ applied[m] <= breaks + 1
        /\ pc[m] \in Before => applied[m] <= breaks
        /\ pc[m] \in Before /\ applied[m] > 0 => m \in broken

\* A message that is past its publish, and not an update, has been told.
ToldByNow ==
    \A m \in Msg :
        /\ pc[m] = "publish" => m \notin Update
        /\ pc[m] = "unlink" => m \in Delete /\ told[m] # "no"
        /\ pc[m] \in {"hset", "expire"} => m \notin Delete /\ (m \notin Update => told[m] # "no")

\* The one message whose change is on its way to the cache is the last change of the document.
MirrorsOne ==
    ~tainted =>
        /\ \A m, n \in Msg : pc[m] \in Mirroring /\ pc[n] \in Mirroring => m = n
        /\ \A m \in Msg :
            /\ pc[m] \in Mirroring => doc = IF m \in Delete THEN none ELSE m
            /\ pc[m] \in {"publish", "hset", "unlink"} => (Cached => cache.ttl)
            /\ pc[m] = "expire" => cache.acl \in {none, m}

Inv == TypeOK /\ WriteCount /\ RepeatsOnlyAfterBreak /\ ToldByNow /\ ChangesAreTold
       /\ AcceptedIsQueued /\ MirrorsOne /\ CacheMirrors
-----------------------------------------------------------------------------
\* The types are kept; the count of writes is, with the count of breaks.
LEMMA TypeStep ==
    ASSUME TypeOK, WriteCount, ToldByNow, [Next]_vars
    PROVE  TypeOK'
  <1> USE WriterAssumption DEF TypeOK, WriteCount, Before, vars, history, Msg, Pc, Handling, Mirroring
  <1>1. ASSUME NEW m \in Msg, Request(m) PROVE TypeOK'
    BY <1>1 DEF Request, Goto, Answered, Cached
  <1>2. ASSUME NEW m \in Msg, LoadFromDatabase(m) PROVE TypeOK'
    BY <1>2 DEF LoadFromDatabase, Goto, Answered
  <1>3. ASSUME NEW m \in Msg, Enqueue(m) PROVE TypeOK'
    BY <1>3 DEF Enqueue, Goto
  <1>4. ASSUME NEW m \in Msg, Accept(m) PROVE TypeOK'
    BY <1>4 DEF Accept, Answered, Confirmed
  <1>5. ASSUME NEW m \in Msg, PublishTimesOut(m) PROVE TypeOK'
    BY <1>5 DEF PublishTimesOut, Goto, Answered
  <1>6. ASSUME NEW m \in Msg, Take(m) PROVE TypeOK'
    BY <1>6 DEF Take, Goto
  <1>7. ASSUME NEW m \in Msg, CreateItem(m) PROVE TypeOK'
    BY <1>7 DEF CreateItem, Goto, Wrote
  <1>8. ASSUME NEW m \in Msg, UpdateItem(m) PROVE TypeOK'
    BY <1>8 DEF UpdateItem, Goto, Wrote
  <1>9. ASSUME NEW m \in Msg, DeleteItem(m) PROVE TypeOK'
    BY <1>9 DEF DeleteItem, Goto, Wrote
  <1>10. ASSUME NEW m \in Msg, NothingThere(m) PROVE TypeOK'
    BY <1>10 DEF NothingThere, Goto
  <1>11. ASSUME NEW m \in Msg, Publish(m) PROVE TypeOK'
    BY <1>11 DEF Publish, Goto, AfterPublish
  <1>12. ASSUME NEW m \in Msg, PublishFails(m) PROVE TypeOK'
    BY <1>12 DEF PublishFails, Goto, AfterPublish
  <1>13. ASSUME NEW m \in Msg, HSet(m) PROVE TypeOK'
    BY <1>13 DEF HSet, Goto, ToldByNow
  <1>14. ASSUME NEW m \in Msg, SetExpiry(m) PROVE TypeOK'
    BY <1>14 DEF SetExpiry, Goto, AfterCache, Cached
  <1>15. ASSUME NEW m \in Msg, UnlinkEntry(m) PROVE TypeOK'
    BY <1>15 DEF UnlinkEntry, Goto, NoEntry
  <1>16. ASSUME NEW m \in Msg, CacheFails(m) PROVE TypeOK'
    BY <1>16 DEF CacheFails, Goto, AfterCache
  <1>17. ASSUME NEW m \in Msg, Breaks(m) PROVE TypeOK'
    BY <1>17 DEF Breaks, Goto
  <1>18. CASE EntryExpires
    BY <1>18 DEF EntryExpires, NoEntry
  <1>19. CASE UNCHANGED vars
    BY <1>19
  <1> QED BY <1>1, <1>2, <1>3, <1>4, <1>5, <1>6, <1>7, <1>8, <1>9, <1>10, <1>11, <1>12, <1>13,
            <1>14, <1>15, <1>16, <1>17, <1>18, <1>19 DEF Next, Handler

\* What is written again has broken off.
LEMMA CountStep ==
    ASSUME TypeOK, WriteCount, RepeatsOnlyAfterBreak, [Next]_vars
    PROVE  (WriteCount /\ RepeatsOnlyAfterBreak)'
  <1> USE WriterAssumption DEF TypeOK, WriteCount, RepeatsOnlyAfterBreak, Before, vars, history,
      Msg, Pc, Handling, Mirroring
  <1>1. ASSUME NEW m \in Msg, Request(m) PROVE (WriteCount /\ RepeatsOnlyAfterBreak)'
    BY <1>1 DEF Request, Goto, Answered, Cached
  <1>2. ASSUME NEW m \in Msg, LoadFromDatabase(m) PROVE (WriteCount /\ RepeatsOnlyAfterBreak)'
    BY <1>2 DEF LoadFromDatabase, Goto, Answered
  <1>3. ASSUME NEW m \in Msg, Enqueue(m) PROVE (WriteCount /\ RepeatsOnlyAfterBreak)'
    BY <1>3 DEF Enqueue, Goto
  <1>4. ASSUME NEW m \in Msg, Accept(m) PROVE (WriteCount /\ RepeatsOnlyAfterBreak)'
    BY <1>4 DEF Accept, Answered, Confirmed
  <1>5. ASSUME NEW m \in Msg, PublishTimesOut(m) PROVE (WriteCount /\ RepeatsOnlyAfterBreak)'
    BY <1>5 DEF PublishTimesOut, Goto, Answered
  <1>6. ASSUME NEW m \in Msg, Take(m) PROVE (WriteCount /\ RepeatsOnlyAfterBreak)'
    BY <1>6 DEF Take, Goto
  <1>7. ASSUME NEW m \in Msg, CreateItem(m) PROVE (WriteCount /\ RepeatsOnlyAfterBreak)'
    BY <1>7 DEF CreateItem, Goto, Wrote
  <1>8. ASSUME NEW m \in Msg, UpdateItem(m) PROVE (WriteCount /\ RepeatsOnlyAfterBreak)'
    BY <1>8 DEF UpdateItem, Goto, Wrote
  <1>9. ASSUME NEW m \in Msg, DeleteItem(m) PROVE (WriteCount /\ RepeatsOnlyAfterBreak)'
    BY <1>9 DEF DeleteItem, Goto, Wrote
  <1>10. ASSUME NEW m \in Msg, NothingThere(m) PROVE (WriteCount /\ RepeatsOnlyAfterBreak)'
    BY <1>10 DEF NothingThere, Goto
  <1>11. ASSUME NEW m \in Msg, Publish(m) PROVE (WriteCount /\ RepeatsOnlyAfterBreak)'
    BY <1>11 DEF Publish, Goto, AfterPublish
  <1>12. ASSUME NEW m \in Msg, PublishFails(m) PROVE (WriteCount /\ RepeatsOnlyAfterBreak)'
    BY <1>12 DEF PublishFails, Goto, AfterPublish
  <1>13. ASSUME NEW m \in Msg, HSet(m) PROVE (WriteCount /\ RepeatsOnlyAfterBreak)'
    BY <1>13 DEF HSet, Goto
  <1>14. ASSUME NEW m \in Msg, SetExpiry(m) PROVE (WriteCount /\ RepeatsOnlyAfterBreak)'
    BY <1>14 DEF SetExpiry, Goto, AfterCache, Cached
  <1>15. ASSUME NEW m \in Msg, UnlinkEntry(m) PROVE (WriteCount /\ RepeatsOnlyAfterBreak)'
    BY <1>15 DEF UnlinkEntry, Goto, NoEntry
  <1>16. ASSUME NEW m \in Msg, CacheFails(m) PROVE (WriteCount /\ RepeatsOnlyAfterBreak)'
    BY <1>16 DEF CacheFails, Goto, AfterCache
  <1>17. ASSUME NEW m \in Msg, Breaks(m) PROVE (WriteCount /\ RepeatsOnlyAfterBreak)'
    BY <1>17 DEF Breaks, Goto
  <1>18. CASE EntryExpires
    BY <1>18 DEF EntryExpires, NoEntry
  <1>19. CASE UNCHANGED vars
    BY <1>19
  <1> QED BY <1>1, <1>2, <1>3, <1>4, <1>5, <1>6, <1>7, <1>8, <1>9, <1>10, <1>11, <1>12, <1>13,
            <1>14, <1>15, <1>16, <1>17, <1>18, <1>19 DEF Next, Handler

\* Every way from a write to the end leads past a publish.
LEMMA ToldStep ==
    ASSUME TypeOK, WriteCount, ToldByNow, ChangesAreTold, [Next]_vars
    PROVE  (ToldByNow /\ ChangesAreTold)'
  <1> USE WriterAssumption DEF TypeOK, WriteCount, ToldByNow, ChangesAreTold, Before, vars,
      history, Msg, Pc, Handling, Mirroring
  <1>1. ASSUME NEW m \in Msg, Request(m) PROVE (ToldByNow /\ ChangesAreTold)'
    BY <1>1 DEF Request, Goto, Answered, Cached
  <1>2. ASSUME NEW m \in Msg, LoadFromDatabase(m) PROVE (ToldByNow /\ ChangesAreTold)'
    BY <1>2 DEF LoadFromDatabase, Goto, Answered
  <1>3. ASSUME NEW m \in Msg, Enqueue(m) PROVE (ToldByNow /\ ChangesAreTold)'
    BY <1>3 DEF Enqueue, Goto
  <1>4. ASSUME NEW m \in Msg, Accept(m) PROVE (ToldByNow /\ ChangesAreTold)'
    BY <1>4 DEF Accept, Answered, Confirmed
  <1>5. ASSUME NEW m \in Msg, PublishTimesOut(m) PROVE (ToldByNow /\ ChangesAreTold)'
    BY <1>5 DEF PublishTimesOut, Goto, Answered
  <1>6. ASSUME NEW m \in Msg, Take(m) PROVE (ToldByNow /\ ChangesAreTold)'
    BY <1>6 DEF Take, Goto
  <1>7. ASSUME NEW m \in Msg, CreateItem(m) PROVE (ToldByNow /\ ChangesAreTold)'
    BY <1>7 DEF CreateItem, Goto, Wrote
  <1>8. ASSUME NEW m \in Msg, UpdateItem(m) PROVE (ToldByNow /\ ChangesAreTold)'
    BY <1>8 DEF UpdateItem, Goto, Wrote
  <1>9. ASSUME NEW m \in Msg, DeleteItem(m) PROVE (ToldByNow /\ ChangesAreTold)'
    BY <1>9 DEF DeleteItem, Goto, Wrote
  <1>10. ASSUME NEW m \in Msg, NothingThere(m) PROVE (ToldByNow /\ ChangesAreTold)'
    BY <1>10 DEF NothingThere, Goto
  <1>11. ASSUME NEW m \in Msg, Publish(m) PROVE (ToldByNow /\ ChangesAreTold)'
    BY <1>11 DEF Publish, Goto, AfterPublish
  <1>12. ASSUME NEW m \in Msg, PublishFails(m) PROVE (ToldByNow /\ ChangesAreTold)'
    BY <1>12 DEF PublishFails, Goto, AfterPublish
  <1>13. ASSUME NEW m \in Msg, HSet(m) PROVE (ToldByNow /\ ChangesAreTold)'
    BY <1>13 DEF HSet, Goto
  <1>14. ASSUME NEW m \in Msg, SetExpiry(m) PROVE (ToldByNow /\ ChangesAreTold)'
    BY <1>14 DEF SetExpiry, Goto, AfterCache, Cached
  <1>15. ASSUME NEW m \in Msg, UnlinkEntry(m) PROVE (ToldByNow /\ ChangesAreTold)'
    BY <1>15 DEF UnlinkEntry, Goto, NoEntry
  <1>16. ASSUME NEW m \in Msg, CacheFails(m) PROVE (ToldByNow /\ ChangesAreTold)'
    BY <1>16 DEF CacheFails, Goto, AfterCache
  <1>17. ASSUME NEW m \in Msg, Breaks(m) PROVE (ToldByNow /\ ChangesAreTold)'
    BY <1>17 DEF Breaks, Goto
  <1>18. CASE EntryExpires
    BY <1>18 DEF EntryExpires, NoEntry
  <1>19. CASE UNCHANGED vars
    BY <1>19
  <1> QED BY <1>1, <1>2, <1>3, <1>4, <1>5, <1>6, <1>7, <1>8, <1>9, <1>10, <1>11, <1>12, <1>13,
            <1>14, <1>15, <1>16, <1>17, <1>18, <1>19 DEF Next, Handler

\* An accepted message stays where a writer finds it, or is through.
LEMMA AcceptedStep ==
    ASSUME TypeOK, AcceptedIsQueued, [Next]_vars
    PROVE  AcceptedIsQueued'
  <1> USE WriterAssumption DEF TypeOK, AcceptedIsQueued, vars, history, Msg, Pc, Handling, Mirroring
  <1>1. ASSUME NEW m \in Msg, Request(m) PROVE AcceptedIsQueued'
    BY <1>1 DEF Request, Goto, Answered, Cached
  <1>2. ASSUME NEW m \in Msg, LoadFromDatabase(m) PROVE AcceptedIsQueued'
    BY <1>2 DEF LoadFromDatabase, Goto, Answered
  <1>3. ASSUME NEW m \in Msg, Enqueue(m) PROVE AcceptedIsQueued'
    BY <1>3 DEF Enqueue, Goto
  <1>4. ASSUME NEW m \in Msg, Accept(m) PROVE AcceptedIsQueued'
    BY <1>4 DEF Accept, Answered, Confirmed
  <1>5. ASSUME NEW m \in Msg, PublishTimesOut(m) PROVE AcceptedIsQueued'
    BY <1>5 DEF PublishTimesOut, Goto, Answered
  <1>6. ASSUME NEW m \in Msg, Take(m) PROVE AcceptedIsQueued'
    BY <1>6 DEF Take, Goto
  <1>7. ASSUME NEW m \in Msg, CreateItem(m) PROVE AcceptedIsQueued'
    BY <1>7 DEF CreateItem, Goto, Wrote
  <1>8. ASSUME NEW m \in Msg, UpdateItem(m) PROVE AcceptedIsQueued'
    BY <1>8 DEF UpdateItem, Goto, Wrote
  <1>9. ASSUME NEW m \in Msg, DeleteItem(m) PROVE AcceptedIsQueued'
    BY <1>9 DEF DeleteItem, Goto, Wrote
  <1>10. ASSUME NEW m \in Msg, NothingThere(m) PROVE AcceptedIsQueued'
    BY <1>10 DEF NothingThere, Goto
  <1>11. ASSUME NEW m \in Msg, Publish(m) PROVE AcceptedIsQueued'
    BY <1>11 DEF Publish, Goto, AfterPublish
  <1>12. ASSUME NEW m \in Msg, PublishFails(m) PROVE AcceptedIsQueued'
    BY <1>12 DEF PublishFails, Goto, AfterPublish
  <1>13. ASSUME NEW m \in Msg, HSet(m) PROVE AcceptedIsQueued'
    BY <1>13 DEF HSet, Goto
  <1>14. ASSUME NEW m \in Msg, SetExpiry(m) PROVE AcceptedIsQueued'
    BY <1>14 DEF SetExpiry, Goto, AfterCache, Cached
  <1>15. ASSUME NEW m \in Msg, UnlinkEntry(m) PROVE AcceptedIsQueued'
    BY <1>15 DEF UnlinkEntry, Goto, NoEntry
  <1>16. ASSUME NEW m \in Msg, CacheFails(m) PROVE AcceptedIsQueued'
    BY <1>16 DEF CacheFails, Goto, AfterCache
  <1>17. ASSUME NEW m \in Msg, Breaks(m) PROVE AcceptedIsQueued'
    BY <1>17 DEF Breaks, Goto
  <1>18. CASE EntryExpires
    BY <1>18 DEF EntryExpires, NoEntry
  <1>19. CASE UNCHANGED vars
    BY <1>19
  <1> QED BY <1>1, <1>2, <1>3, <1>4, <1>5, <1>6, <1>7, <1>8, <1>9, <1>10, <1>11, <1>12, <1>13,
            <1>14, <1>15, <1>16, <1>17, <1>18, <1>19 DEF Next, Handler

\* One change at a time goes from the document to the cache.
LEMMA MirrorStep ==
    ASSUME TypeOK, ToldByNow, MirrorsOne, CacheMirrors, [Next]_vars
    PROVE  (MirrorsOne /\ CacheMirrors)'
  <1> USE WriterAssumption DEF TypeOK, ToldByNow, MirrorsOne, CacheMirrors, Cached, Overlaps,
      vars, history, Msg, Pc, Handling, Mirroring
  <1>1. ASSUME NEW m \in Msg, Request(m) PROVE (MirrorsOne /\ CacheMirrors)'
    BY <1>1 DEF Request, Goto, Answered, Cached
  <1>2. ASSUME NEW m \in Msg, LoadFromDatabase(m) PROVE (MirrorsOne /\ CacheMirrors)'
    BY <1>2 DEF LoadFromDatabase, Goto, Answered
  <1>3. ASSUME NEW m \in Msg, Enqueue(m) PROVE (MirrorsOne /\ CacheMirrors)'
    BY <1>3 DEF Enqueue, Goto
  <1>4. ASSUME NEW m \in Msg, Accept(m) PROVE (MirrorsOne /\ CacheMirrors)'
    BY <1>4 DEF Accept, Answered, Confirmed
  <1>5. ASSUME NEW m \in Msg, PublishTimesOut(m) PROVE (MirrorsOne /\ CacheMirrors)'
    BY <1>5 DEF PublishTimesOut, Goto, Answered
  <1>6. ASSUME NEW m \in Msg, Take(m) PROVE (MirrorsOne /\ CacheMirrors)'
    BY <1>6 DEF Take, Goto
  <1>7. ASSUME NEW m \in Msg, CreateItem(m) PROVE (MirrorsOne /\ CacheMirrors)'
    BY <1>7 DEF CreateItem, Goto, Wrote
  <1>8. ASSUME NEW m \in Msg, UpdateItem(m) PROVE (MirrorsOne /\ CacheMirrors)'
    BY <1>8 DEF UpdateItem, Goto, Wrote
  <1>9. ASSUME NEW m \in Msg, DeleteItem(m) PROVE (MirrorsOne /\ CacheMirrors)'
    BY <1>9 DEF DeleteItem, Goto, Wrote
  <1>10. ASSUME NEW m \in Msg, NothingThere(m) PROVE (MirrorsOne /\ CacheMirrors)'
    BY <1>10 DEF NothingThere, Goto
  <1>11. ASSUME NEW m \in Msg, Publish(m) PROVE (MirrorsOne /\ CacheMirrors)'
    BY <1>11 DEF Publish, Goto, AfterPublish
  <1>12. ASSUME NEW m \in Msg, PublishFails(m) PROVE (MirrorsOne /\ CacheMirrors)'
    BY <1>12 DEF PublishFails, Goto, AfterPublish
  <1>13. ASSUME NEW m \in Msg, HSet(m) PROVE (MirrorsOne /\ CacheMirrors)'
    BY <1>13 DEF HSet, Goto
  <1>14. ASSUME NEW m \in Msg, SetExpiry(m) PROVE (MirrorsOne /\ CacheMirrors)'
    BY <1>14 DEF SetExpiry, Goto, AfterCache, Cached
  <1>15. ASSUME NEW m \in Msg, UnlinkEntry(m) PROVE (MirrorsOne /\ CacheMirrors)'
    BY <1>15 DEF UnlinkEntry, Goto, NoEntry
  <1>16. ASSUME NEW m \in Msg, CacheFails(m) PROVE (MirrorsOne /\ CacheMirrors)'
    <2>1. tainted'
      BY <1>16 DEF CacheFails
    <2> QED BY <2>1
  <1>17. ASSUME NEW m \in Msg, Breaks(m) PROVE (MirrorsOne /\ CacheMirrors)'
    <2>1. CASE pc[m] \in Mirroring
      <3>1. tainted'
        BY <1>17, <2>1 DEF Breaks
      <3> QED BY <3>1
    <2>2. CASE pc[m] \notin Mirroring
      <3>1. \A n \in Msg : pc'[n] = pc[n] \/ (pc[n] \notin Mirroring /\ pc'[n] \notin Mirroring)
        BY <1>17, <2>2 DEF Breaks, Goto
      <3>2. doc' = doc /\ cache' = cache /\ (~tainted' => ~tainted)
        BY <1>17 DEF Breaks
      <3>3. MirrorsOne'
        BY <3>1, <3>2
      <3>4. CacheMirrors'
        BY <3>1, <3>2
      <3> QED BY <3>3, <3>4
    <2> QED BY <2>1, <2>2
  <1>18. CASE EntryExpires
    BY <1>18 DEF EntryExpires, NoEntry
  <1>19. CASE UNCHANGED vars
    BY <1>19
  <1> QED BY <1>1, <1>2, <1>3, <1>4, <1>5, <1>6, <1>7, <1>8, <1>9, <1>10, <1>11, <1>12, <1>13,
            <1>14, <1>15, <1>16, <1>17, <1>18, <1>19 DEF Next, Handler

-----------------------------------------------------------------------------
\* The invariant holds at the start.
LEMMA InvInit == Init => Inv
  <1> SUFFICES ASSUME Init PROVE Inv
    OBVIOUS
  <1>1. TypeOK
    <2>1. breaks \in 0..MaxBreaks /\ 0 \in 0..(MaxBreaks + 1)
      BY WriterAssumption DEF Init
    <2>2. cache \in [acl : Create \cup Update \cup {none}, owner : BOOLEAN, ttl : BOOLEAN]
      BY DEF Init, NoEntry
    <2>3. pc \in [Msg -> Pc]
      BY DEF Init, Pc
    <2>4. answer \in [Msg -> {"none", "accepted", "failed", "forbidden", "absent"}]
          /\ told \in [Msg -> {"no", "failed", "yes"}]
      BY DEF Init
    <2>5. applied \in [Msg -> 0..(MaxBreaks + 1)]
      BY <2>1 DEF Init
    <2>6. doc \in Create \cup Update \cup {none} /\ broken \subseteq Msg /\ tainted \in BOOLEAN
      BY DEF Init
    <2> QED BY <2>1, <2>2, <2>3, <2>4, <2>5, <2>6 DEF TypeOK
  <1>2. WriteCount /\ RepeatsOnlyAfterBreak
    BY WriterAssumption DEF Init, WriteCount, RepeatsOnlyAfterBreak
  <1>3. ToldByNow /\ ChangesAreTold /\ AcceptedIsQueued
    BY DEF Init, ToldByNow, ChangesAreTold, AcceptedIsQueued, Msg
  <1>4. MirrorsOne /\ CacheMirrors
    BY DEF Init, MirrorsOne, CacheMirrors, Cached, NoEntry, Mirroring, Msg
  <1> QED BY <1>1, <1>2, <1>3, <1>4 DEF Inv

\* ... and every step keeps it.
THEOREM InvHolds == Spec => []Inv
  <1>1. Inv /\ [Next]_vars => Inv'
    BY TypeStep, CountStep, ToldStep, AcceptedStep, MirrorStep DEF Inv
  <1> QED BY <1>1, InvInit, PTL DEF Spec

\* Every reachable state of the writer is type-correct; a message is written at most once more
\* than handlers break off.
THEOREM TypeCorrect == Spec => []TypeOK
  <1>1. Inv => TypeOK
    BY DEF Inv
  <1> QED BY <1>1, InvHolds, PTL

\* However many writers work on an object: a write is repeated only after its handler broke off.
THEOREM RepeatsAreBreaks == Spec => []RepeatsOnlyAfterBreak
  <1>1. Inv => RepeatsOnlyAfterBreak
    BY DEF Inv
  <1> QED BY <1>1, InvHolds, PTL

\* However many messages there are: what was written and not broken off is told, or its publish failed.
THEOREM EveryChangeIsTold == Spec => []ChangesAreTold
  <1>1. Inv => ChangesAreTold
    BY DEF Inv
  <1> QED BY <1>1, InvHolds, PTL

\* Every request answered with 202 has its message on the queue, with a writer, or behind it.
THEOREM EveryAcceptedIsQueued == Spec => []AcceptedIsQueued
  <1>1. Inv => AcceptedIsQueued
    BY DEF Inv
  <1> QED BY <1>1, InvHolds, PTL

\* While changes of an object do not overlap, its cache entry has what the database has, and expires.
THEOREM CacheIsMirror == Spec => []CacheMirrors
  <1>1. Inv => CacheMirrors
    BY DEF Inv
  <1> QED BY <1>1, InvHolds, PTL

-----------------------------------------------------------------------------
(* The stored object *)

\* Removing from a sequence leaves a sequence: the ranks of the items that stay are 1..n.
LEMMA WithoutIsSeq ==
    ASSUME NEW S, NEW s \in Seq(S), NEW x
    PROVE  Without(s, x) \in Seq(S)
  <1> DEFINE kept == {i \in DOMAIN s : s[i] # x}
             UpTo(i) == {k \in kept : k <= i}
             rank == [i \in kept |-> Cardinality(UpTo(i))]
             n == Cardinality(kept)
  <1>1. IsFiniteSet(kept) /\ n \in Nat
    <2>1. kept \in SUBSET (1..Len(s)) /\ Len(s) \in Nat
      OBVIOUS
    <2>2. IsFiniteSet(1..Len(s))
      BY <2>1, FS_Interval
    <2>3. IsFiniteSet(kept)
      BY <2>1, <2>2, FS_Subset
    <2> HIDE DEF kept
    <2> QED BY <2>3, FS_CardinalityType
  <1>2. ASSUME NEW i \in kept
        PROVE  IsFiniteSet(UpTo(i)) /\ Cardinality(UpTo(i)) \in 1..n
    <2>1. UpTo(i) \in SUBSET kept /\ i \in UpTo(i)
      OBVIOUS
    <2> HIDE DEF kept, UpTo
    <2>2. IsFiniteSet(UpTo(i)) /\ Cardinality(UpTo(i)) <= n
      BY <1>1, <2>1, FS_Subset
    <2>3. Cardinality(UpTo(i)) \in Nat /\ Cardinality(UpTo(i)) # 0
      BY <2>1, <2>2, FS_CardinalityType, FS_EmptySet
    <2> QED BY <1>1, <2>2, <2>3
  <1>3. ASSUME NEW i \in kept, NEW j \in kept, i < j
        PROVE  Cardinality(UpTo(i)) # Cardinality(UpTo(j))
    <2>1. UpTo(i) \in SUBSET UpTo(j) /\ j \in UpTo(j) /\ j \notin UpTo(i)
      BY <1>3
    <2> HIDE DEF kept, UpTo
    <2> QED BY <1>2, <2>1, FS_Subset
  <1>4. rank \in Injection(kept, 1..n)
    <2>1. rank \in [kept -> 1..n]
      <3> HIDE DEF kept, UpTo, n
      <3> QED BY <1>2
    <2>2. ASSUME NEW i \in kept, NEW j \in kept, rank[i] = rank[j] PROVE i = j
      <3>1. rank[i] = Cardinality(UpTo(i)) /\ rank[j] = Cardinality(UpTo(j))
        OBVIOUS
      <3>2. i \in Nat /\ j \in Nat
        OBVIOUS
      <3>3. Cardinality(UpTo(i)) = Cardinality(UpTo(j))
        BY <2>2, <3>1, Zenon
      <3> HIDE DEF kept, UpTo, rank, n
      <3>4. ~(i < j) /\ ~(j < i)
        BY <1>3, <3>3
      <3> QED BY <3>2, <3>4
    <2> HIDE DEF kept, UpTo, rank, n
    <2>3. \A i, j \in kept : rank[i] = rank[j] => i = j
      BY <2>2, Zenon
    <2> QED BY <2>1, <2>3, Zenon DEF Injection, IsInjective
  <1>5. rank \in Surjection(kept, 1..n)
    <2> HIDE DEF kept, UpTo, rank
    <2>1. IsFiniteSet(1..n) /\ Cardinality(1..n) = n
      BY <1>1, FS_Interval
    <2> QED BY <1>4, <2>1, FS_Injection
  <1>6. ASSUME NEW j \in 1..n
        PROVE  s[CHOOSE i \in kept : Cardinality(UpTo(i)) = j] \in S
    <2>1. PICK p \in kept : Cardinality(UpTo(p)) = j
      <3> HIDE DEF kept, UpTo, n
      <3> QED BY <1>5 DEF Surjection
    <2>2. (CHOOSE i \in kept : Cardinality(UpTo(i)) = j) \in kept
      <3> HIDE DEF kept, UpTo, n
      <3> QED BY <2>1
    <2>3. \A i \in kept : s[i] \in S
      OBVIOUS
    <2> HIDE DEF kept, UpTo, n
    <2> QED BY <2>2, <2>3
  <1>7. Without(s, x) = [j \in 1..n |-> s[CHOOSE i \in kept : Cardinality(UpTo(i)) = j]]
    BY DEF Without
  <1> HIDE DEF kept, UpTo, n
  <1> QED BY <1>1, <1>6, <1>7

\* What an operation makes of the content of a field is of the field's type.
LEMMA PatchKeepsType ==
    ASSUME NEW p, ValidPatch(p), p.op # "replace",
           NEW old \in Contents(Schema[p.field].type)
    PROVE  LET type == Schema[p.field].type
           IN  /\ p.op \in {"append", "prepend"} =>
                    /\ old \o Pieces(type, p.value) \in Contents(type)
                    /\ Pieces(type, p.value) \o old \in Contents(type)
               /\ p.op \in {"incr", "decr"} =>
                    old + p.value.v \in Contents(type) /\ old - p.value.v \in Contents(type)
               /\ p.op = "remove" => Without(old, p.value.v) \in Contents(type)
  <1> DEFINE type == Schema[p.field].type
  <1>1. type \in {"string", "int", "array"}
    BY DEF ValidPatch, Schema
  <1>2. p.op \in {"append", "prepend", "incr", "decr", "remove"} /\ type \in AllowedTypes[p.op]
    BY DEF ValidPatch, AllowedTypes
  <1>3. p.value.v \in Contents(ElementType(type))
    BY DEF ValidPatch, HasType
  <1> HIDE DEF type
  <1>4. CASE p.op \in {"append", "prepend"}
    <2>1. type \in {"array", "string"}
      BY <1>2, <1>4 DEF AllowedTypes
    <2>2. CASE type = "array"
      BY <1>3, <1>4, <2>2 DEF type, Contents, ElementType, Pieces
    <2>3. CASE type = "string"
      BY <1>3, <1>4, <2>3 DEF type, Contents, ElementType, Pieces
    <2> QED BY <2>1, <2>2, <2>3
  <1>5. CASE p.op \in {"incr", "decr"}
    <2>1. type = "int"
      BY <1>2, <1>5 DEF AllowedTypes
    <2> QED BY <1>3, <1>5, <2>1 DEF type, Contents, ElementType
  <1>6. CASE p.op = "remove"
    <2>1. type = "array"
      BY <1>2, <1>6 DEF AllowedTypes
    <2> QED BY <1>6, <2>1, WithoutIsSeq DEF type, Contents
  <1> QED BY <1>2, <1>4, <1>5, <1>6

\* Setting a declared field to a value of its type keeps an object valid.
LEMMA ExtendKeepsValid ==
    ASSUME NEW obj, ValidBody(obj), NEW f \in DOMAIN Schema, NEW x, HasType(x, Schema[f].type)
    PROVE  ValidBody(Extend(obj, f, x))
  <1>1. DOMAIN Extend(obj, f, x) = DOMAIN obj \cup {f}
    BY DEF Extend
  <1>2. \A g \in DOMAIN obj \cup {f} : Extend(obj, f, x)[g] = IF g = f THEN x ELSE obj[g]
    BY DEF Extend
  <1> QED BY <1>1, <1>2, Zenon DEF ValidBody

\* A patch that was valid when it was sent leaves whatever object it meets valid.
LEMMA AppliedIsValid ==
    ASSUME NEW p, ValidPatch(p), NEW obj, ValidBody(obj)
    PROVE  ValidBody(Applied(p, obj))
  <1> DEFINE type == Schema[p.field].type
             old == IF HasValue(p.field, obj) THEN obj[p.field].v ELSE Empty(type)
             Becomes(w) == Extend(obj, p.field, [type |-> type, v |-> w])
  <1>1. p.field \in DOMAIN Schema
    BY DEF ValidPatch
  <1>2. CASE p.op = "replace"
    <2>1. HasType(p.value, Schema[p.field].type)
      BY <1>2 DEF ValidPatch
    <2>2. Applied(p, obj) = Extend(obj, p.field, p.value)
      BY <1>2 DEF Applied
    <2> QED BY <1>1, <2>1, <2>2, ExtendKeepsValid
  <1>3. CASE p.op # "replace"
    <2>1. type \in {"string", "int", "array"}
      BY <1>1 DEF Schema
    <2>2. Empty(type) \in Contents(type)
      <3> HIDE DEF type
      <3>1. CASE type = "int"
        BY <3>1 DEF Empty, Contents
      <3>2. CASE type = "string"
        BY <3>2 DEF Empty, Contents
      <3>3. CASE type = "array"
        BY <3>3 DEF Empty, Contents
      <3> QED BY <2>1, <3>1, <3>2, <3>3
    <2>3. HasValue(p.field, obj) => obj[p.field].v \in Contents(type)
      BY DEF ValidBody, HasValue, HasType
    <2>4. old \in Contents(type)
      BY <2>2, <2>3
    <2>5. ASSUME NEW w \in Contents(type) PROVE ValidBody(Becomes(w))
      <3>1. HasType([type |-> type, v |-> w], type)
        BY <2>5 DEF HasType
      <3> QED BY <1>1, <3>1, ExtendKeepsValid
    <2>6. p.op \in {"append", "prepend", "incr", "decr", "remove"}
      BY <1>3 DEF ValidPatch, AllowedTypes
    <2>7. \/ Applied(p, obj) = obj
          \/ \E w \in Contents(type) : Applied(p, obj) = Becomes(w)
      <3> HIDE DEF type, old, Becomes
      <3>1. CASE p.op = "append"
        <4>1. old \o Pieces(type, p.value) \in Contents(type)
          BY <1>3, <2>4, <3>1, PatchKeepsType DEF type
        <4>2. Applied(p, obj) = Becomes(old \o Pieces(type, p.value))
          BY <3>1 DEF Applied, type, old, Becomes
        <4> QED BY <4>1, <4>2
      <3>2. CASE p.op = "prepend"
        <4>1. Pieces(type, p.value) \o old \in Contents(type)
          BY <1>3, <2>4, <3>2, PatchKeepsType DEF type
        <4>2. Applied(p, obj) = Becomes(Pieces(type, p.value) \o old)
          BY <3>2 DEF Applied, type, old, Becomes
        <4> QED BY <4>1, <4>2
      <3>3. CASE p.op = "incr"
        <4>1. old + p.value.v \in Contents(type)
          BY <1>3, <2>4, <3>3, PatchKeepsType DEF type
        <4>2. Applied(p, obj) = Becomes(old + p.value.v)
          BY <3>3 DEF Applied, type, old, Becomes
        <4> QED BY <4>1, <4>2
      <3>4. CASE p.op = "decr"
        <4>1. old - p.value.v \in Contents(type)
          BY <1>3, <2>4, <3>4, PatchKeepsType DEF type
        <4>2. Applied(p, obj) = Becomes(old - p.value.v)
          BY <3>4 DEF Applied, type, old, Becomes
        <4> QED BY <4>1, <4>2
      <3>5. CASE p.op = "remove"
        <4>1. Without(old, p.value.v) \in Contents(type)
          BY <1>3, <2>4, <3>5, PatchKeepsType DEF type
        <4>2. Applied(p, obj) = IF HasValue(p.field, obj) THEN Becomes(Without(old, p.value.v)) ELSE obj
          BY <3>5 DEF Applied, type, old, Becomes
        <4> QED BY <4>1, <4>2
      <3> QED BY <2>6, <3>1, <3>2, <3>3, <3>4, <3>5
    <2> HIDE DEF type, Becomes
    <2> QED BY <2>5, <2>7
  <1> QED BY <1>2, <1>3

\* What is on the queue was valid when it was accepted.
Queued ==
    {[event |-> "created", data |-> obj] :
        obj \in {x \in {Owned(user, body) : user \in Sender, body \in Bodies} : ValidBody(x)}}
    \cup {[event |-> "updated", data |-> p] : p \in {x \in PatchesSent : ValidPatch(x)}}
    \cup {[event |-> "deleted", data |-> absent]}

ObjectInv == queue \in Seq(Queued) /\ StoredConforms

LEMMA QueueStaysValid ==
    ASSUME ObjectInv, ObjectNext
    PROVE  queue' \in Seq(Queued)
  <1> USE DEF ObjectInv
  <1>1. ASSUME NEW granted \in BOOLEAN, NEW event \in Queued, PublishWrite(granted, event)
        PROVE  queue' \in Seq(Queued)
    <2> HIDE DEF Queued
    <2> QED BY <1>1 DEF PublishWrite
  <1>2. ASSUME NEW granted \in BOOLEAN, NEW user \in Sender, NEW body \in Bodies,
               CreateObject(user, body, granted)
        PROVE  queue' \in Seq(Queued)
    <2>1. [event |-> "created", data |-> Owned(user, body)] \in Queued
      BY <1>2 DEF CreateObject, Queued
    <2> QED BY <1>1, <1>2, <2>1 DEF CreateObject
  <1>3. ASSUME NEW granted \in BOOLEAN, NEW p \in PatchesSent, UpdateObject(p, granted)
        PROVE  queue' \in Seq(Queued)
    <2>1. [event |-> "updated", data |-> p] \in Queued
      BY <1>3 DEF UpdateObject, Queued
    <2> QED BY <1>1, <1>3, <2>1 DEF UpdateObject
  <1>4. ASSUME NEW granted \in BOOLEAN, DeleteObject(granted) PROVE queue' \in Seq(Queued)
    <2>1. [event |-> "deleted", data |-> absent] \in Queued
      BY DEF Queued
    <2> QED BY <1>1, <1>4, <2>1 DEF DeleteObject
  <1>5. CASE WriteNext
    <2> HIDE DEF Queued
    <2> QED BY <1>5 DEF WriteNext
  <1> QED BY <1>2, <1>3, <1>4, <1>5 DEF ObjectNext

LEMMA RowStaysValid ==
    ASSUME ObjectInv, ObjectNext
    PROVE  StoredConforms'
  <1>1. CASE row' = row
    <2>1. StoredConforms
      BY DEF ObjectInv
    <2> QED BY <1>1, <2>1 DEF StoredConforms
  <1>2. CASE WriteNext
    <2>1. Head(queue) \in Queued /\ row' = Written(Head(queue))
      <3> HIDE DEF Queued
      <3> QED BY <1>2 DEF WriteNext, ObjectInv
    <2>2. PICK event \in Queued : row' = Written(event)
      BY <2>1
    <2>3. CASE event.event = "created"
      <3>1. ValidBody(event.data)
        BY <2>3 DEF Queued
      <3> QED BY <2>2, <2>3, <3>1 DEF Written, StoredConforms
    <2>4. CASE event.event = "updated"
      <3>1. ValidPatch(event.data)
        BY <2>4 DEF Queued
      <3>2. row' = IF row = absent THEN absent ELSE Applied(event.data, row)
        BY <2>2, <2>4 DEF Written
      <3>3. CASE row = absent
        BY <3>2, <3>3 DEF StoredConforms
      <3>4. CASE row # absent
        <4>1. ValidBody(row)
          BY <3>4 DEF ObjectInv, StoredConforms
        <4>2. ValidBody(Applied(event.data, row))
          BY <3>1, <4>1, AppliedIsValid
        <4> QED BY <3>2, <3>4, <4>2 DEF StoredConforms
      <3> QED BY <3>3, <3>4
    <2>5. CASE event.event = "deleted"
      BY <2>2, <2>5 DEF Written, StoredConforms
    <2> QED BY <2>3, <2>4, <2>5 DEF Queued
  <1> QED BY <1>1, <1>2 DEF ObjectNext, CreateObject, UpdateObject, DeleteObject, PublishWrite

\* Patches are checked when they are sent and applied when others have changed or removed
\* what they were sent for: the object keeps the fields that creation asked for, gets none that
\* the schema does not know, and every field keeps its type or, if it may, is null, for any
\* bodies, patches and number of writes.
THEOREM ObjectConforms == ObjectSpec => []StoredConforms
  <1>1. ObjectInit => ObjectInv
    BY DEF ObjectInit, ObjectInv, StoredConforms
  <1>2. ObjectInv /\ [ObjectNext]_object => ObjectInv'
    <2> SUFFICES ASSUME ObjectInv, [ObjectNext]_object PROVE ObjectInv'
      OBVIOUS
    <2>1. CASE ObjectNext
      BY <2>1, QueueStaysValid, RowStaysValid DEF ObjectInv
    <2>2. CASE UNCHANGED object
      <3>1. row' = row /\ queue' = queue
        BY <2>2 DEF object
      <3> QED BY <3>1 DEF ObjectInv, StoredConforms
    <2> QED BY <2>1, <2>2
  <1>3. ObjectInv => StoredConforms
    BY DEF ObjectInv
  <1> QED BY <1>1, <1>2, <1>3, PTL DEF ObjectSpec
==============================================================================
