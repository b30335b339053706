------------------------------ MODULE ApiProofs ------------------------------
(***************************************************************************)
(* Proofs about the API.                                                   *)
(*                                                                         *)
(* Of Accounts, for any number of requests, states, lists and faults: the  *)
(* types, that there is one account per username unless a lock was lost    *)
(* too early, that a state parameter signs in once, that a sign-in that    *)
(* succeeds is complete, and that listing the devices of an account takes  *)
(* none off that was saved within a minute.                                *)
(*                                                                         *)
(* Of ApiService, whose state is another, for any number of calls in       *)
(* flight, services and outages: the types, that a closed process is not   *)
(* listed and sends no more pings, and that neither its ping loop nor its  *)
(* registration comes to a dead end.                                       *)
(***************************************************************************)
EXTENDS Accounts, ApiService, TLAPS

\* A request whose account is not created yet; local sign-ins neither lock nor create.
NotYet ==
    \A r \in Request :
        /\ pc[r] \in {"start", "acquire", "find", "insert"} => account[r] = "none"
        /\ r \in Login => pc[r] \notin {"acquire", "insert", "refresh", "writeOwn"}

\* Who is between the search and the account's being visible has the lock, or has lost it.
LockHeld ==
    \A r \in Request \ exposed :
        /\ pc[r] \in Locked /\ r \notin Login /\ account[r] \in {"none", "stored"} => lock = r
        /\ account[r] = "stored" => lock = r

\* Who is about to create an account has found none, and none has come up since.
NoneFound ==
    \A r \in Request \ exposed : pc[r] = "insert" =>
        \A a \in Request \ ({r} \cup exposed) : account[a] \in {"none", "gone"}

AccountInv == NotYet /\ LockHeld /\ NoneFound /\ OneAccount

\* A nonce that was redeemed is gone, and one request at most went on with it.
NonceInv ==
    /\ \A o \in OAuth : pc[o] \notin {"start", "failed"} => NonceOf[o] \notin nonces
    /\ \A o, p \in OAuth : o # p /\ NonceOf[o] = NonceOf[p] =>
          pc[o] \in {"start", "failed"} \/ pc[p] \in {"start", "failed"}

\* Where a request goes on from, its release left out.
At(r) == IF pc[r] = "release" THEN after[r] ELSE pc[r]

\* A device that is saved is one of a request that is through with it, and of a known account.
SavedIsThrough ==
    \A d \in saved : At(d) \in {"issue", "done", "failed"} /\ acct[d] # none

\* What each step of a sign-in has got together by then.
SoFar ==
    \A r \in Request :
        /\ At(r) \in {"refresh", "writeOwn", "provider", "device", "link", "save", "issue", "done"} =>
              acct[r] \in Request /\ account[acct[r]] # "none"
        /\ At(r) \in {"device", "link", "save", "issue", "done"} /\ r \in OAuth => acct[r] \in google
        /\ At(r) \in {"issue", "done"} => device[r] \in saved /\ acct[device[r]] = acct[r]
        /\ pc[r] = "refresh" => acct[r] = r /\ (r \in OAuth => r \in google)
        /\ pc[r] = "release" => after[r] \in {"link", "provider", "device", "done", "failed"}

\* A request whose device is on the account, or about to be, but not saved yet.
Unsaved(d) == pc[d] = "save" \/ (pc[d] = "refresh" /\ d \in Register)

\* Where a request can be whose device was put on an account.
Linked(d) ==
    /\ At(d) \in {"refresh", "save", "issue", "done", "failed"}
    /\ pc[d] = "refresh" => d \in Register

\* A device that is not saved yet is on its account, which was written no longer ago than
\* the device has waited, or it has waited for a minute.
LinkedInv ==
    /\ \A a, d \in Request : d \in devices[a] => Linked(d) /\ (Unsaved(d) => acct[d] = a)
    /\ \A d \in Request : Unsaved(d) =>
          /\ age[acct[d]] <= pending[d]
          /\ d \in devices[acct[d]] \/ pending[d] = UnlinkAfter
    /\ \A d \in saved : account[acct[d]] # "none"

\* What is about to be taken off an account has waited for a minute or was never saved.
ListingInv ==
    \A q \in List : listing[q].at # "idle" =>
        /\ \A d \in listing[q].ids :
              /\ Linked(d)
              /\ Unsaved(d) => listing[q].age <= pending[d]
              /\ listing[q].at = "unlink" /\ d \in saved => d \in late
        /\ listing[q].at \in {"exists", "unlink"} => listing[q].age = UnlinkAfter

DeviceInv == LinkedInv /\ ListingInv /\ SavedIsListed

Inv == TypeOK /\ AccountInv /\ NonceInv /\ SavedIsThrough /\ SoFar /\ DeviceInv
----------------------------------------------------------------------------
\* The types are kept.
LEMMA TypeStep ==
    ASSUME TypeOK, SoFar, [Next]_vars
    PROVE  TypeOK'
  <1> USE AccountsAssumption DEF TypeOK, vars, dbVars, requestVars, Locked, Pc, Exists
  <1>1. ASSUME NEW r \in Request, Start(r) PROVE TypeOK'
    BY <1>1 DEF Start, RedeemNonce, Goto
  <1>2. ASSUME NEW r \in Request, Acquire(r) PROVE TypeOK'
    BY <1>2 DEF Acquire, MayTake, Goto
  <1>3. ASSUME NEW r \in Request, Release(r) PROVE TypeOK'
    BY <1>3 DEF Release, Released, Exposes, Goto, Fault
  <1>4. ASSUME NEW r \in Request, Find(r) PROVE TypeOK'
    BY <1>4 DEF Find, Goto, Leave, Holds
  <1>5. ASSUME NEW r \in Request, Insert(r) PROVE TypeOK'
    BY <1>5 DEF Insert, FirstDevices, Written, Goto
  <1>6. ASSUME NEW r \in Request, Inserted(r) PROVE TypeOK'
    BY <1>6 DEF Inserted, Goto, Leave, Holds
  <1>7. ASSUME NEW r \in Request, WriteOwn(r) PROVE TypeOK'
    <2>1. acct[r] \in Request
      BY <1>7 DEF WriteOwn, SoFar, At
    <2>2. 0 \in 0..UnlinkAfter
      OBVIOUS
    <2> QED BY <1>7, <2>1, <2>2 DEF WriteOwn, Goto, Leave, Holds, Written
  <1>8. ASSUME NEW r \in Request, LinkProvider(r) PROVE TypeOK'
    <2>1. acct[r] \in Request
      BY <1>8 DEF LinkProvider, SoFar, At
    <2>2. 0 \in 0..UnlinkAfter
      OBVIOUS
    <2> QED BY <1>8, <2>1, <2>2 DEF LinkProvider, Goto, Written
  <1>9. ASSUME NEW r \in Request, ResolveDevice(r) PROVE TypeOK'
    BY <1>9 DEF ResolveDevice, Reusable, Goto
  <1>10. ASSUME NEW r \in Request, LinkDevice(r) PROVE TypeOK'
    <2>1. acct[r] \in Request
      BY <1>10 DEF LinkDevice, SoFar, At
    <2>2. 0 \in 0..UnlinkAfter
      OBVIOUS
    <2> QED BY <1>10, <2>1, <2>2 DEF LinkDevice, Goto, Written
  <1>11. ASSUME NEW r \in Request, SaveDevice(r) PROVE TypeOK'
    BY <1>11 DEF SaveDevice, Goto
  <1>12. ASSUME NEW r \in Request, SendSession(r) PROVE TypeOK'
    BY <1>12 DEF SendSession, Goto, Leave, Holds
  <1>13. ASSUME NEW r \in Request, AccountGone(r) PROVE TypeOK'
    BY <1>13 DEF AccountGone, Goto, Leave, Holds, Forget, FailVars
  <1>14. ASSUME NEW r \in Request, Fails(r) PROVE TypeOK'
    BY <1>14 DEF Fails, Fault, Goto, Leave, Holds, Forget, FailVars
  <1>15. ASSUME NEW r \in Request, Dies(r) PROVE TypeOK'
    BY <1>15 DEF Dies, Fault, Goto, Holds, Forget, FailVars
  <1>16. ASSUME NEW r \in Request, Refresh(r) PROVE TypeOK'
    BY <1>16 DEF Refresh
  <1>17. ASSUME NEW r \in Request, RemoveAccount(r) PROVE TypeOK'
    BY <1>17 DEF RemoveAccount, Fault
  <1>18. ASSUME NEW q \in List, ListDevices(q) PROVE TypeOK'
    BY <1>18 DEF ListDevices, NotListing, ListVars
  <1>19. ASSUME NEW q \in List, GetDevices(q) PROVE TypeOK'
    <2> DEFINE L == [at : {"idle", "get", "exists", "unlink"},
                     acct : Request \cup {none}, ids : SUBSET Request, age : 0..UnlinkAfter]
    <2>1. listing[q] \in L /\ NotListing \in L
      BY DEF NotListing
    <2>2. PICK unread \in {listing[q].ids, listing[q].ids \ saved} :
            listing' = [listing EXCEPT ![q] = IF unread # {} /\ MayUnlink(q)
                                              THEN [@ EXCEPT !.at = "exists", !.ids = unread]
                                              ELSE NotListing]
      BY <1>19 DEF GetDevices
    <2>3. unread \in SUBSET Request
      BY <2>1
    <2>4. [listing[q] EXCEPT !.at = "exists", !.ids = unread] \in L
      BY <2>1, <2>3
    <2>5. listing' \in [List -> L]
      BY <2>1, <2>2, <2>4
    <2> QED BY <1>19, <2>5 DEF GetDevices, ListVars
  <1>20. ASSUME NEW q \in List, CheckExists(q) PROVE TypeOK'
    <2> DEFINE L == [at : {"idle", "get", "exists", "unlink"},
                     acct : Request \cup {none}, ids : SUBSET Request, age : 0..UnlinkAfter]
    <2>1. listing[q] \in L /\ NotListing \in L
      BY DEF NotListing
    <2>2. listing' \in [List -> L]
      BY <1>20, <2>1 DEF CheckExists, ListVars
    <2>3. devices' = devices /\ age' = age
      BY <1>20 DEF CheckExists, ListVars, Written
    <2> QED BY <1>20, <2>2, <2>3 DEF CheckExists, ListVars
  <1>21. ASSUME NEW q \in List, Unlink(q) PROVE TypeOK'
    <2> DEFINE L == [at : {"idle", "get", "exists", "unlink"},
                     acct : Request \cup {none}, ids : SUBSET Request, age : 0..UnlinkAfter]
    <2>1. listing[q] \in L /\ NotListing \in L
      BY DEF NotListing
    <2>2. listing' \in [List -> L]
      BY <1>21, <2>1 DEF Unlink, ListVars
    <2> DEFINE a == listing[q].acct
    <2>3. devices' \in [Request -> SUBSET Request] /\ age' \in [Request -> 0..UnlinkAfter]
      <3>1. CASE UNCHANGED <<devices, age>>
        BY <3>1
      <3>2. CASE /\ devices' = [devices EXCEPT ![a] = @ \ listing[q].ids]
                 /\ age' = [age EXCEPT ![a] = 0]
        <4>1. 0 \in 0..UnlinkAfter
          OBVIOUS
        <4>2. \A b \in Request : devices[b] \ listing[q].ids \in SUBSET Request
          OBVIOUS
        <4> QED BY <3>2, <4>1, <4>2
      <3> QED BY <1>21, <3>1, <3>2 DEF Unlink, Written
    <2> QED BY <1>21, <2>2, <2>3 DEF Unlink, ListVars
  <1>22. CASE Expire
    BY <1>22 DEF Expire, Fault, Exposes
  <1>23. CASE Tick
    BY <1>23 DEF Tick, Older
  <1>24. CASE UNCHANGED vars
    BY <1>24
  <1> QED BY <1>1, <1>2, <1>3, <1>4, <1>5, <1>6, <1>7, <1>8, <1>9, <1>10, <1>11, <1>12, <1>13,
            <1>14, <1>15, <1>16, <1>17, <1>18, <1>19, <1>20, <1>21, <1>22, <1>23, <1>24
            DEF Next, Step, ListStep

\* Requests that create an account take turns.
LEMMA AccountStep ==
    ASSUME TypeOK, AccountInv, [Next]_vars
    PROVE  AccountInv'
  <1> USE AccountsAssumption DEF AccountInv, NotYet, LockHeld, NoneFound, OneAccount, TypeOK,
      vars, dbVars, requestVars, Locked, Pc, Exists, Request
  <1>1. ASSUME NEW r \in Request, Start(r) PROVE AccountInv'
    BY <1>1 DEF Start, RedeemNonce, Goto
  <1>2. ASSUME NEW r \in Request, Acquire(r) PROVE AccountInv'
    BY <1>2 DEF Acquire, MayTake, Goto
  <1>3. ASSUME NEW r \in Request, Release(r) PROVE AccountInv'
    BY <1>3 DEF Release, Released, Exposes, Goto, Fault
  <1>4. ASSUME NEW r \in Request, Find(r) PROVE AccountInv'
    BY <1>4 DEF Find, Goto, Leave, Holds
  <1>5. ASSUME NEW r \in Request, Insert(r) PROVE AccountInv'
    BY <1>5 DEF Insert, FirstDevices, Written, Goto
  <1>6. ASSUME NEW r \in Request, Inserted(r) PROVE AccountInv'
    BY <1>6 DEF Inserted, Goto, Leave, Holds
  <1>7. ASSUME NEW r \in Request, WriteOwn(r) PROVE AccountInv'
    BY <1>7 DEF WriteOwn, Goto, Leave, Holds, Written
  <1>8. ASSUME NEW r \in Request, LinkProvider(r) PROVE AccountInv'
    BY <1>8 DEF LinkProvider, Goto, Written
  <1>9. ASSUME NEW r \in Request, ResolveDevice(r) PROVE AccountInv'
    BY <1>9 DEF ResolveDevice, Reusable, Goto
  <1>10. ASSUME NEW r \in Request, LinkDevice(r) PROVE AccountInv'
    BY <1>10 DEF LinkDevice, Goto, Written
  <1>11. ASSUME NEW r \in Request, SaveDevice(r) PROVE AccountInv'
    BY <1>11 DEF SaveDevice, Goto
  <1>12. ASSUME NEW r \in Request, SendSession(r) PROVE AccountInv'
    BY <1>12 DEF SendSession, Goto, Leave, Holds
  <1>13. ASSUME NEW r \in Request, AccountGone(r) PROVE AccountInv'
    BY <1>13 DEF AccountGone, Goto, Leave, Holds, Forget, FailVars
  <1>14. ASSUME NEW r \in Request, Fails(r) PROVE AccountInv'
    BY <1>14 DEF Fails, Fault, Goto, Leave, Holds, Forget, FailVars
  <1>15. ASSUME NEW r \in Request, Dies(r) PROVE AccountInv'
    BY <1>15 DEF Dies, Fault, Goto, Holds, Forget, FailVars
  <1>16. ASSUME NEW r \in Request, Refresh(r) PROVE AccountInv'
    BY <1>16 DEF Refresh
  <1>17. ASSUME NEW r \in Request, RemoveAccount(r) PROVE AccountInv'
    BY <1>17 DEF RemoveAccount, Fault
  <1>18. ASSUME NEW q \in List, ListDevices(q) PROVE AccountInv'
    BY <1>18 DEF ListDevices, NotListing, ListVars
  <1>19. ASSUME NEW q \in List, GetDevices(q) PROVE AccountInv'
    BY <1>19 DEF GetDevices, NotListing, MayUnlink, ListVars
  <1>20. ASSUME NEW q \in List, CheckExists(q) PROVE AccountInv'
    BY <1>20 DEF CheckExists, NotListing, ListVars
  <1>21. ASSUME NEW q \in List, Unlink(q) PROVE AccountInv'
    BY <1>21 DEF Unlink, NotListing, ListVars, Written
  <1>22. CASE Expire
    BY <1>22 DEF Expire, Fault, Exposes
  <1>23. CASE Tick
    BY <1>23 DEF Tick, Older
  <1>24. CASE UNCHANGED vars
    BY <1>24
  <1> QED BY <1>1, <1>2, <1>3, <1>4, <1>5, <1>6, <1>7, <1>8, <1>9, <1>10, <1>11, <1>12, <1>13,
            <1>14, <1>15, <1>16, <1>17, <1>18, <1>19, <1>20, <1>21, <1>22, <1>23, <1>24
            DEF Next, Step, ListStep

\* A nonce is redeemed once.
LEMMA NonceStep ==
    ASSUME TypeOK, NonceInv, [Next]_vars
    PROVE  NonceInv'
  <1> USE AccountsAssumption DEF NonceInv, TypeOK, vars, dbVars, requestVars, Locked, Pc, Request
  <1>1. ASSUME NEW r \in Request, Start(r) PROVE NonceInv'
    BY <1>1 DEF Start, RedeemNonce, Goto
  <1>2. ASSUME NEW r \in Request, Acquire(r) PROVE NonceInv'
    BY <1>2 DEF Acquire, MayTake, Goto
  <1>3. ASSUME NEW r \in Request, Release(r) PROVE NonceInv'
    BY <1>3 DEF Release, Released, Exposes, Goto, Fault
  <1>4. ASSUME NEW r \in Request, Find(r) PROVE NonceInv'
    BY <1>4 DEF Find, Goto, Leave, Holds
  <1>5. ASSUME NEW r \in Request, Insert(r) PROVE NonceInv'
    BY <1>5 DEF Insert, FirstDevices, Written, Goto
  <1>6. ASSUME NEW r \in Request, Inserted(r) PROVE NonceInv'
    BY <1>6 DEF Inserted, Goto, Leave, Holds
  <1>7. ASSUME NEW r \in Request, WriteOwn(r) PROVE NonceInv'
    BY <1>7 DEF WriteOwn, Goto, Leave, Holds, Written
  <1>8. ASSUME NEW r \in Request, LinkProvider(r) PROVE NonceInv'
    BY <1>8 DEF LinkProvider, Goto, Written
  <1>9. ASSUME NEW r \in Request, ResolveDevice(r) PROVE NonceInv'
    BY <1>9 DEF ResolveDevice, Reusable, Goto
  <1>10. ASSUME NEW r \in Request, LinkDevice(r) PROVE NonceInv'
    BY <1>10 DEF LinkDevice, Goto, Written
  <1>11. ASSUME NEW r \in Request, SaveDevice(r) PROVE NonceInv'
    BY <1>11 DEF SaveDevice, Goto
  <1>12. ASSUME NEW r \in Request, SendSession(r) PROVE NonceInv'
    BY <1>12 DEF SendSession, Goto, Leave, Holds
  <1>13. ASSUME NEW r \in Request, AccountGone(r) PROVE NonceInv'
    BY <1>13 DEF AccountGone, Goto, Leave, Holds, Forget, FailVars
  <1>14. ASSUME NEW r \in Request, Fails(r) PROVE NonceInv'
    BY <1>14 DEF Fails, Fault, Goto, Leave, Holds, Forget, FailVars
  <1>15. ASSUME NEW r \in Request, Dies(r) PROVE NonceInv'
    BY <1>15 DEF Dies, Fault, Goto, Holds, Forget, FailVars
  <1>16. ASSUME NEW r \in Request, Refresh(r) PROVE NonceInv'
    BY <1>16 DEF Refresh
  <1>17. ASSUME NEW r \in Request, RemoveAccount(r) PROVE NonceInv'
    BY <1>17 DEF RemoveAccount, Fault
  <1>18. ASSUME NEW q \in List, ListDevices(q) PROVE NonceInv'
    BY <1>18 DEF ListDevices, NotListing, ListVars
  <1>19. ASSUME NEW q \in List, GetDevices(q) PROVE NonceInv'
    BY <1>19 DEF GetDevices, NotListing, MayUnlink, ListVars
  <1>20. ASSUME NEW q \in List, CheckExists(q) PROVE NonceInv'
    BY <1>20 DEF CheckExists, NotListing, ListVars
  <1>21. ASSUME NEW q \in List, Unlink(q) PROVE NonceInv'
    BY <1>21 DEF Unlink, NotListing, ListVars, Written
  <1>22. CASE Expire
    BY <1>22 DEF Expire, Fault, Exposes
  <1>23. CASE Tick
    BY <1>23 DEF Tick, Older
  <1>24. CASE UNCHANGED vars
    BY <1>24
  <1> QED BY <1>1, <1>2, <1>3, <1>4, <1>5, <1>6, <1>7, <1>8, <1>9, <1>10, <1>11, <1>12, <1>13,
            <1>14, <1>15, <1>16, <1>17, <1>18, <1>19, <1>20, <1>21, <1>22, <1>23, <1>24
            DEF Next, Step, ListStep

\* What a sign-in has got together stays with it.
LEMMA SoFarStep ==
    ASSUME TypeOK, SavedIsThrough, SoFar, [Next]_vars
    PROVE  (SavedIsThrough /\ SoFar)'
  <1> USE AccountsAssumption DEF SavedIsThrough, SoFar, At, TypeOK, vars, dbVars, requestVars,
      Locked, Pc, Exists, Request
  <1>1. ASSUME NEW r \in Request, Start(r) PROVE (SavedIsThrough /\ SoFar)'
    BY <1>1 DEF Start, RedeemNonce, Goto
  <1>2. ASSUME NEW r \in Request, Acquire(r) PROVE (SavedIsThrough /\ SoFar)'
    BY <1>2 DEF Acquire, MayTake, Goto
  <1>3. ASSUME NEW r \in Request, Release(r) PROVE (SavedIsThrough /\ SoFar)'
    BY <1>3 DEF Release, Released, Exposes, Goto, Fault
  <1>4. ASSUME NEW r \in Request, Find(r) PROVE (SavedIsThrough /\ SoFar)'
    <2>1. CASE \E a \in Request : /\ account[a] = "visible"
                                 /\ acct' = [acct EXCEPT ![r] = a]
                                 /\ Goto(r, IF r \in OAuth THEN "writeOwn" ELSE "device")
                                 /\ UNCHANGED after
      <3>1. r \notin saved
        BY <1>4 DEF Find
      <3> QED BY <1>4, <2>1, <3>1 DEF Find, Goto
    <2>2. CASE UNCHANGED acct /\ Leave(r, "failed")
      BY <1>4, <2>2 DEF Find, Goto, Leave, Holds
    <2>3. CASE UNCHANGED acct /\ Goto(r, "insert") /\ UNCHANGED after
      BY <1>4, <2>3 DEF Find, Goto
    <2> QED BY <1>4, <2>1, <2>2, <2>3 DEF Find
  <1>5. ASSUME NEW r \in Request, Insert(r) PROVE (SavedIsThrough /\ SoFar)'
    BY <1>5 DEF Insert, FirstDevices, Written, Goto
  <1>6. ASSUME NEW r \in Request, Inserted(r) PROVE (SavedIsThrough /\ SoFar)'
    BY <1>6 DEF Inserted, Goto, Leave, Holds
  <1>7. ASSUME NEW r \in Request, WriteOwn(r) PROVE (SavedIsThrough /\ SoFar)'
    BY <1>7 DEF WriteOwn, Goto, Leave, Holds, Written
  <1>8. ASSUME NEW r \in Request, LinkProvider(r) PROVE (SavedIsThrough /\ SoFar)'
    BY <1>8 DEF LinkProvider, Goto, Written
  <1>9. ASSUME NEW r \in Request, ResolveDevice(r) PROVE (SavedIsThrough /\ SoFar)'
    BY <1>9 DEF ResolveDevice, Reusable, Goto
  <1>10. ASSUME NEW r \in Request, LinkDevice(r) PROVE (SavedIsThrough /\ SoFar)'
    BY <1>10 DEF LinkDevice, Goto, Written
  <1>11. ASSUME NEW r \in Request, SaveDevice(r) PROVE (SavedIsThrough /\ SoFar)'
    BY <1>11 DEF SaveDevice, Goto
  <1>12. ASSUME NEW r \in Request, SendSession(r) PROVE (SavedIsThrough /\ SoFar)'
    BY <1>12 DEF SendSession, Goto, Leave, Holds
  <1>13. ASSUME NEW r \in Request, AccountGone(r) PROVE (SavedIsThrough /\ SoFar)'
    BY <1>13 DEF AccountGone, Goto, Leave, Holds, Forget, FailVars
  <1>14. ASSUME NEW r \in Request, Fails(r) PROVE (SavedIsThrough /\ SoFar)'
    BY <1>14 DEF Fails, Fault, Goto, Leave, Holds, Forget, FailVars
  <1>15. ASSUME NEW r \in Request, Dies(r) PROVE (SavedIsThrough /\ SoFar)'
    BY <1>15 DEF Dies, Fault, Goto, Holds, Forget, FailVars
  <1>16. ASSUME NEW r \in Request, Refresh(r) PROVE (SavedIsThrough /\ SoFar)'
    BY <1>16 DEF Refresh
  <1>17. ASSUME NEW r \in Request, RemoveAccount(r) PROVE (SavedIsThrough /\ SoFar)'
    BY <1>17 DEF RemoveAccount, Fault
  <1>18. ASSUME NEW q \in List, ListDevices(q) PROVE (SavedIsThrough /\ SoFar)'
    BY <1>18 DEF ListDevices, NotListing, ListVars
  <1>19. ASSUME NEW q \in List, GetDevices(q) PROVE (SavedIsThrough /\ SoFar)'
    BY <1>19 DEF GetDevices, NotListing, MayUnlink, ListVars
  <1>20. ASSUME NEW q \in List, CheckExists(q) PROVE (SavedIsThrough /\ SoFar)'
    BY <1>20 DEF CheckExists, NotListing, ListVars
  <1>21. ASSUME NEW q \in List, Unlink(q) PROVE (SavedIsThrough /\ SoFar)'
    BY <1>21 DEF Unlink, NotListing, ListVars, Written
  <1>22. CASE Expire
    BY <1>22 DEF Expire, Fault, Exposes
  <1>23. CASE Tick
    BY <1>23 DEF Tick, Older
  <1>24. CASE UNCHANGED vars
    BY <1>24
  <1> QED BY <1>1, <1>2, <1>3, <1>4, <1>5, <1>6, <1>7, <1>8, <1>9, <1>10, <1>11, <1>12, <1>13,
            <1>14, <1>15, <1>16, <1>17, <1>18, <1>19, <1>20, <1>21, <1>22, <1>23, <1>24
            DEF Next, Step, ListStep

\* A listing takes no device off an account that is being saved.
LEMMA DeviceStep ==
    ASSUME TypeOK, NotYet, SavedIsThrough, SoFar, DeviceInv, [Next]_vars
    PROVE  DeviceInv'
  <1> USE AccountsAssumption DEF NotYet, SavedIsThrough, SoFar, DeviceInv, LinkedInv, ListingInv,
      SavedIsListed, Linked, Unsaved, At, TypeOK, vars, dbVars, requestVars, Locked, Pc, Exists,
      Request
  <1>1. ASSUME NEW r \in Request, Start(r) PROVE DeviceInv'
    BY <1>1 DEF Start, RedeemNonce, Goto
  <1>2. ASSUME NEW r \in Request, Acquire(r) PROVE DeviceInv'
    BY <1>2 DEF Acquire, MayTake, Goto
  <1>3. ASSUME NEW r \in Request, Release(r) PROVE DeviceInv'
    BY <1>3 DEF Release, Released, Exposes, Goto, Fault
  <1>4. ASSUME NEW r \in Request, Find(r) PROVE DeviceInv'
    BY <1>4 DEF Find, Goto, Leave, Holds
  <1>5. ASSUME NEW r \in Request, Insert(r) PROVE DeviceInv'
    BY <1>5 DEF Insert, FirstDevices, Written, Goto
  <1>6. ASSUME NEW r \in Request, Inserted(r) PROVE DeviceInv'
    BY <1>6 DEF Inserted, Goto, Leave, Holds
  <1>7. ASSUME NEW r \in Request, WriteOwn(r) PROVE DeviceInv'
    BY <1>7 DEF WriteOwn, Goto, Leave, Holds, Written
  <1>8. ASSUME NEW r \in Request, LinkProvider(r) PROVE DeviceInv'
    BY <1>8 DEF LinkProvider, Goto, Written
  <1>9. ASSUME NEW r \in Request, ResolveDevice(r) PROVE DeviceInv'
    BY <1>9 DEF ResolveDevice, Reusable, Goto
  <1>10. ASSUME NEW r \in Request, LinkDevice(r) PROVE DeviceInv'
    BY <1>10 DEF LinkDevice, Goto, Written
  <1>11. ASSUME NEW r \in Request, SaveDevice(r) PROVE DeviceInv'
    BY <1>11 DEF SaveDevice, Goto
  <1>12. ASSUME NEW r \in Request, SendSession(r) PROVE DeviceInv'
    BY <1>12 DEF SendSession, Goto, Leave, Holds
  <1>13. ASSUME NEW r \in Request, AccountGone(r) PROVE DeviceInv'
    BY <1>13 DEF AccountGone, Goto, Leave, Holds, Forget, FailVars
  <1>14. ASSUME NEW r \in Request, Fails(r) PROVE DeviceInv'
    BY <1>14 DEF Fails, Fault, Goto, Leave, Holds, Forget, FailVars
  <1>15. ASSUME NEW r \in Request, Dies(r) PROVE DeviceInv'
    BY <1>15 DEF Dies, Fault, Goto, Holds, Forget, FailVars
  <1>16. ASSUME NEW r \in Request, Refresh(r) PROVE DeviceInv'
    BY <1>16 DEF Refresh
  <1>17. ASSUME NEW r \in Request, RemoveAccount(r) PROVE DeviceInv'
    BY <1>17 DEF RemoveAccount, Fault
  <1>18. ASSUME NEW q \in List, ListDevices(q) PROVE DeviceInv'
    <2>1. PICK a \in Request : /\ Exists(a)
                              /\ listing' = [listing EXCEPT ![q] = [at |-> "get", acct |-> a,
                                                     ids |-> devices[a], age |-> age[a]]]
      BY <1>18 DEF ListDevices
    <2>2. /\ \A p \in List \ {q} : listing'[p] = listing[p]
          /\ listing'[q].at = "get" /\ listing'[q].ids = devices[a] /\ listing'[q].age = age[a]
      BY <2>1
    <2>3. UNCHANGED <<devices, age, ListVars>>
      BY <1>18 DEF ListDevices
    <2>4. LinkedInv' /\ SavedIsListed'
      BY <2>3 DEF ListVars
    <2>5. \A d \in devices[a] : Linked(d) /\ (Unsaved(d) => age[a] <= pending[d])
      OBVIOUS
    <2>6. ListingInv'
      BY <2>2, <2>3, <2>5 DEF ListVars
    <2> QED BY <2>4, <2>6
  <1>19. ASSUME NEW q \in List, GetDevices(q) PROVE DeviceInv'
    <2>1. /\ \A p \in List \ {q} : listing'[p] = listing[p]
          /\ UNCHANGED <<devices, age, ListVars>>
      BY <1>19 DEF GetDevices
    <2>2. \/ listing'[q].at = "idle"
          \/ /\ listing'[q].at = "exists" /\ listing'[q].ids \subseteq listing[q].ids
             /\ listing'[q].age = listing[q].age /\ listing[q].age = UnlinkAfter
      <3>1. PICK unread \in {listing[q].ids, listing[q].ids \ saved} :
              listing' = [listing EXCEPT ![q] = IF unread # {} /\ MayUnlink(q)
                                                THEN [@ EXCEPT !.at = "exists", !.ids = unread]
                                                ELSE NotListing]
        BY <1>19 DEF GetDevices
      <3>2. CASE unread # {} /\ MayUnlink(q)
        <4>1. listing'[q] = [listing[q] EXCEPT !.at = "exists", !.ids = unread]
          BY <3>1, <3>2
        <4>2. listing[q].age >= UnlinkAfter /\ listing[q].age \in 0..UnlinkAfter
          BY <3>2 DEF MayUnlink
        <4>3. listing[q] \in [at : {"idle", "get", "exists", "unlink"},
                              acct : Request \cup {none}, ids : SUBSET Request, age : 0..UnlinkAfter]
          OBVIOUS
        <4>4. /\ listing'[q].at = "exists" /\ listing'[q].ids = unread
              /\ listing'[q].age = listing[q].age
          BY <4>1, <4>3
        <4>5. unread \subseteq listing[q].ids
          BY <3>1
        <4>6. listing[q].age = UnlinkAfter
          <5> HIDE DEF TypeOK
          <5> QED BY <4>2
        <4> QED BY <4>4, <4>5, <4>6
      <3>3. CASE ~(unread # {} /\ MayUnlink(q))
        BY <3>1, <3>3 DEF NotListing
      <3> QED BY <3>2, <3>3
    <2>3. LinkedInv' /\ SavedIsListed'
      BY <2>1 DEF ListVars
    <2>4. ListingInv'
      <3>1. CASE listing'[q].at = "idle"
        BY <2>1, <3>1 DEF ListVars
      <3>2. CASE listing'[q].at # "idle"
        BY <1>19, <2>1, <2>2, <3>2 DEF ListVars, GetDevices
      <3> QED BY <3>1, <3>2
    <2> QED BY <2>3, <2>4
  <1>20. ASSUME NEW q \in List, CheckExists(q) PROVE DeviceInv'
    <2>1. /\ \A p \in List \ {q} : listing'[p] = listing[p]
          /\ UNCHANGED <<devices, age, ListVars>>
      BY <1>20 DEF CheckExists
    <2>2. \/ listing'[q].at = "idle"
          \/ /\ listing'[q].at = "unlink" /\ listing'[q].ids = listing[q].ids \ saved
             /\ listing'[q].age = listing[q].age
      BY <1>20 DEF CheckExists, NotListing
    <2>3. LinkedInv' /\ SavedIsListed'
      BY <2>1 DEF ListVars
    <2>4. ListingInv'
      <3>1. CASE listing'[q].at = "idle"
        BY <2>1, <3>1 DEF ListVars
      <3>2. CASE listing'[q].at # "idle"
        BY <1>20, <2>1, <2>2, <3>2 DEF ListVars, CheckExists
      <3> QED BY <3>1, <3>2
    <2> QED BY <2>3, <2>4
  <1>21. ASSUME NEW q \in List, Unlink(q) PROVE DeviceInv'
    BY <1>21 DEF Unlink, NotListing, ListVars, Written
  <1>22. CASE Expire
    BY <1>22 DEF Expire, Fault, Exposes
  <1>23. CASE Tick
    BY <1>23 DEF Tick, Older
  <1>24. CASE UNCHANGED vars
    BY <1>24
  <1> QED BY <1>1, <1>2, <1>3, <1>4, <1>5, <1>6, <1>7, <1>8, <1>9, <1>10, <1>11, <1>12, <1>13,
            <1>14, <1>15, <1>16, <1>17, <1>18, <1>19, <1>20, <1>21, <1>22, <1>23, <1>24
            DEF Next, Step, ListStep

\* The initial state satisfies the invariant, ...
LEMMA InvInit == Init => Inv
  <1> SUFFICES ASSUME Init PROVE Inv
    OBVIOUS
  <1> USE AccountsAssumption DEF Init, Issued
  <1>1. TypeOK
    <2>1. 0 \in 0..UnlinkAfter /\ 0 \in 0..MaxFaults
      OBVIOUS
    <2>2. pc \in [Request -> Pc]
      BY DEF Pc
    <2>3. age \in [Request -> 0..UnlinkAfter] /\ pending \in [Request -> 0..UnlinkAfter]
      BY <2>1
    <2>4. NotListing \in [at : {"idle", "get", "exists", "unlink"},
                           acct : Request \cup {none}, ids : SUBSET Request, age : 0..UnlinkAfter]
      BY <2>1 DEF NotListing
    <2>5. listing \in [List -> [at : {"idle", "get", "exists", "unlink"},
                               acct : Request \cup {none}, ids : SUBSET Request,
                               age : 0..UnlinkAfter]]
      BY <2>4
    <2>6. /\ devices \in [Request -> SUBSET Request]
          /\ account \in [Request -> {"none", "stored", "visible", "gone"}]
      OBVIOUS
    <2>7. /\ acct \in [Request -> Request \cup {none}] /\ device \in [Request -> Request \cup {none}]
          /\ after \in [Request -> {"link", "provider", "device", "done", "failed"}]
      OBVIOUS
    <2> QED BY <2>1, <2>2, <2>3, <2>5, <2>6, <2>7 DEF TypeOK
  <1>2. AccountInv
    BY DEF AccountInv, NotYet, LockHeld, NoneFound, OneAccount, Locked
  <1>3. NonceInv /\ SavedIsThrough
    BY DEF NonceInv, SavedIsThrough, Request
  <1>4. SoFar
    BY DEF SoFar, At
  <1>5. DeviceInv
    BY DEF DeviceInv, LinkedInv, ListingInv, SavedIsListed, Unsaved, NotListing
  <1> QED BY <1>1, <1>2, <1>3, <1>4, <1>5 DEF Inv

\* ... and every step keeps it.
THEOREM InvHolds == Spec => []Inv
  <1>1. Inv /\ [Next]_vars => Inv'
    BY TypeStep, AccountStep, NonceStep, SoFarStep, DeviceStep DEF Inv, AccountInv
  <1> QED BY <1>1, InvInit, PTL DEF Spec

\* Every reachable state of sign-up, sign-in and device listing is type-correct.
THEOREM TypeCorrect == Spec => []TypeOK
  <1>1. Inv => TypeOK
    BY DEF Inv
  <1> QED BY <1>1, InvHolds, PTL

\* However many requests sign up or in: two accounts with the username mean that a lock was
\* lost before its holder's account was visible.
THEOREM OneAccountPerName == Spec => []OneAccount
  <1>1. Inv => OneAccount
    BY DEF Inv, AccountInv
  <1> QED BY <1>1, InvHolds, PTL

\* However often its callback is delivered, a state parameter signs in once.
THEOREM StateSignsInOnce == Spec => []OneSignInPerState
  <1>1. Inv => OneSignInPerState
    BY DEF Inv, NonceInv, OneSignInPerState
  <1> QED BY <1>1, InvHolds, PTL

\* Whatever calls fail: a request that answers with a session has its account, its device and
\* its provider.
THEOREM SignInsAreComplete == Spec => []SignInIsComplete
  <1>1. Inv => SignInIsComplete
    BY DEF Inv, SoFar, At, SignInIsComplete, Request
  <1> QED BY <1>1, InvHolds, PTL

\* However many listings clean up while devices are made: what is saved within a minute stays
\* on its account.
THEOREM SavedDevicesAreListed == Spec => []SavedIsListed
  <1>1. Inv => SavedIsListed
    BY DEF Inv, DeviceInv
  <1> QED BY <1>1, InvHolds, PTL

----------------------------------------------------------------------------
(* The API process *)

\* loadApps has one call in flight, in its phase; the timer is set from start to disconnect(),
\* and the gate shows the adapter's view of the database throughout.
CallsInPhase ==
    /\ \A c \in Slot : call[c].for = "load" =>
          phase = "loading" /\ \A d \in Slot : call[d].for = "load" => c = d
    /\ stopped => ~timer
    /\ phase # "off" /\ ~stopped => timer
    /\ up["db"] = connected

Starting == {"off", "connecting", "load", "loading", "listen", "manage", "failed"}
Closing == {"delete", "unmanage", "drain", "disconnect", "closed"}

\* What a process at each point of its life has to do with the Hub.  Once it closes without
\* a leak, no attempt is at a point from which it reaches the Hub again and no POST is astray.
HubLink ==
    /\ stray <= losses
    /\ phase \in Starting =>
          attempt = "none" /\ stray = 0 /\ ~entry /\ ~registered /\ ~nodeId /\ ~loop /\ ~disposed
    /\ phase = "running" =>
          /\ ~disposed /\ (registered <=> nodeId) /\ (registered => loop)
          /\ (~registered => attempt # "none")
    /\ phase \in Closing => disposed /\ ~loop
    /\ phase \in Closing /\ ~leaky =>
          /\ registered /\ stray = 0 /\ attempt \in {"none", "build", "lost"}
          /\ phase # "delete" => ~entry

ProcessInv == ProcessTypeOK /\ CallsInPhase /\ HubLink

LEMMA ProcessStart ==
    ASSUME ProcessInit
    PROVE  ProcessInv
<1> USE DEF ProcessInit, Free
<1>1. ProcessTypeOK
  <2>1. {ready, reachable, connected, stopped, timer, entry, nodeId, registered, loop, disposed, leaky}
          \subseteq BOOLEAN
    OBVIOUS
  <2>2. call \in [Slot -> [for : {"none", "ping", "load", "request"}, answer : {"none", "ok", "failed"}]]
    OBVIOUS
  <2>3. /\ up \in [Service -> BOOLEAN]
        /\ current \in Slot \cup {noCall} /\ ~(current # noCall)
        /\ outages \in 0..MaxOutages /\ stray \in 0..MaxLosses /\ losses \in 0..MaxLosses /\ wipes \in 0..MaxWipes
    BY ServiceAssumption
  <2> QED BY <2>1, <2>2, <2>3 DEF ProcessTypeOK, Phases
<1>2. CallsInPhase
  BY DEF CallsInPhase, Service
<1>3. HubLink
  BY DEF HubLink, Starting, Closing
<1> QED BY <1>1, <1>2, <1>3 DEF ProcessInv

\* The part of the types that the ping loop changes.
CallsTyped ==
    /\ timer \in BOOLEAN
    /\ current \in Slot \cup {noCall}
    /\ current # noCall => call[current].for = "ping"
    /\ call \in [Slot -> [for : {"none", "ping", "load", "request"}, answer : {"none", "ok", "failed"}]]

LEMMA StartPingLoopTypes ==
    ASSUME ProcessTypeOK, NEW c \in Slot, StartPingLoop(c)
    PROVE  CallsTyped'
<1>1. CASE stopped
  BY <1>1 DEF StartPingLoop, ProcessTypeOK, Free, CallsTyped
<1>2. CASE ~stopped
  BY <1>2 DEF StartPingLoop, ProcessTypeOK, Sent, CallsTyped
<1> QED BY <1>1, <1>2

LEMMA SettledTypes ==
    ASSUME ProcessTypeOK, NEW c \in Slot, Settled(c)
    PROVE  CallsTyped'
BY DEF Settled, ProcessTypeOK, Free, CallsTyped

LEMMA ProcessTypes ==
    ASSUME ProcessInv, [ProcessNext]_processVars
    PROVE  ProcessTypeOK'
<1> USE ServiceAssumption DEF ProcessInv
<1>1. ASSUME NEW s \in Others, OutageOf(s) PROVE ProcessTypeOK'
  BY <1>1 DEF OutageOf, MarkServiceDown, hub, Service, ProcessTypeOK, Phases
<1>2. ASSUME NEW s \in Others, Connects(s) PROVE ProcessTypeOK'
  BY <1>2 DEF Connects, MarkServiceUp, IsAvailable, database, hub, Service, ProcessTypeOK, Phases
<1>3. ASSUME NEW c \in Slot, PingTick(c) PROVE ProcessTypeOK'
  BY <1>3 DEF PingTick, hub, Sent, Free, ProcessTypeOK, Phases
<1>4. ASSUME NEW c \in Slot, Answered(c) PROVE ProcessTypeOK'
  BY <1>4 DEF Answered, hub, Free, ProcessTypeOK, Phases
<1>5. ASSUME NEW c \in Slot, ActOn(c) PROVE ProcessTypeOK'
  <2>1. phase' \in Phases
    BY <1>5 DEF ActOn, AfterCall, ProcessTypeOK, Phases
  <2>2. UNCHANGED <<reachable, stopped, outages, entry, stray, attempt, nodeId, registered, loop, disposed,
                    losses, wipes, leaky>>
    BY <1>5 DEF ActOn, hub
  <2>3. \/ StartPingLoop(c) /\ connected' \in BOOLEAN
           /\ (MarkServiceUp("db") \/ MarkServiceDown("db"))
        \/ Settled(c) /\ UNCHANGED <<connected, up, ready>>
    BY <1>5, Zenon DEF ActOn
  <2>4. connected' \in BOOLEAN /\ ready' \in BOOLEAN /\ up' \in [Service -> BOOLEAN]
    BY <2>3 DEF ProcessTypeOK, MarkServiceUp, MarkServiceDown, IsAvailable,
                Service
  <2>5. CallsTyped'
    BY <2>3, StartPingLoopTypes, SettledTypes
  <2> QED BY <2>1, <2>2, <2>4, <2>5 DEF ProcessTypeOK, CallsTyped
<1>6. ASSUME NEW c \in Slot, Boot(c) PROVE ProcessTypeOK'
  <2>1. CallsTyped'
    BY <1>6, StartPingLoopTypes DEF Boot
  <2>2. phase' \in Phases
    BY <1>6 DEF Boot, Phases
  <2> QED BY <1>6, <2>1, <2>2 DEF Boot, hub, ProcessTypeOK, CallsTyped
<1>7. ASSUME NEW c \in Slot, LoadApps(c) PROVE ProcessTypeOK'
  BY <1>7 DEF LoadApps, Sent, Free, hub, ProcessTypeOK, Phases
<1>8. ASSUME NEW c \in Slot, Serve(c) PROVE ProcessTypeOK'
  BY <1>8 DEF Serve, Sent, Free, hub, ProcessTypeOK, Phases
<1>9. ASSUME DatabaseOutage PROVE ProcessTypeOK'
  <2>1. outages' \in 0..MaxOutages
    BY <1>9 DEF DatabaseOutage, ProcessTypeOK
  <2>2. reachable' = FALSE
    BY <1>9 DEF DatabaseOutage
  <2> QED BY <1>9, <2>1, <2>2, Zenon DEF DatabaseOutage, hub, ProcessTypeOK
<1>10. ASSUME DatabaseReturns PROVE ProcessTypeOK'
  BY <1>10 DEF DatabaseReturns, hub, ProcessTypeOK, Phases
<1>11. ASSUME AllConnected PROVE ProcessTypeOK'
  BY <1>11 DEF AllConnected, database, hub, ProcessTypeOK, Phases
<1>12. ASSUME Listening PROVE ProcessTypeOK'
  BY <1>12 DEF Listening, database, hub, ProcessTypeOK, Phases
<1>13. ASSUME ManagementListening PROVE ProcessTypeOK'
  BY <1>13 DEF ManagementListening, database, ProcessTypeOK, Phases
<1>14. ASSUME Post PROVE ProcessTypeOK'
  BY <1>14 DEF Post, database, ProcessTypeOK, Phases
<1>15. ASSUME HubHandles PROVE ProcessTypeOK'
  BY <1>15 DEF HubHandles, database, ProcessTypeOK, Phases
<1>16. ASSUME PostFails PROVE ProcessTypeOK'
  BY <1>16 DEF PostFails, database, HubLink, ProcessTypeOK, Phases
<1>17. ASSUME Registered PROVE ProcessTypeOK'
  BY <1>17 DEF Registered, database, StartLoop, ProcessTypeOK, Phases
<1>18. ASSUME Retry PROVE ProcessTypeOK'
  BY <1>18 DEF Retry, database, ProcessTypeOK, Phases
<1>19. ASSUME Reregister PROVE ProcessTypeOK'
  BY <1>19 DEF Reregister, database, ProcessTypeOK, Phases
<1>20. ASSUME HubRestarts PROVE ProcessTypeOK'
  <2>1. wipes' \in 0..MaxWipes
    BY <1>20 DEF HubRestarts, ProcessTypeOK
  <2>2. entry' = FALSE
    BY <1>20 DEF HubRestarts
  <2> QED BY <1>20, <2>1, <2>2, Zenon DEF HubRestarts, database, ProcessTypeOK
<1>21. ASSUME Close PROVE ProcessTypeOK'
  BY <1>21 DEF Close, database, dispose, ProcessTypeOK, Phases
<1>22. ASSUME Unregister PROVE ProcessTypeOK'
  BY <1>22 DEF Unregister, database, ProcessTypeOK, Phases
<1>23. ASSUME ManagementClosed PROVE ProcessTypeOK'
  BY <1>23 DEF ManagementClosed, database, hub, ProcessTypeOK, Phases
<1>24. ASSUME Drain PROVE ProcessTypeOK'
  BY <1>24 DEF Drain, disconnect, hub, ProcessTypeOK, Phases
<1>25. ASSUME Closed PROVE ProcessTypeOK'
  BY <1>25 DEF Closed, database, hub, Service, ProcessTypeOK, Phases
<1>26. CASE UNCHANGED processVars
  BY <1>26 DEF processVars, database, hub, ProcessTypeOK, Phases
<1>27. ASSUME HubHandlesLate PROVE ProcessTypeOK'
  BY <1>27 DEF HubHandlesLate, database, ProcessTypeOK, Phases
<1> QED BY <1>1, <1>2, <1>3, <1>4, <1>5, <1>6, <1>7, <1>8, <1>9, <1>10, <1>11, <1>12, <1>13, <1>14, <1>15,
    <1>16, <1>17, <1>18, <1>19, <1>20, <1>21, <1>22, <1>23, <1>24, <1>25, <1>26, <1>27 DEF ProcessNext

LEMMA CallsStayInPhase ==
    ASSUME ProcessInv, [ProcessNext]_processVars
    PROVE  CallsInPhase'
<1> USE ServiceAssumption DEF ProcessInv, Service
<1>1. ASSUME NEW s \in Others, OutageOf(s) PROVE CallsInPhase'
  BY <1>1 DEF OutageOf, MarkServiceDown, hub, CallsInPhase, ProcessTypeOK
<1>2. ASSUME NEW s \in Others, Connects(s) PROVE CallsInPhase'
  BY <1>2 DEF Connects, MarkServiceUp, IsAvailable, database, hub, CallsInPhase, ProcessTypeOK
<1>3. ASSUME NEW c \in Slot, PingTick(c) PROVE CallsInPhase'
  BY <1>3 DEF PingTick, hub, Sent, Free, CallsInPhase, ProcessTypeOK
<1>4. ASSUME NEW c \in Slot, Answered(c) PROVE CallsInPhase'
  BY <1>4 DEF Answered, hub, Free, CallsInPhase, ProcessTypeOK
<1>5. ASSUME NEW c \in Slot, ActOn(c) PROVE CallsInPhase'
  <2>1. up'["db"] = connected'
    BY <1>5 DEF ActOn, MarkServiceUp, MarkServiceDown, ProcessTypeOK, CallsInPhase
  <2>2. \/ StartPingLoop(c)
        \/ Settled(c)
    BY <1>5, Zenon DEF ActOn
  <2>3. UNCHANGED stopped /\ AfterCall(c)
    BY <1>5 DEF ActOn
  <2>4. stopped' => ~timer'
    BY <2>2, <2>3 DEF StartPingLoop, Settled, CallsInPhase, ProcessTypeOK
  <2>5. phase' # "off" /\ ~stopped' => timer'
    <3>1. call[c].for = "load" => phase = "loading"
      BY DEF CallsInPhase
    <3>2. phase' # "off" => phase # "off"
      BY <2>3, <3>1 DEF AfterCall
    <3> QED BY <2>2, <2>3, <3>2 DEF StartPingLoop, Settled, CallsInPhase, ProcessTypeOK
  <2>6. call' \in {[call EXCEPT ![c] = Free], [call EXCEPT ![c] = Sent("ping")]}
    BY <2>2 DEF StartPingLoop, Settled
  <2>7. \A d \in Slot : call'[d].for = "load" => d # c /\ call[d].for = "load"
    BY <2>6 DEF Free, Sent, ProcessTypeOK
  <2>8. call[c].for # "load" => phase' = phase
    BY <2>3 DEF AfterCall
  <2> QED BY <2>1, <2>4, <2>5, <2>7, <2>8 DEF CallsInPhase
<1>6. ASSUME NEW c \in Slot, Boot(c) PROVE CallsInPhase'
  BY <1>6 DEF Boot, StartPingLoop, Sent, Free, hub, CallsInPhase, ProcessTypeOK
<1>7. ASSUME NEW c \in Slot, LoadApps(c) PROVE CallsInPhase'
  BY <1>7 DEF LoadApps, Sent, Free, hub, CallsInPhase, ProcessTypeOK
<1>8. ASSUME NEW c \in Slot, Serve(c) PROVE CallsInPhase'
  BY <1>8 DEF Serve, Sent, Free, hub, CallsInPhase, ProcessTypeOK
<1>9. ASSUME DatabaseOutage PROVE CallsInPhase'
  BY <1>9 DEF DatabaseOutage, hub, CallsInPhase, ProcessTypeOK
<1>10. ASSUME DatabaseReturns PROVE CallsInPhase'
  BY <1>10 DEF DatabaseReturns, hub, CallsInPhase, ProcessTypeOK
<1>11. ASSUME AllConnected PROVE CallsInPhase'
  BY <1>11 DEF AllConnected, database, hub, CallsInPhase, ProcessTypeOK
<1>12. ASSUME Listening PROVE CallsInPhase'
  BY <1>12 DEF Listening, database, hub, CallsInPhase, ProcessTypeOK
<1>13. ASSUME ManagementListening PROVE CallsInPhase'
  BY <1>13 DEF ManagementListening, database, CallsInPhase, ProcessTypeOK
<1>14. ASSUME Post PROVE CallsInPhase'
  BY <1>14 DEF Post, database, CallsInPhase, ProcessTypeOK
<1>15. ASSUME HubHandles PROVE CallsInPhase'
  BY <1>15 DEF HubHandles, database, CallsInPhase, ProcessTypeOK
<1>16. ASSUME PostFails PROVE CallsInPhase'
  BY <1>16 DEF PostFails, database, CallsInPhase, ProcessTypeOK
<1>17. ASSUME Registered PROVE CallsInPhase'
  BY <1>17 DEF Registered, database, StartLoop, CallsInPhase, ProcessTypeOK
<1>18. ASSUME Retry PROVE CallsInPhase'
  BY <1>18 DEF Retry, database, CallsInPhase, ProcessTypeOK
<1>19. ASSUME Reregister PROVE CallsInPhase'
  BY <1>19 DEF Reregister, database, CallsInPhase, ProcessTypeOK
<1>20. ASSUME HubRestarts PROVE CallsInPhase'
  BY <1>20 DEF HubRestarts, database, CallsInPhase, ProcessTypeOK
<1>21. ASSUME Close PROVE CallsInPhase'
  BY <1>21 DEF Close, database, dispose, CallsInPhase, ProcessTypeOK
<1>22. ASSUME Unregister PROVE CallsInPhase'
  BY <1>22 DEF Unregister, database, CallsInPhase, ProcessTypeOK
<1>23. ASSUME ManagementClosed PROVE CallsInPhase'
  BY <1>23 DEF ManagementClosed, database, hub, CallsInPhase, ProcessTypeOK
<1>24. ASSUME Drain PROVE CallsInPhase'
  BY <1>24 DEF Drain, disconnect, hub, CallsInPhase, ProcessTypeOK
<1>25. ASSUME Closed PROVE CallsInPhase'
  BY <1>25 DEF Closed, database, hub, CallsInPhase, ProcessTypeOK
<1>26. CASE UNCHANGED processVars
  BY <1>26 DEF processVars, database, hub, CallsInPhase, ProcessTypeOK
<1>27. ASSUME HubHandlesLate PROVE CallsInPhase'
  BY <1>27 DEF HubHandlesLate, database, CallsInPhase, ProcessTypeOK
<1> QED BY <1>1, <1>2, <1>3, <1>4, <1>5, <1>6, <1>7, <1>8, <1>9, <1>10, <1>11, <1>12, <1>13, <1>14, <1>15,
    <1>16, <1>17, <1>18, <1>19, <1>20, <1>21, <1>22, <1>23, <1>24, <1>25, <1>26, <1>27 DEF ProcessNext

LEMMA HubLinkStays ==
    ASSUME ProcessInv, [ProcessNext]_processVars
    PROVE  HubLink'
<1> USE DEF ProcessInv, ProcessTypeOK, CallsInPhase, Unwanted, Serving
<1>1. ASSUME NEW s \in Others, OutageOf(s) PROVE HubLink'
  BY <1>1 DEF OutageOf, MarkServiceDown, hub, Service, HubLink, Starting, Closing
<1>2. ASSUME NEW s \in Others, Connects(s) PROVE HubLink'
  BY <1>2 DEF Connects, MarkServiceUp, IsAvailable, database, hub, Service, HubLink, Starting, Closing
<1>3. ASSUME NEW c \in Slot, PingTick(c) PROVE HubLink'
  BY <1>3 DEF PingTick, hub, Sent, Free, HubLink, Starting, Closing
<1>4. ASSUME NEW c \in Slot, Answered(c) PROVE HubLink'
  BY <1>4 DEF Answered, hub, Free, HubLink, Starting, Closing
<1>5. ASSUME NEW c \in Slot, ActOn(c) PROVE HubLink'
  BY <1>5 DEF ActOn, AfterCall, StartPingLoop, Settled, MarkServiceUp, MarkServiceDown, IsAvailable,
      Service, Sent, Free, hub, HubLink, Starting, Closing
<1>6. ASSUME NEW c \in Slot, Boot(c) PROVE HubLink'
  BY <1>6 DEF Boot, StartPingLoop, Sent, Free, hub, HubLink, Starting, Closing
<1>7. ASSUME NEW c \in Slot, LoadApps(c) PROVE HubLink'
  BY <1>7 DEF LoadApps, Sent, Free, hub, HubLink, Starting, Closing
<1>8. ASSUME NEW c \in Slot, Serve(c) PROVE HubLink'
  BY <1>8 DEF Serve, Sent, Free, hub, HubLink, Starting, Closing
<1>9. ASSUME DatabaseOutage PROVE HubLink'
  BY <1>9 DEF DatabaseOutage, hub, HubLink, Starting, Closing
<1>10. ASSUME DatabaseReturns PROVE HubLink'
  BY <1>10 DEF DatabaseReturns, hub, HubLink, Starting, Closing
<1>11. ASSUME AllConnected PROVE HubLink'
  BY <1>11 DEF AllConnected, database, hub, HubLink, Starting, Closing
<1>12. ASSUME Listening PROVE HubLink'
  BY <1>12 DEF Listening, database, hub, HubLink, Starting, Closing
<1>13. ASSUME ManagementListening PROVE HubLink'
  BY <1>13 DEF ManagementListening, database, HubLink, Starting, Closing
<1>14. ASSUME Post PROVE HubLink'
  BY <1>14 DEF Post, database, HubLink, Starting, Closing
<1>15. ASSUME HubHandles PROVE HubLink'
  BY <1>15 DEF HubHandles, database, HubLink, Starting, Closing
<1>16. ASSUME PostFails PROVE HubLink'
  BY <1>16 DEF PostFails, database, HubLink, Starting, Closing
<1>17. ASSUME Registered PROVE HubLink'
  BY <1>17 DEF Registered, database, StartLoop, HubLink, Starting, Closing
<1>18. ASSUME Retry PROVE HubLink'
  BY <1>18 DEF Retry, database, HubLink, Starting, Closing
<1>19. ASSUME Reregister PROVE HubLink'
  BY <1>19 DEF Reregister, database, HubLink, Starting, Closing
<1>20. ASSUME HubRestarts PROVE HubLink'
  BY <1>20 DEF HubRestarts, database, HubLink, Starting, Closing
<1>21. ASSUME Close PROVE HubLink'
  BY <1>21 DEF Close, database, dispose, HubLink, Starting, Closing
<1>22. ASSUME Unregister PROVE HubLink'
  BY <1>22 DEF Unregister, database, HubLink, Starting, Closing
<1>23. ASSUME ManagementClosed PROVE HubLink'
  BY <1>23 DEF ManagementClosed, database, hub, HubLink, Starting, Closing
<1>24. ASSUME Drain PROVE HubLink'
  BY <1>24 DEF Drain, disconnect, hub, HubLink, Starting, Closing
<1>25. ASSUME Closed PROVE HubLink'
  BY <1>25 DEF Closed, database, hub, Service, HubLink, Starting, Closing
<1>26. CASE UNCHANGED processVars
  BY <1>26 DEF processVars, database, hub, HubLink, Starting, Closing
<1>27. ASSUME HubHandlesLate PROVE HubLink'
  BY <1>27 DEF HubHandlesLate, database, HubLink, Starting, Closing
<1> QED BY <1>1, <1>2, <1>3, <1>4, <1>5, <1>6, <1>7, <1>8, <1>9, <1>10, <1>11, <1>12, <1>13, <1>14, <1>15,
    <1>16, <1>17, <1>18, <1>19, <1>20, <1>21, <1>22, <1>23, <1>24, <1>25, <1>26, <1>27 DEF ProcessNext

LEMMA ProcessInvariant == ProcessSpec => []ProcessInv
<1>1. ProcessInit => ProcessInv
  BY ProcessStart
<1>2. ProcessInv /\ [ProcessNext]_processVars => ProcessInv'
  BY ProcessTypes, CallsStayInPhase, HubLinkStays DEF ProcessInv
<1> QED BY <1>1, <1>2, PTL DEF ProcessSpec

\* Every flag, call and counter of the process stays within its type.
THEOREM ProcessTypeCorrect == ProcessSpec => []ProcessTypeOK
<1>1. ProcessInv => ProcessTypeOK
  BY DEF ProcessInv
<1> QED BY <1>1, ProcessInvariant, PTL

\* A process that has closed without a leak is not listed: dispose comes before the test for
\* what is to be unregistered, so that no attempt starts, or goes on, after the DELETE.
THEOREM ClosedIsUnlisted == ProcessSpec => []IsUnlisted
<1>1. ProcessInv => IsUnlisted
  BY DEF ProcessInv, HubLink, Closing, IsUnlisted
<1> QED BY <1>1, ProcessInvariant, PTL

\* However the answers of pings and requests overtake each other, and whichever loop took over,
\* the loop is never left without a timer, nor waiting for a ping that is over; with the answers
\* fair, this is what GateFollowsDatabase rests on.
THEOREM PingLoopStaysAlive == ProcessSpec => []PingLoopLives
<1>1. ProcessInv => PingLoopLives
  BY DEF ProcessInv, CallsInPhase, ProcessTypeOK, PingLoopLives
<1> QED BY <1>1, ProcessInvariant, PTL

\* No answer that is lost and no restart of the Hub leaves a running node unlisted with
\* nothing under way; with the timers fair, this is what StaysListed rests on.
THEOREM RunningNodeIsKept == ProcessSpec => []NodeIsKept
<1>1. ProcessInv => NodeIsKept
  BY DEF ProcessInv, HubLink, NodeIsKept
<1> QED BY <1>1, ProcessInvariant, PTL

\* Whatever answers are still out when disconnect() is called, none of them sends a ping.
THEOREM PingsStop == ProcessSpec => StopsPinging
<1>1. ASSUME ProcessInv, [ProcessNext]_processVars, stopped,
             NEW c \in Slot, call'[c] = Sent("ping")
      PROVE  call[c] = Sent("ping")
  <2> USE DEF ProcessInv, CallsInPhase, ProcessTypeOK, Sent, Free
  <2>1. CASE UNCHANGED call
    BY <1>1, <2>1
  <2>2. ASSUME NEW d \in Slot, PingTick(d) PROVE FALSE
    BY <1>1, <2>2 DEF PingTick
  <2>3. ASSUME NEW d \in Slot, Answered(d) PROVE call[c] = Sent("ping")
    BY <1>1, <2>3 DEF Answered
  <2>4. ASSUME NEW d \in Slot, ActOn(d) \/ Boot(d)
        PROVE  call[c] = Sent("ping")
    <3>1. call' = [call EXCEPT ![d] = Free]
      BY <1>1, <2>4 DEF ActOn, Boot, StartPingLoop, Settled
    <3> QED BY <1>1, <3>1
  <2>5. ASSUME NEW d \in Slot, LoadApps(d) \/ Serve(d)
        PROVE  call[c] = Sent("ping")
    <3>1. PICK what \in {"load", "request"} : call' = [call EXCEPT ![d] = Sent(what)]
      BY <2>5 DEF LoadApps, Serve
    <3>2. Sent(what).for # Sent("ping").for
      OBVIOUS
    <3> QED BY <1>1, <3>1, <3>2
  <2> QED BY <1>1, <2>1, <2>2, <2>3, <2>4, <2>5
      DEF ProcessNext, processVars, database, OutageOf, Connects,
          DatabaseOutage, DatabaseReturns, AllConnected, Listening,
          ManagementListening, Post, HubHandles, PostFails, HubHandlesLate,
          Registered, Retry, Reregister, HubRestarts, Close,
          Unregister, ManagementClosed, Drain, Closed
<1>2. ProcessInv /\ [ProcessNext]_processVars =>
        [stopped => \A c \in Slot :
            call'[c] = Sent("ping") => call[c] = Sent("ping")]_processVars
  BY <1>1
<1> QED BY <1>2, ProcessInvariant, PTL DEF ProcessSpec, StopsPinging

==============================================================================
