------------------------------ MODULE Accounts ------------------------------
(***************************************************************************)
(* Sign-up, sign-in and the devices they give out, for one username of one *)
(* application (api/src/lib/auth, DeviceRegistration.ts, routes/User.ts,   *)
(* routes/Device.ts, redis/src/lib/models/UsernameLock.ts, AuthNonce.ts).  *)
(*                                                                         *)
(* Every request is a sequence of calls to Redis and to the database; one  *)
(* call is one step.  Any call may fail, with or without having had its    *)
(* effect, and the process may die between two of them.                    *)
(*                                                                         *)
(* An account and a device have the name of the request that creates them, *)
(* since ids are random and a request creates at most one of each.         *)
(***************************************************************************)
EXTENDS Naturals

CONSTANTS Register,     \* POST /user/register
          OAuth,        \* callbacks of the provider
          Login,        \* local sign-ins
          List,         \* GET /device/list
          NonceOf,      \* per callback: the nonce its state carries
          UnlinkAfter,  \* UNLINK_AFTER_SECONDS, in ticks of the clock
          MaxFaults,    \* bound: calls that fail, processes that die, locks that expire, accounts removed
          none

Request == Register \cup OAuth \cup Login

ASSUME AccountsAssumption ==
    /\ none \notin Request
    /\ Register \cap OAuth = {} /\ Register \cap Login = {} /\ OAuth \cap Login = {}
    /\ UnlinkAfter \in Nat \ {0}
    /\ MaxFaults \in Nat

VARIABLES
    lock,     \* the request whose token the lock key holds
    nonces,   \* the nonces stored in Redis
    account,  \* per account: none, stored, visible to searches, gone
    devices,  \* per account: its `devices`
    google,   \* the accounts with "google" in `authProviders`
    age,      \* per account: time since its updatedAt, up to UnlinkAfter
    saved,    \* the devices in Redis
    pc,       \* per request: the call it is at
    acct,     \* per request: the account it found or creates
    device,   \* per request: the device it signs in with
    after,    \* per request: where it goes on when the lock is released
    pending,  \* per request: time since its device was linked, up to UnlinkAfter
    listing,  \* per list request: step, account, ids of interest, age of what was read
    faults,   \* how many of the faults have happened
    exposed,  \* history: requests that lost the lock before their account was visible
    late      \* history: devices saved a minute or more after they were linked

dbVars == <<account, devices, google, age>>
requestVars == <<pc, acct, device, after, pending>>
vars == <<lock, nonces, dbVars, saved, requestVars, listing, faults, exposed, late>>

Locked == {"find", "insert", "refresh", "writeOwn"}
Pc == Locked \cup {"start", "acquire", "provider", "device", "link", "save", "issue",
                   "release", "done", "failed"}
NotListing == [at |-> "idle", acct |-> none, ids |-> {}, age |-> 0]

TypeOK ==
    /\ lock \in Request \cup {none}
    /\ nonces \subseteq {NonceOf[o] : o \in OAuth}
    /\ account \in [Request -> {"none", "stored", "visible", "gone"}]
    /\ devices \in [Request -> SUBSET Request]
    /\ google \subseteq Request
    /\ age \in [Request -> 0..UnlinkAfter]
    /\ saved \subseteq Request
    /\ pc \in [Request -> Pc]
    /\ acct \in [Request -> Request \cup {none}]
    /\ device \in [Request -> Request \cup {none}]
    /\ after \in [Request -> {"link", "provider", "device", "done", "failed"}]
    /\ pending \in [Request -> 0..UnlinkAfter]
    /\ listing \in [List -> [at : {"idle", "get", "exists", "unlink"},
                             acct : Request \cup {none}, ids : SUBSET Request,
                             age : 0..UnlinkAfter]]
    /\ faults \in 0..MaxFaults
    /\ exposed \subseteq Request
    /\ late \subseteq Request

\* The states handed out: each was signed with a nonce of its own.
Issued == {NonceOf[o] : o \in OAuth}

Init ==
    /\ lock = none
    /\ nonces = Issued
    /\ account = [r \in Request |-> "none"]
    /\ devices = [r \in Request |-> {}]
    /\ google = {}
    /\ age = [r \in Request |-> 0]
    /\ saved = {}
    /\ pc = [r \in Request |-> "start"]
    /\ acct = [r \in Request |-> none]
    /\ device = [r \in Request |-> none]
    /\ after = [r \in Request |-> "failed"]
    /\ pending = [r \in Request |-> 0]
    /\ listing = [q \in List |-> NotListing]
    /\ faults = 0
    /\ exposed = {}
    /\ late = {}

Fault ==
    /\ faults < MaxFaults
    /\ faults' = faults + 1

Goto(r, step) == pc' = [pc EXCEPT ![r] = step]

\* A registration holds the lock until it has answered, an OAuth sign-in only
\* while it finds or creates the account.
Holds(r) == IF r \in Register THEN pc[r] \in Locked \cup {"device", "link", "save", "issue"}
            ELSE r \in OAuth /\ pc[r] \in Locked

\* Out of the locked part, in the way `finally` does it.
Leave(r, step) ==
    IF Holds(r)
    THEN /\ Goto(r, "release")
         /\ after' = [after EXCEPT ![r] = step]
    ELSE /\ Goto(r, step)
         /\ UNCHANGED after

\* The lock's key goes while r's account is not there for searches to find.
Exposes(r) == IF r # none /\ account[r] # "visible" THEN exposed \cup {r} ELSE exposed

Exists(a) == account[a] \in {"stored", "visible"}

\* Every write of an account's document moves its updatedAt.
Written(a) == age' = [age EXCEPT ![a] = 0]
----------------------------------------------------------------------------
(* Locking *)

\* Mutant of RedeemNonce: GET instead of GETDEL.
RedeemAndKeep(o) ==
    /\ NonceOf[o] \in nonces
    /\ UNCHANGED nonces

\* GETDEL
RedeemNonce(o) ==
    /\ NonceOf[o] \in nonces
    /\ nonces' = nonces \ {NonceOf[o]}

Start(r) ==
    /\ pc[r] = "start"
    /\ \/ /\ r \in Register
          /\ Goto(r, "acquire") /\ UNCHANGED nonces
       \/ /\ r \in Login
          /\ Goto(r, "find") /\ UNCHANGED nonces
       \/ /\ r \in OAuth
          /\ RedeemNonce(r) /\ Goto(r, "acquire")
       \/ /\ r \in OAuth /\ NonceOf[r] \notin nonces
          /\ Goto(r, "failed") /\ UNCHANGED nonces
    /\ UNCHANGED <<lock, dbVars, saved, acct, device, after, pending, listing, faults, exposed, late>>

\* Mutant of MayTake: SET without NX.
TakesAnyway == TRUE

\* SET NX
MayTake == lock = none

\* acquire() tries again until it succeeds or the time to wait is over.
Acquire(r) ==
    /\ pc[r] = "acquire"
    /\ \/ MayTake /\ lock' = r /\ Goto(r, "find")
       \/ lock # none /\ UNCHANGED lock /\ Goto(r, "failed")
    /\ UNCHANGED <<nonces, dbVars, saved, acct, device, after, pending, listing, faults, exposed, late>>

\* The release script.
Released(r) == IF lock = r THEN none ELSE lock

\* release(), which may fail and leave the key to its time to live.
Release(r) ==
    /\ pc[r] = "release"
    /\ Goto(r, after[r])
    /\ after' = [after EXCEPT ![r] = "failed"]
    /\ \/ /\ lock' = Released(r)
          /\ exposed' = IF lock' # lock THEN Exposes(lock) ELSE exposed
          /\ UNCHANGED faults
       \/ Fault /\ UNCHANGED <<lock, exposed>>
    /\ UNCHANGED <<nonces, dbVars, saved, acct, device, pending, listing, late>>

\* The lock's time to live passes.
Expire ==
    /\ Fault
    /\ lock # none
    /\ lock' = none
    /\ exposed' = Exposes(lock)
    /\ UNCHANGED <<nonces, dbVars, saved, requestVars, listing, late>>
----------------------------------------------------------------------------
(* Accounts *)

\* findUserByUsername, a search.  A registration or a local sign-in goes on
\* only with the account's password.
Find(r) ==
    /\ pc[r] = "find"
    /\ \/ \E a \in Request :
             /\ account[a] = "visible"
             /\ acct' = [acct EXCEPT ![r] = a]
             /\ Goto(r, IF r \in OAuth THEN "writeOwn" ELSE "device")
             /\ UNCHANGED after
       \/ /\ r \notin OAuth /\ \E a \in Request : account[a] = "visible"
          /\ Leave(r, "failed") /\ UNCHANGED acct
       \/ /\ \A a \in Request : account[a] # "visible"
          /\ IF r \in Login THEN Leave(r, "failed") ELSE Goto(r, "insert") /\ UNCHANGED after
          /\ UNCHANGED acct
    /\ UNCHANGED <<lock, nonces, dbVars, saved, device, pending, listing, faults, exposed, late>>

\* The `devices` of a new account: a registration builds its device first.
FirstDevices(r) == IF r \in Register THEN {r} ELSE {}

\* createUser.  The answer comes when the account is visible (wait_for).
Insert(r) ==
    /\ pc[r] = "insert"
    /\ Goto(r, "refresh")
    /\ account' = [account EXCEPT ![r] = "stored"]
    /\ devices' = [devices EXCEPT ![r] = FirstDevices(r)]
    /\ google' = IF r \in OAuth THEN google \cup {r} ELSE google
    /\ Written(r)
    /\ acct' = [acct EXCEPT ![r] = r]
    /\ UNCHANGED <<lock, nonces, saved, device, after, pending, listing, faults, exposed, late>>

\* Searches see a stored account from the next refresh of the index on.
Refresh(a) ==
    /\ account[a] = "stored"
    /\ account' = [account EXCEPT ![a] = "visible"]
    /\ UNCHANGED <<lock, nonces, devices, google, age, saved, requestVars, listing, faults, exposed, late>>

Inserted(r) ==
    /\ pc[r] = "refresh" /\ account[r] # "stored"
    /\ IF r \in Register THEN Goto(r, "save") /\ UNCHANGED after ELSE Leave(r, "link")
    /\ UNCHANGED <<lock, nonces, dbVars, saved, acct, device, pending, listing, faults, exposed, late>>

\* writeOwnAuthDetails
WriteOwn(r) ==
    /\ pc[r] = "writeOwn" /\ Exists(acct[r])
    /\ Written(acct[r])
    /\ Leave(r, IF acct[r] \in google THEN "device" ELSE "provider")
    /\ UNCHANGED <<lock, nonces, account, devices, google, saved, acct, device, pending,
                   listing, faults, exposed, late>>

\* verifyProfile links the provider, after the lock is released.
LinkProvider(r) ==
    /\ pc[r] = "provider" /\ Exists(acct[r])
    /\ Written(acct[r])
    /\ google' = google \cup {acct[r]}
    /\ Goto(r, "device")
    /\ UNCHANGED <<lock, nonces, account, devices, saved, acct, device, after, pending,
                   listing, faults, exposed, late>>

\* An operator removes an account from the database.
RemoveAccount(a) ==
    /\ Fault
    /\ account[a] = "visible"
    /\ account' = [account EXCEPT ![a] = "gone"]
    /\ UNCHANGED <<lock, nonces, devices, google, age, saved, requestVars, listing, exposed, late>>
----------------------------------------------------------------------------
(* Devices *)

\* Mutant of Reusable: whose device it is does not matter.
ReusesAny(r, d) == d \in saved

\* findReusableDevice
Reusable(r, d) == d \in saved /\ acct[d] = acct[r]

\* resolveDevice: the hint names a device of the account, or a new one is made.
ResolveDevice(r) ==
    /\ pc[r] = "device"
    /\ \/ /\ r \notin Register
          /\ \E d \in Request :
                /\ Reusable(r, d)
                /\ device' = [device EXCEPT ![r] = d]
                /\ Goto(r, "issue")
       \/ UNCHANGED device /\ Goto(r, "link")
    /\ UNCHANGED <<lock, nonces, dbVars, saved, acct, after, pending, listing, faults, exposed, late>>

\* patchUserDevices("append"): the id goes on the account first.
LinkDevice(r) ==
    /\ pc[r] = "link" /\ Exists(acct[r])
    /\ Written(acct[r])
    /\ devices' = [devices EXCEPT ![acct[r]] = @ \cup {r}]
    /\ Goto(r, "save")
    /\ UNCHANGED <<lock, nonces, account, google, saved, acct, device, after, pending, listing,
                   faults, exposed, late>>

SaveDevice(r) ==
    /\ pc[r] = "save"
    /\ saved' = saved \cup {r}
    /\ device' = [device EXCEPT ![r] = r]
    /\ late' = IF pending[r] = UnlinkAfter THEN late \cup {r} ELSE late
    /\ pending' = [pending EXCEPT ![r] = 0]
    /\ Goto(r, "issue")
    /\ UNCHANGED <<lock, nonces, dbVars, acct, after, listing, faults, exposed>>

\* sendSession: the tokens are issued and the request answered.
SendSession(r) ==
    /\ pc[r] = "issue"
    /\ Leave(r, "done")
    /\ UNCHANGED <<lock, nonces, dbVars, saved, acct, device, pending, listing, faults, exposed, late>>

\* What a request that failed knew is gone; a device it saved keeps its owner.
Forget(r) ==
    /\ acct' = IF r \in saved THEN acct ELSE [acct EXCEPT ![r] = none]
    /\ device' = [device EXCEPT ![r] = none]
    /\ pending' = [pending EXCEPT ![r] = 0]

FailVars == <<lock, nonces, dbVars, saved, listing, exposed, late>>

\* updateItems answers null: the account no longer exists.
AccountGone(r) ==
    /\ pc[r] \in {"writeOwn", "provider", "link"} /\ ~Exists(acct[r])
    /\ Leave(r, "failed") /\ Forget(r)
    /\ UNCHANGED <<faults, FailVars>>

\* A call of r fails; its effect, if it was to have one, is the step before.
Fails(r) ==
    /\ Fault
    /\ pc[r] \notin {"start", "release", "done", "failed"}
    /\ Leave(r, "failed") /\ Forget(r)
    /\ UNCHANGED FailVars

\* The process dies, and the lock stays.
Dies(r) ==
    /\ Fault
    /\ Holds(r) \/ pc[r] = "release"
    /\ Goto(r, "failed") /\ Forget(r)
    /\ after' = [after EXCEPT ![r] = "failed"]
    /\ UNCHANGED FailVars
----------------------------------------------------------------------------
(* Listing the devices of an account *)

ListVars == <<lock, nonces, account, google, saved, requestVars, faults, exposed, late>>

ListDevices(q) ==
    /\ listing[q].at = "idle"
    /\ \E a \in Request :
          /\ Exists(a)
          /\ listing' = [listing EXCEPT ![q] = [at |-> "get", acct |-> a, ids |-> devices[a], age |-> age[a]]]
    /\ UNCHANGED <<devices, age, ListVars>>

\* Mutant of MayUnlink: the rule of UNLINK_AFTER_SECONDS is left out.
AlwaysUnlinks(q) == TRUE

\* Nothing is taken off an account that was written less than a minute ago when it was read.
MayUnlink(q) == listing[q].age >= UnlinkAfter

\* The devices are read, one that is there perhaps in vain; for those that were not, the
\* EXISTS commands go out at once.
GetDevices(q) ==
    /\ listing[q].at = "get"
    /\ \E unread \in {listing[q].ids, listing[q].ids \ saved} :
          listing' = [listing EXCEPT ![q] = IF unread # {} /\ MayUnlink(q)
                                            THEN [@ EXCEPT !.at = "exists", !.ids = unread]
                                            ELSE NotListing]
    /\ UNCHANGED <<devices, age, ListVars>>

CheckExists(q) ==
    /\ listing[q].at = "exists"
    /\ LET missing == listing[q].ids \ saved
       IN listing' = [listing EXCEPT ![q] = IF missing = {} THEN NotListing
                                            ELSE [@ EXCEPT !.at = "unlink", !.ids = missing]]
    /\ UNCHANGED <<devices, age, ListVars>>

\* patchUserDevices("remove"), by value; it may also fail.
Unlink(q) ==
    /\ listing[q].at = "unlink"
    /\ listing' = [listing EXCEPT ![q] = NotListing]
    /\ LET a == listing[q].acct
       IN \/ /\ Exists(a)
             /\ devices' = [devices EXCEPT ![a] = @ \ listing[q].ids]
             /\ Written(a)
          \/ UNCHANGED <<devices, age>>
    /\ UNCHANGED ListVars
----------------------------------------------------------------------------
Older(t) == IF t < UnlinkAfter THEN t + 1 ELSE t

Tick ==
    /\ age' = [a \in Request |-> IF Exists(a) THEN Older(age[a]) ELSE age[a]]
    /\ pending' = [r \in Request |-> IF pc[r] = "save" \/ (pc[r] = "refresh" /\ r \in Register)
                                     THEN Older(pending[r]) ELSE pending[r]]
    /\ listing' = [q \in List |-> IF listing[q].at = "idle" THEN listing[q]
                                  ELSE [listing[q] EXCEPT !.age = Older(@)]]
    /\ UNCHANGED <<lock, nonces, account, devices, google, saved, pc, acct, device, after, faults, exposed, late>>

Step(r) ==
    \/ Start(r) \/ Acquire(r) \/ Release(r) \/ Find(r) \/ Insert(r) \/ Inserted(r)
    \/ WriteOwn(r) \/ LinkProvider(r) \/ ResolveDevice(r) \/ LinkDevice(r)
    \/ SaveDevice(r) \/ SendSession(r) \/ AccountGone(r)

ListStep(q) == GetDevices(q) \/ CheckExists(q) \/ Unlink(q)

Next ==
    \/ \E r \in Request : Step(r) \/ Fails(r) \/ Dies(r) \/ Refresh(r) \/ RemoveAccount(r)
    \/ \E q \in List : ListDevices(q) \/ ListStep(q)
    \/ Expire
    \/ Tick

Spec == Init /\ [][Next]_vars
----------------------------------------------------------------------------
(* Properties *)

\* One account per username: of two accounts, one was created by a request that
\* lost the lock (it expired, or an insert was cut short) before searches could
\* find its account.  withUsernameLock promises that requests take turns.
OneAccount ==
    \A a, b \in Request :
        a # b /\ account[a] # "none" /\ account[b] # "none"
            /\ a \notin exposed /\ b \notin exposed
        => account[a] = "gone" \/ account[b] = "gone"

\* A device in Redis is listed on its account: unlinkMissingDevices never takes
\* off a device that is being saved, unless the save took a minute or more.
SavedIsListed ==
    \A d \in saved : d \in devices[acct[d]] \/ d \in late

\* Who gets a session gets one that is whole: the device is there and belongs to
\* the account, the account was stored, and a provider's sign-in is on record.
SignInIsComplete ==
    \A r \in Request : pc[r] = "done" =>
        /\ device[r] \in saved /\ acct[device[r]] = acct[r]
        /\ account[acct[r]] # "none"
        /\ r \in OAuth => acct[r] \in google

\* A state parameter signs in once, however often its callback is delivered.
OneSignInPerState ==
    \A o, p \in OAuth : o # p /\ NonceOf[o] = NonceOf[p] => ~(pc[o] = "done" /\ pc[p] = "done")
=============================================================================
