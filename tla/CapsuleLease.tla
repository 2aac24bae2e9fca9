---------------------------- MODULE CapsuleLease ----------------------------
(***************************************************************************)
(* The scoped write lease: the CoordinationObject that stores one lease    *)
(* row per scope, and the members that run inside withScopedLease.         *)
(*                                                                         *)
(* A member is one invocation of withCapsuleLease, withPlanLease or        *)
(* withWorkspaceLease (an apply consumer, a restore, a graph edit).  It    *)
(* talks to the object by RPC: a request may be delayed until its caller   *)
(* has given up on it, may be lost, and its reply may never arrive.  The   *)
(* object handles one request at a time.                                   *)
(*                                                                         *)
(* An identity drawn with crypto.randomUUID (a generation token, a member  *)
(* reference) is an element of Ids that nothing in the state refers to.    *)
(* Abstracted: metadata, the HTTP envelope and its validation errors.      *)
(***************************************************************************)
EXTENDS Integers, FiniteSets

CONSTANTS
    Scopes,      \* lease keys, e.g. capsule:{id}:{environment}
    Holders,     \* stable logical holder ids, e.g. apply run ids
    Members,     \* withScopedLease invocations
    HolderOf,    \* the holderId a member acquires under
    ScopeOf,     \* the scope a member acquires
    Joining,     \* the members that pass joinExistingHolder
    Ids,         \* tokens and member references
    NoId,        \* an absent token or reference
    Calls,       \* identities of requests in flight
    NoCall,      \* the member awaits no reply
    TtlOf,       \* the time to live a member asks for, in ticks
    MaxTime,     \* bound on the clock
    MaxRefs,     \* MAX_JOINED_LEASE_REFERENCES
    RetryLimit   \* RUN_RENEWAL_TRANSPORT_RETRY_LIMIT

ASSUME LeaseConstants ==
    /\ HolderOf \in [Members -> Holders]
    /\ ScopeOf \in [Members -> Scopes]
    /\ Joining \subseteq Members
    /\ NoId \notin Ids
    /\ NoCall \notin Calls
    /\ TtlOf \in [Members -> Nat \ {0}]
    /\ MaxTime \in Nat
    /\ MaxRefs \in Nat \ {0}
    /\ RetryLimit \in Nat

VARIABLES
    now,        \* Date.now(), shared by the object and its callers
    lease,      \* the stored row of each scope; token NoId is no row
    member,     \* what each invocation remembers
    requests,   \* requests the object has not handled yet
    inbox       \* the reply to the call a member awaits

vars == <<now, lease, member, requests, inbox>>

-----------------------------------------------------------------------------
(* Stored rows, requests, replies and member state.                        *)

(* normalizeStoredLease makes a row joinable exactly when its list of      *)
(* member references is not empty, so the flag is not kept apart.          *)
StoredLease ==
    [holder: Holders \cup {NoId}, token: Ids \cup {NoId},
     expiresAt: Nat, refs: SUBSET Ids]

NoLease == [holder |-> NoId, token |-> NoId, expiresAt |-> 0, refs |-> {}]

Request ==
    [kind: {"acquire", "renew", "release"}, member: Members, call: Calls,
     token: Ids \cup {NoId}, ref: Ids \cup {NoId}]

Reply ==
    [acquired: {"yes", "no"}, holder: Holders \cup {NoId},
     token: Ids \cup {NoId}, ref: Ids \cup {NoId}, expiresAt: Nat]

NoReply == [acquired |-> "none", holder |-> NoId, token |-> NoId,
            ref |-> NoId, expiresAt |-> 0]

MemberState ==
    [pc: {"idle", "acquiring", "held", "renewing", "aborted", "releasing"},
     call: Calls \cup {NoCall}, attempts: 0 .. RetryLimit + 1,
     token: Ids \cup {NoId}, ref: Ids \cup {NoId}, expiresAt: Nat]

Idle == [pc |-> "idle", call |-> NoCall, attempts |-> 0,
         token |-> NoId, ref |-> NoId, expiresAt |-> 0]

(* Mutant of Max2: the renewal's own expiry replaces the stored one.       *)
Latest(a, b) == b

Max2(a, b) == IF a >= b THEN a ELSE b

FreeCalls == Calls \ ({r.call : r \in requests} \cup {member[m].call : m \in Members})

(* The identities some part of the state still refers to.                  *)
UsedIds ==
    UNION {
        {lease[s].token : s \in Scopes}, UNION {lease[s].refs : s \in Scopes},
        {member[m].token : m \in Members}, {member[m].ref : m \in Members},
        {r.token : r \in requests}, {r.ref : r \in requests},
        {inbox[m].token : m \in Members}, {inbox[m].ref : m \in Members}}

FreshIds == Ids \ UsedIds

-----------------------------------------------------------------------------
Init ==
    /\ now = 0
    /\ lease = [s \in Scopes |-> NoLease]
    /\ member = [m \in Members |-> Idle]
    /\ requests = {}
    /\ inbox = [m \in Members |-> NoReply]

-----------------------------------------------------------------------------
(* The object.                                                             *)

Live(s) == lease[s].expiresAt > now

(* getStoredLease: an expired row is deleted by the read that finds it.    *)
GetStoredLease(s) == IF Live(s) THEN lease[s] ELSE NoLease

(* Answer a request.  Nobody reads the reply of an abandoned call.         *)
Answer(r, reply) ==
    /\ requests' = requests \ {r}
    /\ inbox' = IF member[r.member].call = r.call
                THEN [inbox EXCEPT ![r.member] = reply] ELSE inbox

(* Mutants of CanJoin: the limit admits one reference too many, and any    *)
(* invocation under the holder id joins.                                   *)
CanJoinOverLimit(m, stored) ==
    /\ m \in Joining
    /\ stored.refs # {}
    /\ stored.holder = HolderOf[m]
    /\ Cardinality(stored.refs) <= MaxRefs

CanJoin(m, stored) ==
    /\ m \in Joining
    /\ stored.refs # {}
    /\ stored.holder = HolderOf[m]
    /\ Cardinality(stored.refs) < MaxRefs

ServeJoin(r) ==
    LET m == r.member
        s == ScopeOf[m]
        expiry == Max2(lease[s].expiresAt, now + TtlOf[m])
    IN /\ r.kind = "acquire"
       /\ Live(s)
       /\ CanJoin(m, lease[s])
       /\ \E ref \in FreshIds :
            /\ lease' = [lease EXCEPT ![s].expiresAt = expiry,
                                      ![s].refs = lease[s].refs \cup {ref}]
            /\ Answer(r, [acquired |-> "yes", holder |-> lease[s].holder,
                          token |-> lease[s].token, ref |-> ref,
                          expiresAt |-> expiry])
       /\ UNCHANGED <<now, member>>

ServeBusy(r) ==
    LET s == ScopeOf[r.member]
    IN /\ r.kind = "acquire"
       /\ Live(s)
       /\ ~CanJoin(r.member, lease[s])
       /\ Answer(r, [acquired |-> "no", holder |-> lease[s].holder,
                     token |-> lease[s].token, ref |-> NoId,
                     expiresAt |-> lease[s].expiresAt])
       /\ UNCHANGED <<now, lease, member>>

ServeGrant(r) ==
    LET m == r.member
        s == ScopeOf[m]
    IN /\ r.kind = "acquire"
       /\ ~Live(s)
       /\ \E token \in FreshIds :
          \E ref \in IF m \in Joining THEN FreshIds \ {token} ELSE {NoId} :
            /\ lease' = [lease EXCEPT ![s] =
                           [holder |-> HolderOf[m], token |-> token,
                            expiresAt |-> now + TtlOf[m],
                            refs |-> {ref} \ {NoId}]]
            /\ Answer(r, [acquired |-> "yes", holder |-> HolderOf[m],
                          token |-> token, ref |-> ref,
                          expiresAt |-> now + TtlOf[m]])
       /\ UNCHANGED <<now, member>>

(* Mutant of SameGeneration: the holder id alone identifies the lease.     *)
SameHolderOnly(r, stored) ==
    /\ stored.token # NoId
    /\ stored.holder = HolderOf[r.member]

(* The gate renewLease and releaseLease share: same holder, same           *)
(* generation, and a reference that is still a member of a joined lease.   *)
SameGeneration(r, stored) ==
    /\ stored.token # NoId
    /\ stored.holder = HolderOf[r.member]
    /\ stored.token = r.token

MemberOf(r, stored) == stored.refs # {} => r.ref \in stored.refs

ServeRenew(r) ==
    LET s == ScopeOf[r.member]
        stored == GetStoredLease(s)
        expiry == Max2(stored.expiresAt, now + TtlOf[r.member])
        held == SameGeneration(r, stored) /\ MemberOf(r, stored)
    IN /\ r.kind = "renew"
       /\ lease' = [lease EXCEPT ![s] =
                      IF held THEN [stored EXCEPT !.expiresAt = expiry] ELSE stored]
       /\ Answer(r, [acquired |-> IF held THEN "yes" ELSE "no",
                     holder |-> HolderOf[r.member], token |-> r.token,
                     ref |-> NoId,
                     expiresAt |-> IF held THEN expiry ELSE stored.expiresAt])
       /\ UNCHANGED <<now, member>>

(* Mutant of ServeRelease: one joiner's release deletes the row.           *)
ServeReleaseForAll(r) ==
    LET s == ScopeOf[r.member]
        stored == GetStoredLease(s)
        held == SameGeneration(r, stored) /\ MemberOf(r, stored)
    IN /\ r.kind = "release"
       /\ lease' = [lease EXCEPT ![s] = IF held THEN NoLease ELSE stored]
       /\ Answer(r, [acquired |-> IF held THEN "yes" ELSE "no",
                     holder |-> NoId, token |-> NoId, ref |-> NoId,
                     expiresAt |-> 0])
       /\ UNCHANGED <<now, member>>

ServeRelease(r) ==
    LET s == ScopeOf[r.member]
        stored == GetStoredLease(s)
        held == SameGeneration(r, stored) /\ MemberOf(r, stored)
        remaining == stored.refs \ {r.ref}
    IN /\ r.kind = "release"
       /\ lease' = [lease EXCEPT ![s] =
                      IF ~held THEN stored
                      ELSE IF remaining # {} THEN [stored EXCEPT !.refs = remaining]
                      ELSE NoLease]
       /\ Answer(r, [acquired |-> IF held THEN "yes" ELSE "no",
                     holder |-> NoId, token |-> NoId, ref |-> NoId,
                     expiresAt |-> 0])
       /\ UNCHANGED <<now, member>>

(* alarm -> runDueAlarms -> deleteExpiredLeases.                           *)
DeleteExpiredLeases ==
    /\ \E s \in Scopes : lease[s].token # NoId /\ ~Live(s)
    /\ lease' = [s \in Scopes |-> GetStoredLease(s)]
    /\ UNCHANGED <<now, member, requests, inbox>>

-----------------------------------------------------------------------------
(* The members: withScopedLease and the renewal loop around its work.      *)

Send(m, kind, call, next) ==
    /\ requests' = requests \cup
         {[kind |-> kind, member |-> m, call |-> call,
           token |-> member[m].token, ref |-> member[m].ref]}
    /\ member' = [member EXCEPT ![m] = [next EXCEPT !.call = call]]
    /\ inbox' = [inbox EXCEPT ![m] = NoReply]
    /\ UNCHANGED <<now, lease>>

Become(m, next) ==
    /\ member' = [member EXCEPT ![m] = [next EXCEPT !.call = NoCall]]
    /\ inbox' = [inbox EXCEPT ![m] = NoReply]
    /\ UNCHANGED <<now, lease, requests>>

Answered(m, acquired) == inbox[m].acquired = acquired

Acquire(m) ==
    /\ member[m].pc = "idle"
    /\ \E c \in FreeCalls :
         Send(m, "acquire", c, [member[m] EXCEPT !.pc = "acquiring"])

(* Mutant of AcquireGranted: any answer counts as the lease.               *)
AcquireAssumed(m) ==
    /\ member[m].pc = "acquiring"
    /\ ~Answered(m, "none")
    /\ Become(m, [member[m] EXCEPT !.pc = "held", !.token = inbox[m].token,
                     !.ref = inbox[m].ref, !.expiresAt = inbox[m].expiresAt])

AcquireGranted(m) ==
    /\ member[m].pc = "acquiring"
    /\ Answered(m, "yes")
    /\ Become(m, [member[m] EXCEPT !.pc = "held", !.token = inbox[m].token,
                     !.ref = inbox[m].ref, !.expiresAt = inbox[m].expiresAt])

(* acquireScopedLease polls while its own joinable holder denies it.       *)
AcquireWait(m) ==
    /\ member[m].pc = "acquiring"
    /\ Answered(m, "no")
    /\ m \in Joining
    /\ inbox[m].holder = HolderOf[m]
    /\ \E c \in FreeCalls : Send(m, "acquire", c, member[m])

(* CapsuleLeaseBusyError, or a transport error of acquireLease: whether    *)
(* the request or its reply was lost, the caller gives up the call.        *)
AcquireFailed(m) ==
    /\ member[m].pc = "acquiring"
    /\ Become(m, Idle)

Renew(m) ==
    /\ member[m].pc = "held"
    /\ \E c \in FreeCalls :
         Send(m, "renew", c, [member[m] EXCEPT !.pc = "renewing", !.attempts = 1])

Renewed(m) ==
    /\ member[m].pc = "renewing"
    /\ Answered(m, "yes")
    /\ Become(m, [member[m] EXCEPT !.pc = "held", !.attempts = 0,
                                   !.expiresAt = inbox[m].expiresAt])

(* Mutant of RenewRetry: transport errors are retried without a limit.     *)
RenewRetryForever(m) ==
    /\ member[m].pc = "renewing"
    /\ member[m].expiresAt > now
    /\ \E c \in FreeCalls :
         Send(m, "renew", c, [member[m] EXCEPT !.attempts = @ + 1])

(* A transport error is retried while both fences leave headroom.          *)
RenewRetry(m) ==
    /\ member[m].pc = "renewing"
    /\ member[m].attempts <= RetryLimit
    /\ member[m].expiresAt > now
    /\ \E c \in FreeCalls :
         Send(m, "renew", c, [member[m] EXCEPT !.attempts = @ + 1])

(* failClosed: the lease is lost, or the transport stayed unavailable.     *)
RenewFailClosed(m) ==
    /\ member[m].pc = "renewing"
    /\ Become(m, [member[m] EXCEPT !.pc = "aborted", !.attempts = 0])

(* The finally block of withScopedLease.                                   *)
Release(m) ==
    /\ member[m].pc \in {"held", "aborted"}
    /\ \E c \in FreeCalls :
         Send(m, "release", c, [member[m] EXCEPT !.pc = "releasing"])

ReleaseReturned(m) ==
    /\ member[m].pc = "releasing"
    /\ Become(m, Idle)

(* The isolate dies: its memory is gone, its requests are not.             *)
Crash(m) ==
    /\ member[m].pc # "idle"
    /\ Become(m, Idle)

Lose(r) ==
    /\ requests' = requests \ {r}
    /\ UNCHANGED <<now, lease, member, inbox>>

Tick ==
    /\ now < MaxTime
    /\ now' = now + 1
    /\ UNCHANGED <<lease, member, requests, inbox>>

-----------------------------------------------------------------------------
Object(r) ==
    \/ ServeJoin(r) \/ ServeBusy(r) \/ ServeGrant(r)
    \/ ServeRenew(r) \/ ServeRelease(r) \/ Lose(r)

Client(m) ==
    \/ Acquire(m) \/ AcquireGranted(m) \/ AcquireWait(m) \/ AcquireFailed(m)
    \/ Renew(m) \/ Renewed(m) \/ RenewRetry(m) \/ RenewFailClosed(m)
    \/ Release(m) \/ ReleaseReturned(m) \/ Crash(m)

Next ==
    \/ \E r \in requests : Object(r)
    \/ \E m \in Members : Client(m)
    \/ DeleteExpiredLeases
    \/ Tick

Spec == Init /\ [][Next]_vars

-----------------------------------------------------------------------------
(* Properties.                                                             *)

(* Rows, requests, replies and member records have their types; attempts   *)
(* stay within the retry limit of the renewal loop.                        *)
TypeOK ==
    /\ now \in Nat
    /\ lease \in [Scopes -> StoredLease]
    /\ member \in [Members -> MemberState]
    /\ requests \subseteq Request
    /\ inbox \in [Members -> Reply \cup {NoReply}]

(* The work of member m still runs and the last expiry it was told of has  *)
(* not passed.                                                             *)
Promised(m) ==
    /\ member[m].pc \in {"held", "renewing"}
    /\ member[m].expiresAt > now

(* Until the expiry a member was told of, the stored row is that member's  *)
(* generation, lives at least as long, and still counts the member.        *)
PromiseKept ==
    \A m \in Members :
        Promised(m) =>
            LET row == lease[ScopeOf[m]]
            IN /\ row.token = member[m].token
               /\ row.holder = HolderOf[m]
               /\ row.expiresAt >= member[m].expiresAt
               /\ row.refs = {} => member[m].ref = NoId
               /\ row.refs # {} => member[m].ref \in row.refs

(* Two members work in one scope at the same time only as joiners of one   *)
(* logical operation; a duplicate delivery of one run is excluded too.     *)
MutualExclusion ==
    \A m, n \in Members :
        /\ m # n
        /\ ScopeOf[m] = ScopeOf[n]
        /\ Promised(m)
        /\ Promised(n)
        => /\ {m, n} \subseteq Joining
           /\ HolderOf[m] = HolderOf[n]
           /\ member[m].token = member[n].token

(* A joined generation never holds more than the limit of references.      *)
RefsBounded == \A s \in Scopes : Cardinality(lease[s].refs) <= MaxRefs

(* A live generation is only ever extended or given up: its expiry never   *)
(* moves back and no other generation replaces it.                         *)
LiveGenerationStep ==
    \A s \in Scopes :
        Live(s) =>
            \/ lease'[s] = NoLease
            \/ /\ lease'[s].token = lease[s].token
               /\ lease'[s].holder = lease[s].holder
               /\ lease'[s].expiresAt >= lease[s].expiresAt

LiveGenerationStable == [][LiveGenerationStep]_vars

-----------------------------------------------------------------------------
(* The contract: a lock per scope that one member, or the joining members  *)
(* of one logical operation, may be inside.                                *)

Contract == INSTANCE ScopeLock
    WITH inside <- {m \in Members : Promised(m)}

(* The lease implements the lock its callers reason with.                  *)
ImplementsScopeLock == Contract!Spec
=============================================================================
