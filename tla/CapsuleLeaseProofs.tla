------------------------- MODULE CapsuleLeaseProofs -------------------------
(***************************************************************************)
(* Proofs about the scoped write lease, for any number of scopes, holders, *)
(* members, identities and calls, any clock and any limits.                *)
(***************************************************************************)
EXTENDS CapsuleLease, FiniteSetTheorems, TLAPS

(* The handle of a member, its token, reference and expiry: in the reply   *)
(* it has not read yet while it acquires, in its own memory afterwards.    *)
HasHandle(m) ==
    \/ member[m].pc \in {"held", "renewing", "aborted", "releasing"}
    \/ member[m].pc = "acquiring" /\ Answered(m, "yes")

TokenOf(m) == IF member[m].pc = "acquiring" THEN inbox[m].token ELSE member[m].token

RefOf(m) == IF member[m].pc = "acquiring" THEN inbox[m].ref ELSE member[m].ref

ExpiryOf(m) ==
    IF member[m].pc = "acquiring" THEN inbox[m].expiresAt ELSE member[m].expiresAt

Carries(r) == r.kind \in {"renew", "release"}

(* A request its caller still waits for carries the caller's handle.       *)
RequestsMatch ==
    \A r \in requests :
        r.call = member[r.member].call =>
            /\ r.kind = "acquire" => member[r.member].pc = "acquiring"
            /\ r.kind = "renew" => member[r.member].pc = "renewing"
            /\ r.kind = "release" => member[r.member].pc = "releasing"
            /\ Carries(r) => /\ r.token = member[r.member].token
                             /\ r.ref = member[r.member].ref

(* A handle names a generation.                                            *)
HandlesNamed ==
    /\ \A m \in Members : HasHandle(m) => TokenOf(m) # NoId
    /\ \A r \in requests : Carries(r) => r.token # NoId

(* No two members share a handle.                                          *)
HandlesUnique ==
    \A m, n \in Members :
        /\ HasHandle(m) /\ HasHandle(n)
        /\ TokenOf(m) = TokenOf(n) /\ RefOf(m) = RefOf(n)
        => m = n

(* Only the member that is releasing a handle has a release of it under    *)
(* way, however late: a returned or crashed member left its handle behind. *)
ReleasesOwned ==
    \A m \in Members, r \in requests :
        /\ HasHandle(m) /\ r.kind = "release"
        /\ TokenOf(m) = r.token /\ RefOf(m) = r.ref
        => member[m].pc = "releasing"

(* A generation belongs to one scope, and no row means no references.      *)
GenerationsApart ==
    /\ \A s, t \in Scopes :
         lease[s].token # NoId /\ lease[s].token = lease[t].token => s = t
    /\ \A s \in Scopes : lease[s].token = NoId => lease[s].refs = {}

(* A handle of a stored generation has a reference exactly when the row    *)
(* counts references.                                                      *)
Joinability ==
    \A s \in Scopes :
        lease[s].token # NoId =>
          /\ \A m \in Members :
               HasHandle(m) /\ TokenOf(m) = lease[s].token =>
                   (RefOf(m) = NoId <=> lease[s].refs = {})
          /\ \A r \in requests :
               Carries(r) /\ r.token = lease[s].token =>
                   (r.ref = NoId <=> lease[s].refs = {})

OnlyJoinersRefer ==
    \A m \in Members : HasHandle(m) /\ RefOf(m) # NoId => m \in Joining

(* The row of m's scope is m's generation, lives until t, and counts m.    *)
Covers(m, token, ref, t) ==
    /\ lease[ScopeOf[m]].token = token
    /\ lease[ScopeOf[m]].holder = HolderOf[m]
    /\ lease[ScopeOf[m]].expiresAt >= t
    /\ lease[ScopeOf[m]].refs # {} => ref \in lease[ScopeOf[m]].refs

(* Every expiry a member was told of, or is about to read, is kept.        *)
Covered ==
    \A m \in Members :
        /\ HasHandle(m) /\ member[m].pc # "releasing" /\ ExpiryOf(m) > now
           => Covers(m, TokenOf(m), RefOf(m), ExpiryOf(m))
        /\ member[m].pc = "renewing" /\ Answered(m, "yes") /\ inbox[m].expiresAt > now
           => Covers(m, member[m].token, member[m].ref, inbox[m].expiresAt)

Handles ==
    /\ HandlesNamed
    /\ HandlesUnique
    /\ ReleasesOwned
    /\ GenerationsApart
    /\ Joinability
    /\ OnlyJoinersRefer

Inv ==
    /\ TypeOK
    /\ RequestsMatch
    /\ Handles
    /\ Covered

-----------------------------------------------------------------------------
(* Type correctness.                                                       *)

LEMMA MaxNat == ASSUME NEW a \in Nat, NEW b \in Nat
                PROVE  /\ Max2(a, b) \in Nat
                       /\ Max2(a, b) >= a
                       /\ Max2(a, b) >= b
BY DEF Max2

(* A fresh identity is one nothing in the state refers to.                 *)
LEMMA FreshIsUnused ==
    ASSUME NEW x \in FreshIds
    PROVE  /\ x \in Ids
           /\ \A s \in Scopes : x # lease[s].token /\ x \notin lease[s].refs
           /\ \A m \in Members : x # member[m].token /\ x # member[m].ref
           /\ \A m \in Members : x # inbox[m].token /\ x # inbox[m].ref
           /\ \A r \in requests : x # r.token /\ x # r.ref
BY DEF FreshIds, UsedIds

LEMMA TypeInit == Init => TypeOK
BY LeaseConstants
   DEF Init, TypeOK, NoLease, StoredLease, Idle, MemberState, NoReply, Reply

LEMMA SendType ==
    ASSUME TypeOK, NEW m \in Members, NEW c \in FreeCalls,
           NEW kind \in {"acquire", "renew", "release"},
           NEW next \in MemberState, Send(m, kind, c, next)
    PROVE  TypeOK'
<1>1. c \in Calls
  BY DEF FreeCalls
<1>2. [kind |-> kind, member |-> m, call |-> c,
       token |-> member[m].token, ref |-> member[m].ref] \in Request
  BY <1>1 DEF TypeOK, Request, MemberState
<1>3. [next EXCEPT !.call = c] \in MemberState
  BY <1>1 DEF MemberState
<1>4. NoReply \in Reply \cup {NoReply}
  OBVIOUS
<1> QED
  BY <1>2, <1>3, <1>4 DEF Send, TypeOK

LEMMA BecomeType ==
    ASSUME TypeOK, NEW m \in Members, NEW next \in MemberState, Become(m, next)
    PROVE  TypeOK'
<1>1. [next EXCEPT !.call = NoCall] \in MemberState
  BY DEF MemberState
<1> QED
  BY <1>1 DEF Become, TypeOK

LEMMA AnswerType ==
    ASSUME TypeOK, NEW r \in requests, NEW reply \in Reply, Answer(r, reply)
    PROVE  /\ requests' \subseteq Request
           /\ inbox' \in [Members -> Reply \cup {NoReply}]
BY DEF Answer, TypeOK, Request

LEMMA TypeServe ==
    ASSUME TypeOK, NEW r \in requests, Object(r)
    PROVE  TypeOK'
<1> DEFINE m == r.member
           s == ScopeOf[m]
<1>0. /\ m \in Members /\ s \in Scopes /\ lease[s] \in StoredLease
      /\ HolderOf[m] \in Holders /\ TtlOf[m] \in Nat /\ now \in Nat
      /\ r.token \in Ids \cup {NoId} /\ r.ref \in Ids \cup {NoId}
  BY LeaseConstants DEF TypeOK, Request
<1>1. CASE ServeJoin(r)
  <2> DEFINE expiry == Max2(lease[s].expiresAt, now + TtlOf[m])
  <2>1. expiry \in Nat
    BY <1>0 DEF StoredLease, Max2
  <2>2. PICK ref \in FreshIds :
            /\ lease' = [lease EXCEPT ![s].expiresAt = expiry,
                                      ![s].refs = lease[s].refs \cup {ref}]
            /\ Answer(r, [acquired |-> "yes", holder |-> lease[s].holder,
                          token |-> lease[s].token, ref |-> ref,
                          expiresAt |-> expiry])
    BY <1>1 DEF ServeJoin
  <2>3. ref \in Ids
    BY FreshIsUnused
  <2>4. [acquired |-> "yes", holder |-> lease[s].holder,
         token |-> lease[s].token, ref |-> ref, expiresAt |-> expiry] \in Reply
    BY <1>0, <2>1, <2>3 DEF Reply, StoredLease
  <2>5. lease' \in [Scopes -> StoredLease]
    BY <1>0, <2>1, <2>2, <2>3 DEF TypeOK, StoredLease
  <2> QED
    BY <1>1, <2>2, <2>4, <2>5, AnswerType DEF ServeJoin, TypeOK
<1>2. CASE ServeBusy(r)
  <2>1. [acquired |-> "no", holder |-> lease[s].holder, token |-> lease[s].token,
         ref |-> NoId, expiresAt |-> lease[s].expiresAt] \in Reply
    BY <1>0 DEF Reply, StoredLease
  <2> QED
    BY <1>2, <2>1, AnswerType DEF ServeBusy, TypeOK
<1>3. CASE ServeGrant(r)
  <2>1. PICK token \in FreshIds :
          \E ref \in IF m \in Joining THEN FreshIds \ {token} ELSE {NoId} :
            /\ lease' = [lease EXCEPT ![s] =
                           [holder |-> HolderOf[m], token |-> token,
                            expiresAt |-> now + TtlOf[m],
                            refs |-> {ref} \ {NoId}]]
            /\ Answer(r, [acquired |-> "yes", holder |-> HolderOf[m],
                          token |-> token, ref |-> ref,
                          expiresAt |-> now + TtlOf[m]])
    BY <1>3 DEF ServeGrant
  <2>2. PICK ref \in IF m \in Joining THEN FreshIds \ {token} ELSE {NoId} :
            /\ lease' = [lease EXCEPT ![s] =
                           [holder |-> HolderOf[m], token |-> token,
                            expiresAt |-> now + TtlOf[m],
                            refs |-> {ref} \ {NoId}]]
            /\ Answer(r, [acquired |-> "yes", holder |-> HolderOf[m],
                          token |-> token, ref |-> ref,
                          expiresAt |-> now + TtlOf[m]])
    BY <2>1
  <2>3. token \in Ids /\ ref \in Ids \cup {NoId}
    BY FreshIsUnused
  <2>4. [acquired |-> "yes", holder |-> HolderOf[m], token |-> token,
         ref |-> ref, expiresAt |-> now + TtlOf[m]] \in Reply
    BY <1>0, <2>3 DEF Reply
  <2>5. [holder |-> HolderOf[m], token |-> token, expiresAt |-> now + TtlOf[m],
         refs |-> {ref} \ {NoId}] \in StoredLease
    BY <1>0, <2>3 DEF StoredLease
  <2> QED
    BY <1>3, <2>2, <2>4, <2>5, AnswerType DEF ServeGrant, TypeOK
<1>4. GetStoredLease(s) \in StoredLease
  BY <1>0 DEF GetStoredLease, NoLease, StoredLease
<1>5. CASE ServeRenew(r)
  <2> DEFINE stored == GetStoredLease(s)
             expiry == Max2(stored.expiresAt, now + TtlOf[m])
             held == SameGeneration(r, stored) /\ MemberOf(r, stored)
  <2>1. expiry \in Nat
    BY <1>0, <1>4 DEF StoredLease, Max2
  <2>2. (IF held THEN [stored EXCEPT !.expiresAt = expiry] ELSE stored) \in StoredLease
    BY <1>4, <2>1 DEF StoredLease
  <2>3. [acquired |-> IF held THEN "yes" ELSE "no", holder |-> HolderOf[r.member],
         token |-> r.token, ref |-> NoId,
         expiresAt |-> IF held THEN expiry ELSE stored.expiresAt] \in Reply
    BY <1>0, <1>4, <2>1 DEF Reply, StoredLease
  <2> QED
    BY <1>5, <2>2, <2>3, AnswerType DEF ServeRenew, TypeOK
<1>6. CASE ServeRelease(r)
  <2> DEFINE stored == GetStoredLease(s)
             held == SameGeneration(r, stored) /\ MemberOf(r, stored)
             remaining == stored.refs \ {r.ref}
             row == IF ~held THEN stored
                    ELSE IF remaining # {} THEN [stored EXCEPT !.refs = remaining]
                    ELSE NoLease
  <2>1. row \in StoredLease
    BY <1>4 DEF StoredLease, NoLease
  <2>2. [acquired |-> IF held THEN "yes" ELSE "no", holder |-> NoId,
         token |-> NoId, ref |-> NoId, expiresAt |-> 0] \in Reply
    BY DEF Reply
  <2> QED
    BY <1>6, <2>1, <2>2, AnswerType DEF ServeRelease, TypeOK
<1>7. CASE Lose(r)
  BY <1>7 DEF Lose, TypeOK
<1> QED
  BY <1>1, <1>2, <1>3, <1>5, <1>6, <1>7 DEF Object

LEMMA TypeClient ==
    ASSUME TypeOK, NEW m \in Members, Client(m)
    PROVE  TypeOK'
<1>0. member[m] \in MemberState /\ inbox[m] \in Reply \cup {NoReply}
  BY DEF TypeOK
<1>i. Idle \in MemberState
  BY LeaseConstants DEF Idle, MemberState
<1>r. RetryLimit \in Nat /\ {0, 1} \subseteq 0 .. RetryLimit + 1
  BY LeaseConstants
<1>1. CASE Acquire(m)
  BY <1>0, <1>1, SendType DEF Acquire, MemberState
<1>2. CASE AcquireGranted(m)
  <2>1. inbox[m] \in Reply
    BY <1>0, <1>2 DEF AcquireGranted, Answered, NoReply
  <2>2. [member[m] EXCEPT !.pc = "held", !.token = inbox[m].token,
            !.ref = inbox[m].ref, !.expiresAt = inbox[m].expiresAt] \in MemberState
    BY <1>0, <2>1 DEF MemberState, Reply
  <2> QED
    BY <1>2, <2>2, BecomeType DEF AcquireGranted
<1>3. CASE AcquireWait(m)
  BY <1>0, <1>3, SendType DEF AcquireWait
<1>4. CASE Renew(m)
  <2> DEFINE next == [member[m] EXCEPT !.pc = "renewing", !.attempts = 1]
  <2>1. next \in MemberState
    BY <1>0, <1>r DEF MemberState
  <2>2. PICK c \in FreeCalls : Send(m, "renew", c, next)
    BY <1>4 DEF Renew
  <2> HIDE DEF next
  <2> QED
    BY <2>1, <2>2, SendType
<1>5. CASE Renewed(m)
  <2> DEFINE next == [member[m] EXCEPT !.pc = "held", !.attempts = 0,
                          !.expiresAt = inbox[m].expiresAt]
  <2>1. inbox[m] \in Reply
    BY <1>0, <1>5 DEF Renewed, Answered, NoReply
  <2>2. next \in MemberState
    BY <1>0, <1>r, <2>1 DEF MemberState, Reply
  <2>3. Become(m, next)
    BY <1>5 DEF Renewed
  <2> HIDE DEF next
  <2> QED
    BY <2>2, <2>3, BecomeType
<1>6. CASE RenewRetry(m)
  <2> DEFINE next == [member[m] EXCEPT !.attempts = @ + 1]
  <2>1. next \in MemberState
    BY <1>0, <1>r, <1>6 DEF MemberState, RenewRetry
  <2>2. PICK c \in FreeCalls : Send(m, "renew", c, next)
    BY <1>6 DEF RenewRetry
  <2> HIDE DEF next
  <2> QED
    BY <2>1, <2>2, SendType
<1>7. CASE RenewFailClosed(m)
  <2> DEFINE next == [member[m] EXCEPT !.pc = "aborted", !.attempts = 0]
  <2>1. next \in MemberState
    BY <1>0, <1>r DEF MemberState
  <2>2. Become(m, next)
    BY <1>7 DEF RenewFailClosed
  <2> HIDE DEF next
  <2> QED
    BY <2>1, <2>2, BecomeType
<1>8. CASE Release(m)
  BY <1>0, <1>8, SendType DEF Release, MemberState
<1>9. CASE AcquireFailed(m) \/ ReleaseReturned(m) \/ Crash(m)
  BY <1>9, <1>i, BecomeType DEF AcquireFailed, ReleaseReturned, Crash
<1> QED
  BY <1>1, <1>2, <1>3, <1>4, <1>5, <1>6, <1>7, <1>8, <1>9 DEF Client

LEMMA TypeStep == TypeOK /\ [Next]_vars => TypeOK'
<1> SUFFICES ASSUME TypeOK, [Next]_vars PROVE TypeOK'
  OBVIOUS
<1>1. ASSUME NEW r \in requests, Object(r) PROVE TypeOK'
  BY <1>1, TypeServe
<1>2. ASSUME NEW m \in Members, Client(m) PROVE TypeOK'
  BY <1>2, TypeClient
<1>3. CASE DeleteExpiredLeases
  <2>1. \A s \in Scopes : GetStoredLease(s) \in StoredLease
    BY DEF TypeOK, GetStoredLease, NoLease, StoredLease
  <2> QED
    BY <1>3, <2>1 DEF DeleteExpiredLeases, TypeOK
<1>4. CASE Tick
  BY <1>4 DEF Tick, TypeOK
<1>5. CASE UNCHANGED vars
  BY <1>5 DEF vars, TypeOK
<1> QED
  BY <1>1, <1>2, <1>3, <1>4, <1>5 DEF Next

(* Every row, request, reply and member record has its type; in particular *)
(* no renewal is attempted more often than the retry limit allows.         *)
THEOREM LeaseTypeCorrect == Spec => []TypeOK
BY TypeInit, TypeStep, PTL DEF Spec

-----------------------------------------------------------------------------
(* The inductive invariant.                                                *)

(* A step that makes no handle, changes none, leaves no release behind and *)
(* starts no generation keeps what is said of handles.                     *)
LEMMA KeepHandles ==
    ASSUME Handles,
           \A n \in Members : HasHandle(n)' =>
               /\ HasHandle(n) /\ TokenOf(n)' = TokenOf(n) /\ RefOf(n)' = RefOf(n)
               /\ member[n].pc = "releasing" => member'[n].pc = "releasing",
           \A r \in requests' :
               \/ r \in requests
               \/ ~Carries(r)
               \/ \E n \in Members :
                    /\ HasHandle(n) /\ r.token = TokenOf(n) /\ r.ref = RefOf(n)
                    /\ r.kind = "release" => member'[n].pc = "releasing",
           \A s \in Scopes :
               \/ lease'[s] = NoLease
               \/ /\ lease'[s].token = lease[s].token
                  /\ lease'[s].refs = {} <=> lease[s].refs = {}
    PROVE  Handles'
<1>1. HandlesNamed'
  BY DEF Handles, HandlesNamed, Carries
<1>2. HandlesUnique'
  BY DEF Handles, HandlesUnique
<1>3. ReleasesOwned'
  BY DEF Handles, ReleasesOwned, HandlesUnique, Carries
<1>4. GenerationsApart'
  BY DEF Handles, GenerationsApart, NoLease
<1>5. Joinability'
  BY DEF Handles, Joinability, Carries, NoLease
<1>6. OnlyJoinersRefer'
  BY DEF Handles, OnlyJoinersRefer
<1> QED
  BY <1>1, <1>2, <1>3, <1>4, <1>5, <1>6 DEF Handles

LEMMA InvInit == Init => Inv
<1> SUFFICES ASSUME Init PROVE Inv
  OBVIOUS
<1>1. TypeOK
  BY TypeInit
<1>2. \A m \in Members : ~HasHandle(m) /\ member[m].pc = "idle"
  BY DEF Init, Idle, HasHandle
<1>3. \A s \in Scopes : lease[s].token = NoId /\ lease[s].refs = {}
  BY DEF Init, NoLease
<1>4. requests = {}
  BY DEF Init
<1> QED
  BY <1>1, <1>2, <1>3, <1>4
     DEF Inv, RequestsMatch, Handles, HandlesNamed, HandlesUnique, ReleasesOwned,
         GenerationsApart, Joinability, OnlyJoinersRefer, Covered

(* Asking for the lease: the member has no handle until it reads a reply.  *)
LEMMA AcquireSendKeeps ==
    ASSUME Inv, TypeOK', NEW m \in Members, NEW c \in FreeCalls, NEW next \in MemberState,
           next.pc = "acquiring", Send(m, "acquire", c, next)
    PROVE  Inv'
<1>0. TypeOK /\ Handles /\ RequestsMatch /\ Covered
  BY DEF Inv
<1>1. /\ member'[m].pc = "acquiring" /\ member'[m].call = c
      /\ inbox'[m] = NoReply
      /\ \A n \in Members \ {m} : member'[n] = member[n] /\ inbox'[n] = inbox[n]
      /\ lease' = lease /\ now' = now
      /\ \A r \in requests' : r \in requests \/ (r.kind = "acquire" /\ r.member = m /\ r.call = c)
  BY <1>0 DEF Send, TypeOK, MemberState
<1>2. ~HasHandle(m)'
  BY <1>1 DEF HasHandle, Answered, NoReply
<1>3. \A n \in Members \ {m} :
        /\ HasHandle(n)' <=> HasHandle(n)
        /\ TokenOf(n)' = TokenOf(n) /\ RefOf(n)' = RefOf(n) /\ ExpiryOf(n)' = ExpiryOf(n)
        /\ Answered(n, "yes")' <=> Answered(n, "yes")
  BY <1>1 DEF HasHandle, Answered, TokenOf, RefOf, ExpiryOf
<1>4. Handles'
  BY <1>0, <1>1, <1>2, <1>3, KeepHandles DEF Carries
<1>5. RequestsMatch'
  BY <1>0, <1>1 DEF RequestsMatch, Carries, FreeCalls, TypeOK, Request
<1>6. Covered'
  BY <1>0, <1>1, <1>2, <1>3 DEF Covered, Covers
<1> QED
  BY <1>4, <1>5, <1>6 DEF Inv

(* Renewing or releasing: the handle travels and stays with the member.    *)
LEMMA CarrySendKeeps ==
    ASSUME Inv, TypeOK', NEW m \in Members, NEW c \in FreeCalls, NEW next \in MemberState,
           NEW kind \in {"renew", "release"}, Send(m, kind, c, next),
           member[m].pc \in {"held", "renewing", "aborted"},
           kind = "renew" => next.pc = "renewing",
           kind = "release" => next.pc = "releasing",
           next.token = member[m].token, next.ref = member[m].ref,
           next.expiresAt = member[m].expiresAt
    PROVE  Inv'
<1>0. TypeOK /\ Handles /\ RequestsMatch /\ Covered
  BY DEF Inv
<1>1. /\ member'[m].pc = next.pc /\ member'[m].call = c
      /\ member'[m].token = member[m].token /\ member'[m].ref = member[m].ref
      /\ member'[m].expiresAt = member[m].expiresAt
      /\ inbox'[m] = NoReply
      /\ \A n \in Members \ {m} : member'[n] = member[n] /\ inbox'[n] = inbox[n]
      /\ lease' = lease /\ now' = now
      /\ \A r \in requests' :
           \/ r \in requests
           \/ /\ r.kind = kind /\ r.member = m /\ r.call = c
              /\ r.token = member[m].token /\ r.ref = member[m].ref
  BY <1>0 DEF Send, TypeOK, MemberState
<1>2. \A n \in Members :
        /\ HasHandle(n)' <=> HasHandle(n)
        /\ TokenOf(n)' = TokenOf(n) /\ RefOf(n)' = RefOf(n) /\ ExpiryOf(n)' = ExpiryOf(n)
  BY <1>1 DEF HasHandle, Answered, TokenOf, RefOf, ExpiryOf
<1>3. HasHandle(m) /\ TokenOf(m) = member[m].token /\ RefOf(m) = member[m].ref
  BY DEF HasHandle, TokenOf, RefOf
<1>4. Handles'
  BY <1>0, <1>1, <1>2, <1>3, KeepHandles
<1>5. RequestsMatch'
  BY <1>0, <1>1 DEF RequestsMatch, Carries, FreeCalls, TypeOK, Request
<1>6. /\ ~Answered(m, "yes")' /\ member[m].pc # "releasing"
      /\ \A n \in Members \ {m} : Answered(n, "yes")' <=> Answered(n, "yes")
  BY <1>1 DEF Answered, NoReply
<1>7. Covered'
  BY <1>0, <1>1, <1>2, <1>6 DEF Covered, Covers
<1> QED
  BY <1>4, <1>5, <1>7 DEF Inv

(* Forgetting the handle: an error, the end of the work, or a crash.       *)
LEMMA BecomeIdleKeeps ==
    ASSUME Inv, TypeOK', NEW m \in Members, Become(m, Idle)
    PROVE  Inv'
<1>0. TypeOK /\ Handles /\ RequestsMatch /\ Covered
  BY DEF Inv
<1>1. /\ member'[m].pc = "idle" /\ member'[m].call = NoCall
      /\ inbox'[m] = NoReply
      /\ \A n \in Members \ {m} : member'[n] = member[n] /\ inbox'[n] = inbox[n]
      /\ lease' = lease /\ now' = now /\ requests' = requests
  BY <1>0 DEF Become, Idle, TypeOK
<1>2. ~HasHandle(m)'
  BY <1>1 DEF HasHandle
<1>3. \A n \in Members \ {m} :
        /\ HasHandle(n)' <=> HasHandle(n)
        /\ TokenOf(n)' = TokenOf(n) /\ RefOf(n)' = RefOf(n) /\ ExpiryOf(n)' = ExpiryOf(n)
        /\ Answered(n, "yes")' <=> Answered(n, "yes")
  BY <1>1 DEF HasHandle, Answered, TokenOf, RefOf, ExpiryOf
<1>4. Handles'
  BY <1>0, <1>1, <1>2, <1>3, KeepHandles
<1>5. RequestsMatch'
  BY <1>0, <1>1, LeaseConstants DEF RequestsMatch, Carries, TypeOK, Request
<1>6. Covered'
  BY <1>0, <1>1, <1>2, <1>3 DEF Covered, Covers
<1> QED
  BY <1>4, <1>5, <1>6 DEF Inv

(* Reading a reply, or giving the renewal up, with the handle kept and an  *)
(* expiry that the stored row covers.                                      *)
LEMMA BecomeHolderKeeps ==
    ASSUME Inv, TypeOK', NEW m \in Members, NEW next \in MemberState, Become(m, next),
           HasHandle(m), member[m].pc # "releasing",
           next.pc \in {"held", "aborted"},
           next.token = TokenOf(m), next.ref = RefOf(m),
           \/ next.expiresAt = ExpiryOf(m)
           \/ /\ member[m].pc = "renewing" /\ Answered(m, "yes")
              /\ next.expiresAt = inbox[m].expiresAt
    PROVE  Inv'
<1>0. TypeOK /\ Handles /\ RequestsMatch /\ Covered
  BY DEF Inv
<1>1. /\ member'[m].pc = next.pc /\ member'[m].call = NoCall
      /\ member'[m].token = next.token /\ member'[m].ref = next.ref
      /\ member'[m].expiresAt = next.expiresAt
      /\ \A n \in Members \ {m} : member'[n] = member[n] /\ inbox'[n] = inbox[n]
      /\ lease' = lease /\ now' = now /\ requests' = requests
  BY <1>0 DEF Become, TypeOK, MemberState
<1>2. /\ HasHandle(m)' /\ TokenOf(m)' = TokenOf(m) /\ RefOf(m)' = RefOf(m)
      /\ ExpiryOf(m)' = next.expiresAt
  BY <1>1 DEF HasHandle, TokenOf, RefOf, ExpiryOf
<1>3. \A n \in Members \ {m} :
        /\ HasHandle(n)' <=> HasHandle(n)
        /\ TokenOf(n)' = TokenOf(n) /\ RefOf(n)' = RefOf(n) /\ ExpiryOf(n)' = ExpiryOf(n)
        /\ Answered(n, "yes")' <=> Answered(n, "yes")
  BY <1>1 DEF HasHandle, Answered, TokenOf, RefOf, ExpiryOf
<1>4. Handles'
  BY <1>0, <1>1, <1>2, <1>3, KeepHandles
<1>5. RequestsMatch'
  BY <1>0, <1>1, LeaseConstants DEF RequestsMatch, Carries, TypeOK, Request
<1>6. member[m].pc = "renewing" => TokenOf(m) = member[m].token /\ RefOf(m) = member[m].ref
  BY DEF TokenOf, RefOf
<1>7. Covered'
  BY <1>0, <1>1, <1>2, <1>3, <1>6 DEF Covered, Covers
<1> QED
  BY <1>4, <1>5, <1>7 DEF Inv

LEMMA InvClient ==
    ASSUME Inv, TypeOK', NEW m \in Members, Client(m)
    PROVE  Inv'
<1>0. member[m] \in MemberState /\ inbox[m] \in Reply \cup {NoReply} /\ TypeOK
  BY DEF Inv, TypeOK
<1>r. RetryLimit \in Nat /\ {0, 1} \subseteq 0 .. RetryLimit + 1
  BY LeaseConstants
<1>1. CASE Acquire(m)
  <2> DEFINE next == [member[m] EXCEPT !.pc = "acquiring"]
  <2>1. next \in MemberState /\ next.pc = "acquiring"
    BY <1>0 DEF MemberState
  <2>2. PICK c \in FreeCalls : Send(m, "acquire", c, next)
    BY <1>1 DEF Acquire
  <2> HIDE DEF next
  <2> QED
    BY <2>1, <2>2, AcquireSendKeeps
<1>2. CASE AcquireWait(m)
  BY <1>0, <1>2, AcquireSendKeeps DEF AcquireWait
<1>3. CASE AcquireGranted(m)
  <2> DEFINE next == [member[m] EXCEPT !.pc = "held", !.token = inbox[m].token,
                         !.ref = inbox[m].ref, !.expiresAt = inbox[m].expiresAt]
  <2>1. inbox[m] \in Reply
    BY <1>0, <1>3 DEF AcquireGranted, Answered, NoReply
  <2>2. /\ next \in MemberState /\ next.pc = "held"
        /\ next.token = inbox[m].token /\ next.ref = inbox[m].ref
        /\ next.expiresAt = inbox[m].expiresAt
    BY <1>0, <2>1 DEF MemberState, Reply
  <2>3. Become(m, next)
    BY <1>3 DEF AcquireGranted
  <2>4. /\ HasHandle(m) /\ member[m].pc # "releasing"
        /\ TokenOf(m) = inbox[m].token /\ RefOf(m) = inbox[m].ref
        /\ ExpiryOf(m) = inbox[m].expiresAt
    BY <1>3 DEF AcquireGranted, HasHandle, TokenOf, RefOf, ExpiryOf
  <2> HIDE DEF next
  <2> QED
    BY <2>2, <2>3, <2>4, BecomeHolderKeeps
<1>4. CASE Renew(m)
  <2> DEFINE next == [member[m] EXCEPT !.pc = "renewing", !.attempts = 1]
  <2>1. /\ next \in MemberState /\ next.pc = "renewing"
        /\ next.token = member[m].token /\ next.ref = member[m].ref
        /\ next.expiresAt = member[m].expiresAt
    BY <1>0, <1>r DEF MemberState
  <2>2. PICK c \in FreeCalls : Send(m, "renew", c, next)
    BY <1>4 DEF Renew
  <2>3. member[m].pc = "held"
    BY <1>4 DEF Renew
  <2> HIDE DEF next
  <2> QED
    BY <2>1, <2>2, <2>3, CarrySendKeeps
<1>5. CASE RenewRetry(m)
  <2> DEFINE next == [member[m] EXCEPT !.attempts = @ + 1]
  <2>1. /\ next \in MemberState /\ next.pc = member[m].pc
        /\ next.token = member[m].token /\ next.ref = member[m].ref
        /\ next.expiresAt = member[m].expiresAt
    BY <1>0, <1>r, <1>5 DEF MemberState, RenewRetry
  <2>2. PICK c \in FreeCalls : Send(m, "renew", c, next)
    BY <1>5 DEF RenewRetry
  <2>3. member[m].pc = "renewing"
    BY <1>5 DEF RenewRetry
  <2> HIDE DEF next
  <2> QED
    BY <2>1, <2>2, <2>3, CarrySendKeeps
<1>6. CASE Release(m)
  <2> DEFINE next == [member[m] EXCEPT !.pc = "releasing"]
  <2>1. /\ next \in MemberState /\ next.pc = "releasing"
        /\ next.token = member[m].token /\ next.ref = member[m].ref
        /\ next.expiresAt = member[m].expiresAt
    BY <1>0 DEF MemberState
  <2>2. PICK c \in FreeCalls : Send(m, "release", c, next)
    BY <1>6 DEF Release
  <2>3. member[m].pc \in {"held", "aborted"}
    BY <1>6 DEF Release
  <2> HIDE DEF next
  <2> QED
    BY <2>1, <2>2, <2>3, CarrySendKeeps
<1>7. CASE Renewed(m)
  <2> DEFINE next == [member[m] EXCEPT !.pc = "held", !.attempts = 0,
                          !.expiresAt = inbox[m].expiresAt]
  <2>1. inbox[m] \in Reply
    BY <1>0, <1>7 DEF Renewed, Answered, NoReply
  <2>2. /\ next \in MemberState /\ next.pc = "held"
        /\ next.token = member[m].token /\ next.ref = member[m].ref
        /\ next.expiresAt = inbox[m].expiresAt
    BY <1>0, <1>r, <2>1 DEF MemberState, Reply
  <2>3. Become(m, next) /\ member[m].pc = "renewing" /\ Answered(m, "yes")
    BY <1>7 DEF Renewed
  <2>4. HasHandle(m) /\ TokenOf(m) = member[m].token /\ RefOf(m) = member[m].ref
    BY <2>3 DEF HasHandle, TokenOf, RefOf
  <2> HIDE DEF next
  <2> QED
    BY <2>2, <2>3, <2>4, BecomeHolderKeeps
<1>8. CASE RenewFailClosed(m)
  <2> DEFINE next == [member[m] EXCEPT !.pc = "aborted", !.attempts = 0]
  <2>1. /\ next \in MemberState /\ next.pc = "aborted"
        /\ next.token = member[m].token /\ next.ref = member[m].ref
        /\ next.expiresAt = member[m].expiresAt
    BY <1>0, <1>r DEF MemberState
  <2>2. Become(m, next) /\ member[m].pc = "renewing"
    BY <1>8 DEF RenewFailClosed
  <2>3. /\ HasHandle(m) /\ TokenOf(m) = member[m].token /\ RefOf(m) = member[m].ref
        /\ ExpiryOf(m) = member[m].expiresAt
    BY <2>2 DEF HasHandle, TokenOf, RefOf, ExpiryOf
  <2> HIDE DEF next
  <2> QED
    BY <2>1, <2>2, <2>3, BecomeHolderKeeps
<1>9. CASE AcquireFailed(m) \/ ReleaseReturned(m) \/ Crash(m)
  BY <1>9, BecomeIdleKeeps DEF AcquireFailed, ReleaseReturned, Crash
<1> QED
  BY <1>1, <1>2, <1>3, <1>4, <1>5, <1>6, <1>7, <1>8, <1>9 DEF Client

(* An answer that grants nothing changes no handle.                        *)
LEMMA AnswerKeeps ==
    ASSUME Inv, TypeOK', NEW r \in requests, NEW reply, Answer(r, reply),
           member' = member, r.kind = "acquire" => reply.acquired # "yes"
    PROVE  /\ RequestsMatch'
           /\ \A n \in Members : HasHandle(n)' =>
                /\ HasHandle(n) /\ TokenOf(n)' = TokenOf(n)
                /\ RefOf(n)' = RefOf(n) /\ ExpiryOf(n)' = ExpiryOf(n)
           /\ \A n \in Members :
                \/ inbox'[n] = inbox[n]
                \/ /\ n = r.member /\ inbox'[n] = reply /\ r.call = member[n].call
<1>0. TypeOK /\ RequestsMatch /\ r.member \in Members /\ r \in Request
  BY DEF Inv, TypeOK, Request
<1>1. RequestsMatch'
  BY <1>0 DEF RequestsMatch, Answer
<1>2. \A n \in Members :
        \/ inbox'[n] = inbox[n]
        \/ /\ n = r.member /\ inbox'[n] = reply /\ r.call = member[n].call
  BY <1>0 DEF Answer, TypeOK
<1>3. ASSUME NEW n \in Members, HasHandle(n)'
      PROVE  /\ HasHandle(n) /\ TokenOf(n)' = TokenOf(n)
             /\ RefOf(n)' = RefOf(n) /\ ExpiryOf(n)' = ExpiryOf(n)
  <2>1. CASE inbox'[n] = inbox[n]
    BY <1>3, <2>1 DEF HasHandle, Answered, TokenOf, RefOf, ExpiryOf
  <2>2. CASE n = r.member /\ inbox'[n] = reply /\ r.call = member[n].call
    <3>1. r.kind = "acquire" \/ member[n].pc \in {"renewing", "releasing"}
      BY <1>0, <2>2 DEF RequestsMatch, Request
    <3>2. r.kind = "acquire" => member[n].pc = "acquiring"
      BY <1>0, <2>2 DEF RequestsMatch
    <3>3. member[n].pc # "acquiring"
      BY <1>3, <2>2, <3>1, <3>2 DEF HasHandle, Answered
    <3> QED
      BY <1>3, <3>3 DEF HasHandle, TokenOf, RefOf, ExpiryOf
  <2> QED
    BY <1>2, <2>1, <2>2
<1> QED
  BY <1>1, <1>2, <1>3

LEMMA InvBusy ==
    ASSUME Inv, TypeOK', NEW r \in requests, ServeBusy(r)
    PROVE  Inv'
<1> DEFINE reply == [acquired |-> "no", holder |-> lease[ScopeOf[r.member]].holder,
                     token |-> lease[ScopeOf[r.member]].token, ref |-> NoId,
                     expiresAt |-> lease[ScopeOf[r.member]].expiresAt]
<1>0. TypeOK /\ Handles /\ RequestsMatch /\ Covered
  BY DEF Inv
<1>1. /\ Answer(r, reply) /\ r.kind = "acquire" /\ reply.acquired = "no"
      /\ lease' = lease /\ now' = now /\ member' = member
  BY DEF ServeBusy
<1> HIDE DEF reply
<1>2. /\ RequestsMatch'
      /\ \A n \in Members : HasHandle(n)' =>
           /\ HasHandle(n) /\ TokenOf(n)' = TokenOf(n)
           /\ RefOf(n)' = RefOf(n) /\ ExpiryOf(n)' = ExpiryOf(n)
      /\ \A n \in Members : inbox'[n] = inbox[n] \/ inbox'[n] = reply
  BY <1>1, AnswerKeeps
<1>3. requests' \subseteq requests
  BY <1>1 DEF Answer
<1>4. Handles'
  BY <1>0, <1>1, <1>2, <1>3, KeepHandles
<1>5. Covered'
  BY <1>0, <1>1, <1>2 DEF Covered, Covers, Answered
<1> QED
  BY <1>2, <1>4, <1>5 DEF Inv

LEMMA InvRenew ==
    ASSUME Inv, TypeOK', NEW r \in requests, ServeRenew(r)
    PROVE  Inv'
<1> DEFINE m == r.member
           s == ScopeOf[m]
           stored == GetStoredLease(s)
           expiry == Max2(stored.expiresAt, now + TtlOf[m])
           held == SameGeneration(r, stored) /\ MemberOf(r, stored)
           row == IF held THEN [stored EXCEPT !.expiresAt = expiry] ELSE stored
           reply == [acquired |-> IF held THEN "yes" ELSE "no",
                     holder |-> HolderOf[r.member], token |-> r.token,
                     ref |-> NoId,
                     expiresAt |-> IF held THEN expiry ELSE stored.expiresAt]
<1>0. /\ TypeOK /\ Handles /\ RequestsMatch /\ Covered
      /\ m \in Members /\ s \in Scopes /\ lease[s] \in StoredLease
      /\ now \in Nat /\ TtlOf[m] \in Nat
  BY LeaseConstants DEF Inv, TypeOK, Request
<1>1. /\ Answer(r, reply) /\ r.kind = "renew"
      /\ lease' = [lease EXCEPT ![s] = row]
      /\ now' = now /\ member' = member
  BY DEF ServeRenew
<1>2. stored \in StoredLease /\ (stored.token # NoId => stored = lease[s] /\ Live(s))
  BY <1>0 DEF GetStoredLease, NoLease, StoredLease
<1>3. /\ expiry \in Nat /\ expiry >= stored.expiresAt
  BY <1>0, <1>2 DEF Max2, StoredLease
<1>4. /\ row.token = stored.token /\ row.holder = stored.holder /\ row.refs = stored.refs
      /\ row.expiresAt >= stored.expiresAt
      /\ held => row.expiresAt = expiry
  BY <1>2, <1>3 DEF StoredLease
<1>5. Live(s) => stored = lease[s]
  BY DEF GetStoredLease
<1>6. held => /\ stored.token = r.token /\ stored.holder = HolderOf[m] /\ r.token # NoId
              /\ stored.refs # {} => r.ref \in stored.refs
  BY DEF SameGeneration, MemberOf
<1>e. \/ row = NoLease
      \/ row.token = lease[s].token /\ row.refs = lease[s].refs
  <2>1. CASE Live(s)
    BY <1>4, <1>5, <2>1
  <2>2. CASE ~Live(s)
    BY <2>2 DEF GetStoredLease, SameGeneration, NoLease
  <2> QED
    BY <2>1, <2>2
<1>7. reply.acquired = "yes" => held /\ reply.expiresAt = expiry
  OBVIOUS
<1>8. /\ lease'[s] = row
      /\ \A t \in Scopes : t # s => lease'[t] = lease[t]
  BY <1>0, <1>1 DEF TypeOK
<1> HIDE DEF stored, expiry, held, row, reply
<1>9. /\ RequestsMatch'
      /\ \A n \in Members : HasHandle(n)' =>
           /\ HasHandle(n) /\ TokenOf(n)' = TokenOf(n)
           /\ RefOf(n)' = RefOf(n) /\ ExpiryOf(n)' = ExpiryOf(n)
      /\ \A n \in Members :
           \/ inbox'[n] = inbox[n]
           \/ /\ n = r.member /\ inbox'[n] = reply /\ r.call = member[n].call
  BY <1>1, AnswerKeeps
<1>10. requests' \subseteq requests
  BY <1>1 DEF Answer
<1>11. Handles'
  BY <1>0, <1>1, <1>e, <1>8, <1>9, <1>10, KeepHandles
<1>12. ASSUME NEW n \in Members, NEW token, NEW ref, NEW t \in Nat,
              t > now, Covers(n, token, ref, t)
       PROVE  /\ lease'[ScopeOf[n]].token = token
              /\ lease'[ScopeOf[n]].holder = HolderOf[n]
              /\ lease'[ScopeOf[n]].expiresAt >= t
              /\ lease'[ScopeOf[n]].refs # {} => ref \in lease'[ScopeOf[n]].refs
  <2>1. ScopeOf[n] \in Scopes /\ lease[ScopeOf[n]].expiresAt \in Nat /\ row.expiresAt \in Nat
    BY <1>0, <1>2, <1>3, <1>4, LeaseConstants DEF TypeOK, StoredLease, row
  <2>2. Live(ScopeOf[n])
    BY <1>0, <1>12, <2>1 DEF Covers, Live
  <2>3. stored.expiresAt \in Nat
    BY <1>2 DEF StoredLease
  <2> QED
    BY <1>4, <1>5, <1>8, <1>12, <2>1, <2>2, <2>3 DEF Covers
<1>13. ASSUME NEW n \in Members
       PROVE  /\ (HasHandle(n) /\ member[n].pc # "releasing" /\ ExpiryOf(n) > now
                 => Covers(n, TokenOf(n), RefOf(n), ExpiryOf(n)))'
              /\ (member[n].pc = "renewing" /\ Answered(n, "yes") /\ inbox[n].expiresAt > now
                 => Covers(n, member[n].token, member[n].ref, inbox[n].expiresAt))'
  <2>1. ExpiryOf(n) \in Nat /\ inbox[n].expiresAt \in Nat
    BY <1>0 DEF ExpiryOf, TypeOK, MemberState, Reply, NoReply
  <2>2. (HasHandle(n) /\ member[n].pc # "releasing" /\ ExpiryOf(n) > now
                 => Covers(n, TokenOf(n), RefOf(n), ExpiryOf(n)))'
    <3> SUFFICES ASSUME HasHandle(n)', member[n].pc # "releasing", ExpiryOf(n)' > now
                 PROVE  Covers(n, TokenOf(n), RefOf(n), ExpiryOf(n))'
      BY <1>1
    <3>1. /\ HasHandle(n) /\ TokenOf(n)' = TokenOf(n)
          /\ RefOf(n)' = RefOf(n) /\ ExpiryOf(n)' = ExpiryOf(n)
      BY <1>9
    <3>2. Covers(n, TokenOf(n), RefOf(n), ExpiryOf(n))
      BY <1>0, <3>1 DEF Covered
    <3>3. /\ lease'[ScopeOf[n]].token = TokenOf(n)
          /\ lease'[ScopeOf[n]].holder = HolderOf[n]
          /\ lease'[ScopeOf[n]].expiresAt >= ExpiryOf(n)
          /\ lease'[ScopeOf[n]].refs # {} => RefOf(n) \in lease'[ScopeOf[n]].refs
      BY <1>12, <2>1, <3>1, <3>2
    <3> QED
      BY <3>1, <3>3 DEF Covers
  <2>3. CASE inbox'[n] = inbox[n]
    BY <1>0, <1>1, <1>12, <2>1, <2>2, <2>3 DEF Covered, Covers, Answered
  <2>4. CASE n = r.member /\ inbox'[n] = reply /\ r.call = member[n].call
    <3>1. member[n].token = r.token /\ member[n].ref = r.ref
      BY <1>0, <1>1, <2>4 DEF RequestsMatch, Carries
    <3>2. Answered(n, "yes")' => held /\ inbox'[n].expiresAt = expiry
      BY <1>7, <2>4 DEF Answered
    <3> QED
      BY <1>1, <1>3, <1>4, <1>6, <1>8, <2>2, <2>4, <3>1, <3>2 DEF Covers
  <2> QED
    BY <1>9, <2>3, <2>4
<1>14. Covered'
  BY <1>13 DEF Covered
<1> QED
  BY <1>9, <1>11, <1>14 DEF Inv

LEMMA InvRelease ==
    ASSUME Inv, TypeOK', NEW r \in requests, ServeRelease(r)
    PROVE  Inv'
<1> DEFINE m == r.member
           s == ScopeOf[m]
           stored == GetStoredLease(s)
           held == SameGeneration(r, stored) /\ MemberOf(r, stored)
           remaining == stored.refs \ {r.ref}
           row == IF ~held THEN stored
                  ELSE IF remaining # {} THEN [stored EXCEPT !.refs = remaining]
                  ELSE NoLease
           reply == [acquired |-> IF held THEN "yes" ELSE "no",
                     holder |-> NoId, token |-> NoId, ref |-> NoId,
                     expiresAt |-> 0]
<1>0. /\ TypeOK /\ Handles /\ RequestsMatch /\ Covered
      /\ m \in Members /\ s \in Scopes /\ lease[s] \in StoredLease /\ now \in Nat
  BY LeaseConstants DEF Inv, TypeOK, Request
<1>1. /\ Answer(r, reply) /\ r.kind = "release"
      /\ lease' = [lease EXCEPT ![s] = row]
      /\ now' = now /\ member' = member
  BY DEF ServeRelease
<1>2. \/ row = NoLease
      \/ /\ row.token = lease[s].token
         /\ row.refs = {} <=> lease[s].refs = {}
  <2>1. CASE Live(s)
    BY <1>0, <2>1 DEF GetStoredLease, StoredLease
  <2>2. CASE ~Live(s)
    BY <2>2 DEF GetStoredLease, SameGeneration, NoLease
  <2> QED
    BY <2>1, <2>2
<1>3. /\ lease'[s] = row
      /\ \A t \in Scopes : t # s => lease'[t] = lease[t]
  BY <1>0, <1>1 DEF TypeOK
<1>4. /\ RequestsMatch'
      /\ \A n \in Members : HasHandle(n)' =>
           /\ HasHandle(n) /\ TokenOf(n)' = TokenOf(n)
           /\ RefOf(n)' = RefOf(n) /\ ExpiryOf(n)' = ExpiryOf(n)
      /\ \A n \in Members :
           \/ inbox'[n] = inbox[n]
           \/ /\ n = r.member /\ inbox'[n] = reply /\ r.call = member[n].call
  <2> HIDE DEF reply
  <2> QED
    BY <1>1, AnswerKeeps
<1>5. requests' \subseteq requests
  BY <1>1 DEF Answer
<1>6. Handles'
  <2> HIDE DEF row
  <2> QED
    BY <1>0, <1>1, <1>2, <1>3, <1>4, <1>5, KeepHandles
<1>7. ASSUME NEW n \in Members, NEW t \in Nat, t > now, HasHandle(n),
             member[n].pc # "releasing", Covers(n, TokenOf(n), RefOf(n), t)
      PROVE  /\ lease'[ScopeOf[n]].token = TokenOf(n)
             /\ lease'[ScopeOf[n]].holder = HolderOf[n]
             /\ lease'[ScopeOf[n]].expiresAt >= t
             /\ lease'[ScopeOf[n]].refs # {} => RefOf(n) \in lease'[ScopeOf[n]].refs
  <2>0. ScopeOf[n] \in Scopes
    BY LeaseConstants
  <2>1. CASE ScopeOf[n] # s
    BY <1>3, <1>7, <2>0, <2>1 DEF Covers
  <2>2. CASE ScopeOf[n] = s
    <3>1. Live(s)
      BY <1>0, <1>7, <2>2 DEF Covers, Live, StoredLease
    <3>2. stored = lease[s]
      BY <3>1 DEF GetStoredLease
    <3>3. CASE ~held
      BY <1>3, <1>7, <2>2, <3>2, <3>3 DEF Covers
    <3>4. CASE held
      <4>1. /\ lease[s].token # NoId /\ lease[s].token = r.token
            /\ lease[s].token = TokenOf(n)
            /\ lease[s].refs # {} => r.ref \in lease[s].refs /\ RefOf(n) \in lease[s].refs
        BY <1>7, <2>2, <3>2, <3>4 DEF SameGeneration, MemberOf, Covers
      <4>2. RefOf(n) # r.ref
        BY <1>0, <1>1, <1>7, <4>1 DEF Handles, ReleasesOwned
      <4>3. (RefOf(n) = NoId <=> lease[s].refs = {}) /\ (r.ref = NoId <=> lease[s].refs = {})
        BY <1>0, <1>1, <1>7, <4>1 DEF Handles, Joinability, Carries
      <4>4. RefOf(n) \in remaining
        BY <3>2, <4>1, <4>2, <4>3
      <4>5. row = [lease[s] EXCEPT !.refs = remaining]
        BY <3>2, <3>4, <4>4
      <4>6. /\ row.token = lease[s].token /\ row.holder = lease[s].holder
            /\ row.expiresAt = lease[s].expiresAt /\ row.refs = remaining
        BY <1>0, <4>5 DEF StoredLease
      <4> QED
        BY <1>3, <1>7, <2>2, <4>4, <4>6 DEF Covers
    <3> QED
      BY <3>3, <3>4
  <2> QED
    BY <2>1, <2>2
<1>8. ASSUME NEW n \in Members
      PROVE  /\ (HasHandle(n) /\ member[n].pc # "releasing" /\ ExpiryOf(n) > now
                => Covers(n, TokenOf(n), RefOf(n), ExpiryOf(n)))'
             /\ (member[n].pc = "renewing" /\ Answered(n, "yes") /\ inbox[n].expiresAt > now
                => Covers(n, member[n].token, member[n].ref, inbox[n].expiresAt))'
  <2> HIDE DEF row, reply
  <2>1. ExpiryOf(n) \in Nat /\ inbox[n].expiresAt \in Nat
    BY <1>0 DEF ExpiryOf, TypeOK, MemberState, Reply, NoReply
  <2>2. (HasHandle(n) /\ member[n].pc # "releasing" /\ ExpiryOf(n) > now
                => Covers(n, TokenOf(n), RefOf(n), ExpiryOf(n)))'
    <3> SUFFICES ASSUME HasHandle(n)', member[n].pc # "releasing", ExpiryOf(n)' > now
                 PROVE  Covers(n, TokenOf(n), RefOf(n), ExpiryOf(n))'
      BY <1>1
    <3>1. /\ HasHandle(n) /\ TokenOf(n)' = TokenOf(n)
          /\ RefOf(n)' = RefOf(n) /\ ExpiryOf(n)' = ExpiryOf(n)
      BY <1>4
    <3>2. Covers(n, TokenOf(n), RefOf(n), ExpiryOf(n))
      BY <1>0, <3>1 DEF Covered
    <3> QED
      BY <1>7, <2>1, <3>1, <3>2 DEF Covers
  <2>3. (member[n].pc = "renewing" /\ Answered(n, "yes") /\ inbox[n].expiresAt > now
                => Covers(n, member[n].token, member[n].ref, inbox[n].expiresAt))'
    <3> SUFFICES ASSUME member[n].pc = "renewing", Answered(n, "yes")',
                        inbox'[n].expiresAt > now
                 PROVE  Covers(n, member[n].token, member[n].ref, inbox[n].expiresAt)'
      BY <1>1
    <3>1. inbox'[n] = inbox[n]
      BY <1>0, <1>1, <1>4 DEF RequestsMatch
    <3>2. HasHandle(n) /\ TokenOf(n) = member[n].token /\ RefOf(n) = member[n].ref
      BY DEF HasHandle, TokenOf, RefOf
    <3>3. Covers(n, TokenOf(n), RefOf(n), inbox[n].expiresAt)
      BY <1>0, <3>1, <3>2 DEF Covered, Answered
    <3> QED
      BY <1>1, <1>7, <2>1, <3>1, <3>2, <3>3 DEF Covers
  <2> QED
    BY <2>2, <2>3
<1>9. Covered'
  BY <1>8 DEF Covered
<1> QED
  BY <1>4, <1>6, <1>9 DEF Inv

(* A granted acquire gives one member one handle, and only if it waits.    *)
LEMMA AnswerGrants ==
    ASSUME Inv, NEW r \in requests, NEW reply, Answer(r, reply),
           member' = member, r.kind = "acquire"
    PROVE  /\ RequestsMatch'
           /\ \A n \in Members : HasHandle(n)' =>
                \/ /\ HasHandle(n) /\ TokenOf(n)' = TokenOf(n)
                   /\ RefOf(n)' = RefOf(n) /\ ExpiryOf(n)' = ExpiryOf(n)
                \/ /\ n = r.member /\ TokenOf(n)' = reply.token
                   /\ RefOf(n)' = reply.ref /\ ExpiryOf(n)' = reply.expiresAt
           /\ \A n \in Members : member[n].pc = "renewing" => inbox'[n] = inbox[n]
<1>0. TypeOK /\ RequestsMatch /\ r.member \in Members /\ r \in Request
  BY DEF Inv, TypeOK, Request
<1>1. RequestsMatch'
  BY <1>0 DEF RequestsMatch, Answer
<1>2. \A n \in Members :
        \/ inbox'[n] = inbox[n]
        \/ n = r.member /\ inbox'[n] = reply /\ member[n].pc = "acquiring"
  BY <1>0 DEF Answer, TypeOK, RequestsMatch
<1>3. ASSUME NEW n \in Members, HasHandle(n)'
      PROVE  \/ /\ HasHandle(n) /\ TokenOf(n)' = TokenOf(n)
                /\ RefOf(n)' = RefOf(n) /\ ExpiryOf(n)' = ExpiryOf(n)
             \/ /\ n = r.member /\ TokenOf(n)' = reply.token
                /\ RefOf(n)' = reply.ref /\ ExpiryOf(n)' = reply.expiresAt
  <2>1. CASE inbox'[n] = inbox[n]
    BY <1>3, <2>1 DEF HasHandle, Answered, TokenOf, RefOf, ExpiryOf
  <2>2. CASE n = r.member /\ inbox'[n] = reply /\ member[n].pc = "acquiring"
    BY <2>2 DEF TokenOf, RefOf, ExpiryOf
  <2> QED
    BY <1>2, <2>1, <2>2
<1> QED
  BY <1>1, <1>2, <1>3

(* Rows that keep their promises, and one that keeps the new one.          *)
LEMMA GainCovered ==
    ASSUME Covered, TypeOK, NEW m \in Members, NEW token, NEW ref, NEW expiry,
           \A n \in Members : HasHandle(n)' =>
               \/ /\ HasHandle(n) /\ TokenOf(n)' = TokenOf(n)
                  /\ RefOf(n)' = RefOf(n) /\ ExpiryOf(n)' = ExpiryOf(n)
               \/ /\ n = m /\ TokenOf(n)' = token
                  /\ RefOf(n)' = ref /\ ExpiryOf(n)' = expiry,
           \A n \in Members : member[n].pc = "renewing" => inbox'[n] = inbox[n],
           member' = member, now' = now,
           \A n \in Members : \A id, rf : \A t \in Nat :
               t > now /\ Covers(n, id, rf, t) =>
                   /\ lease'[ScopeOf[n]].token = id
                   /\ lease'[ScopeOf[n]].holder = HolderOf[n]
                   /\ lease'[ScopeOf[n]].expiresAt >= t
                   /\ lease'[ScopeOf[n]].refs # {} => rf \in lease'[ScopeOf[n]].refs,
           lease'[ScopeOf[m]].token = token, lease'[ScopeOf[m]].holder = HolderOf[m],
           lease'[ScopeOf[m]].expiresAt >= expiry,
           lease'[ScopeOf[m]].refs # {} => ref \in lease'[ScopeOf[m]].refs
    PROVE  Covered'
<1>1. ASSUME NEW n \in Members
      PROVE  /\ (HasHandle(n) /\ member[n].pc # "releasing" /\ ExpiryOf(n) > now
                => Covers(n, TokenOf(n), RefOf(n), ExpiryOf(n)))'
             /\ (member[n].pc = "renewing" /\ Answered(n, "yes") /\ inbox[n].expiresAt > now
                => Covers(n, member[n].token, member[n].ref, inbox[n].expiresAt))'
  <2>1. ExpiryOf(n) \in Nat /\ inbox[n].expiresAt \in Nat
    BY DEF ExpiryOf, TypeOK, MemberState, Reply, NoReply
  <2>2. (HasHandle(n) /\ member[n].pc # "releasing" /\ ExpiryOf(n) > now
                => Covers(n, TokenOf(n), RefOf(n), ExpiryOf(n)))'
    <3> SUFFICES ASSUME HasHandle(n)', member[n].pc # "releasing", ExpiryOf(n)' > now
                 PROVE  Covers(n, TokenOf(n), RefOf(n), ExpiryOf(n))'
      OBVIOUS
    <3>1. CASE /\ HasHandle(n) /\ TokenOf(n)' = TokenOf(n)
               /\ RefOf(n)' = RefOf(n) /\ ExpiryOf(n)' = ExpiryOf(n)
      <4>1. Covers(n, TokenOf(n), RefOf(n), ExpiryOf(n))
        BY <3>1 DEF Covered
      <4> QED
        BY <2>1, <3>1, <4>1 DEF Covers
    <3>2. CASE /\ n = m /\ TokenOf(n)' = token
               /\ RefOf(n)' = ref /\ ExpiryOf(n)' = expiry
      BY <3>2 DEF Covers
    <3> QED
      BY <3>1, <3>2
  <2>3. (member[n].pc = "renewing" /\ Answered(n, "yes") /\ inbox[n].expiresAt > now
                => Covers(n, member[n].token, member[n].ref, inbox[n].expiresAt))'
    <3> SUFFICES ASSUME member[n].pc = "renewing", Answered(n, "yes")',
                        inbox'[n].expiresAt > now
                 PROVE  Covers(n, member[n].token, member[n].ref, inbox[n].expiresAt)'
      OBVIOUS
    <3>1. Covers(n, member[n].token, member[n].ref, inbox[n].expiresAt)
      BY DEF Covered, Answered
    <3> QED
      BY <2>1, <3>1 DEF Covers
  <2> QED
    BY <2>2, <2>3
<1> QED
  BY <1>1 DEF Covered

LEMMA InvJoin ==
    ASSUME Inv, TypeOK', NEW r \in requests, ServeJoin(r)
    PROVE  Inv'
<1> DEFINE m == r.member
           s == ScopeOf[m]
           expiry == Max2(lease[s].expiresAt, now + TtlOf[m])
<1>0. /\ TypeOK /\ Handles /\ RequestsMatch /\ Covered
      /\ m \in Members /\ s \in Scopes /\ lease[s] \in StoredLease
      /\ now \in Nat /\ TtlOf[m] \in Nat /\ NoId \notin Ids
  BY LeaseConstants DEF Inv, TypeOK, Request
<1>1. /\ r.kind = "acquire" /\ now' = now /\ member' = member
      /\ m \in Joining /\ lease[s].refs # {} /\ lease[s].holder = HolderOf[m]
  BY DEF ServeJoin, CanJoin
<1>2. expiry \in Nat /\ expiry >= lease[s].expiresAt
  BY <1>0 DEF StoredLease, Max2
<1>3. PICK ref \in FreshIds :
          /\ lease' = [lease EXCEPT ![s].expiresAt = expiry,
                                    ![s].refs = lease[s].refs \cup {ref}]
          /\ Answer(r, [acquired |-> "yes", holder |-> lease[s].holder,
                        token |-> lease[s].token, ref |-> ref,
                        expiresAt |-> expiry])
  BY DEF ServeJoin
<1> HIDE DEF expiry
<1>4. /\ lease'[s].token = lease[s].token /\ lease'[s].holder = lease[s].holder
      /\ lease'[s].expiresAt = expiry /\ lease'[s].refs = lease[s].refs \cup {ref}
      /\ \A t \in Scopes : t # s => lease'[t] = lease[t]
  BY <1>0, <1>3 DEF TypeOK, StoredLease
<1>5. /\ RequestsMatch'
      /\ \A n \in Members : HasHandle(n)' =>
           \/ /\ HasHandle(n) /\ TokenOf(n)' = TokenOf(n)
              /\ RefOf(n)' = RefOf(n) /\ ExpiryOf(n)' = ExpiryOf(n)
           \/ /\ n = m /\ TokenOf(n)' = lease[s].token
              /\ RefOf(n)' = ref /\ ExpiryOf(n)' = expiry
      /\ \A n \in Members : member[n].pc = "renewing" => inbox'[n] = inbox[n]
  BY <1>1, <1>3, AnswerGrants
<1>6. requests' \subseteq requests
  BY <1>3 DEF Answer
<1>7. /\ ref # NoId
      /\ \A n \in Members : RefOf(n) # ref
      /\ \A q \in requests : q.ref # ref
  BY <1>0, FreshIsUnused DEF RefOf
<1>8. lease[s].token # NoId /\ \A t \in Scopes : t # s => lease[t].token # lease[s].token
  BY <1>0, <1>1 DEF Handles, GenerationsApart
<1>9. Handles'
  <2>0. PICK token : token = lease[s].token
    OBVIOUS
  <2>1. /\ token # NoId
        /\ ref # NoId => m \in Joining
        /\ \A n \in Members : HasHandle(n) => TokenOf(n) # token \/ RefOf(n) # ref
        /\ \A q \in requests : Carries(q) => q.token # token \/ q.ref # ref
    BY <1>1, <1>7, <1>8, <2>0
  <2>2. /\ lease'[s].token = token
        /\ lease'[s].refs = {} <=> ref = NoId
        /\ \A t \in Scopes : t # s => lease'[t] = lease[t] /\ lease[t].token # token
    BY <1>4, <1>7, <1>8, <2>0
  <2>3. lease[s].token = token /\ (lease[s].refs = {} <=> ref = NoId)
    BY <1>1, <1>7, <2>0
  <2>4. \A n \in Members : HasHandle(n)' =>
           \/ HasHandle(n) /\ TokenOf(n)' = TokenOf(n) /\ RefOf(n)' = RefOf(n)
           \/ n = m /\ TokenOf(n)' = token /\ RefOf(n)' = ref
    BY <1>5, <2>0
  <2> HIDE DEF m, s
  <2>5. HandlesNamed'
    BY <1>0, <1>6, <2>1, <2>4 DEF Handles, HandlesNamed
  <2>6. HandlesUnique'
    BY <1>0, <2>1, <2>4 DEF Handles, HandlesUnique
  <2>7. ReleasesOwned'
    BY <1>0, <1>1, <1>6, <2>1, <2>4 DEF Handles, ReleasesOwned, Carries
  <2>8. GenerationsApart'
    BY <1>0, <2>1, <2>2 DEF Handles, GenerationsApart
  <2>9. Joinability'
    BY <1>0, <1>6, <2>2, <2>3, <2>4 DEF Handles, Joinability
  <2>10. OnlyJoinersRefer'
    BY <1>0, <2>1, <2>4 DEF Handles, OnlyJoinersRefer
  <2> QED
    BY <2>5, <2>6, <2>7, <2>8, <2>9, <2>10 DEF Handles
<1>10. ASSUME NEW n \in Members, NEW id, NEW rf, NEW t \in Nat,
              t > now, Covers(n, id, rf, t)
       PROVE  /\ lease'[ScopeOf[n]].token = id
              /\ lease'[ScopeOf[n]].holder = HolderOf[n]
              /\ lease'[ScopeOf[n]].expiresAt >= t
              /\ lease'[ScopeOf[n]].refs # {} => rf \in lease'[ScopeOf[n]].refs
  <2>1. ScopeOf[n] \in Scopes /\ lease[s].expiresAt \in Nat
    BY <1>0, LeaseConstants DEF StoredLease
  <2>2. CASE ScopeOf[n] # s
    BY <1>4, <1>10, <2>1, <2>2 DEF Covers
  <2>3. CASE ScopeOf[n] = s
    BY <1>1, <1>2, <1>4, <1>10, <2>1, <2>3 DEF Covers
  <2> QED
    BY <2>2, <2>3
<1>11. /\ lease'[s].holder = HolderOf[m] /\ lease'[s].expiresAt >= expiry
       /\ ref \in lease'[s].refs
  BY <1>1, <1>2, <1>4
<1>12. Covered'
  BY <1>0, <1>1, <1>4, <1>5, <1>10, <1>11, GainCovered
<1> QED
  BY <1>5, <1>9, <1>12 DEF Inv

LEMMA InvGrant ==
    ASSUME Inv, TypeOK', NEW r \in requests, ServeGrant(r)
    PROVE  Inv'
<1> DEFINE m == r.member
           s == ScopeOf[m]
           expiry == now + TtlOf[m]
<1>0. /\ TypeOK /\ Handles /\ RequestsMatch /\ Covered
      /\ m \in Members /\ s \in Scopes /\ lease[s] \in StoredLease
      /\ now \in Nat /\ TtlOf[m] \in Nat /\ NoId \notin Ids
  BY LeaseConstants DEF Inv, TypeOK, Request
<1>1. r.kind = "acquire" /\ now' = now /\ member' = member /\ ~Live(s)
  BY DEF ServeGrant
<1>2. PICK token \in FreshIds :
        \E ref \in IF m \in Joining THEN FreshIds \ {token} ELSE {NoId} :
          /\ lease' = [lease EXCEPT ![s] =
                         [holder |-> HolderOf[m], token |-> token,
                          expiresAt |-> expiry, refs |-> {ref} \ {NoId}]]
          /\ Answer(r, [acquired |-> "yes", holder |-> HolderOf[m],
                        token |-> token, ref |-> ref, expiresAt |-> expiry])
  BY DEF ServeGrant
<1>3. PICK ref \in IF m \in Joining THEN FreshIds \ {token} ELSE {NoId} :
          /\ lease' = [lease EXCEPT ![s] =
                         [holder |-> HolderOf[m], token |-> token,
                          expiresAt |-> expiry, refs |-> {ref} \ {NoId}]]
          /\ Answer(r, [acquired |-> "yes", holder |-> HolderOf[m],
                        token |-> token, ref |-> ref, expiresAt |-> expiry])
  BY <1>2
<1>e. expiry \in Nat
  BY <1>0
<1> HIDE DEF expiry
<1>4. /\ lease'[s].token = token /\ lease'[s].holder = HolderOf[m]
      /\ lease'[s].expiresAt = expiry /\ lease'[s].refs = {ref} \ {NoId}
      /\ \A t \in Scopes : t # s => lease'[t] = lease[t]
  BY <1>0, <1>3 DEF TypeOK
<1>5. /\ RequestsMatch'
      /\ \A n \in Members : HasHandle(n)' =>
           \/ /\ HasHandle(n) /\ TokenOf(n)' = TokenOf(n)
              /\ RefOf(n)' = RefOf(n) /\ ExpiryOf(n)' = ExpiryOf(n)
           \/ /\ n = m /\ TokenOf(n)' = token
              /\ RefOf(n)' = ref /\ ExpiryOf(n)' = expiry
      /\ \A n \in Members : member[n].pc = "renewing" => inbox'[n] = inbox[n]
  BY <1>1, <1>3, AnswerGrants
<1>6. requests' \subseteq requests
  BY <1>3 DEF Answer
<1>7. /\ token # NoId
      /\ \A n \in Members : TokenOf(n) # token
      /\ \A q \in requests : q.token # token
      /\ \A t \in Scopes : lease[t].token # token
  BY <1>0, FreshIsUnused DEF TokenOf
<1>8. /\ ref # NoId => m \in Joining
      /\ lease'[s].refs = {} <=> ref = NoId
      /\ lease'[s].refs # {} => ref \in lease'[s].refs
  BY <1>3, <1>4
<1>9. Handles'
  <2>1. \A n \in Members : HasHandle(n)' =>
           \/ HasHandle(n) /\ TokenOf(n)' = TokenOf(n) /\ RefOf(n)' = RefOf(n)
           \/ n = m /\ TokenOf(n)' = token /\ RefOf(n)' = ref
    BY <1>5
  <2> HIDE DEF m, s
  <2>2. HandlesNamed'
    BY <1>0, <1>6, <1>7, <2>1 DEF Handles, HandlesNamed
  <2>3. HandlesUnique'
    BY <1>0, <1>7, <2>1 DEF Handles, HandlesUnique
  <2>4. ReleasesOwned'
    BY <1>0, <1>1, <1>6, <1>7, <2>1 DEF Handles, ReleasesOwned
  <2>5. GenerationsApart'
    BY <1>0, <1>4, <1>7 DEF Handles, GenerationsApart
  <2>6. Joinability'
    BY <1>0, <1>4, <1>6, <1>7, <1>8, <2>1 DEF Handles, Joinability
  <2>7. OnlyJoinersRefer'
    BY <1>0, <1>8, <2>1 DEF Handles, OnlyJoinersRefer
  <2> QED
    BY <2>2, <2>3, <2>4, <2>5, <2>6, <2>7 DEF Handles
<1>10. ASSUME NEW n \in Members, NEW id, NEW rf, NEW t \in Nat,
              t > now, Covers(n, id, rf, t)
       PROVE  /\ lease'[ScopeOf[n]].token = id
              /\ lease'[ScopeOf[n]].holder = HolderOf[n]
              /\ lease'[ScopeOf[n]].expiresAt >= t
              /\ lease'[ScopeOf[n]].refs # {} => rf \in lease'[ScopeOf[n]].refs
  <2>1. ScopeOf[n] \in Scopes /\ lease[ScopeOf[n]].expiresAt \in Nat
    BY <1>0, LeaseConstants DEF TypeOK, StoredLease
  <2>2. ScopeOf[n] # s
    BY <1>0, <1>1, <1>10, <2>1 DEF Covers, Live
  <2> QED
    BY <1>4, <1>10, <2>1, <2>2 DEF Covers
<1>11. lease'[s].expiresAt >= expiry
  BY <1>4, <1>e
<1>12. Covered'
  <2> HIDE DEF m
  <2> QED
    BY <1>0, <1>1, <1>4, <1>5, <1>8, <1>10, <1>11, GainCovered
<1> QED
  BY <1>5, <1>9, <1>12 DEF Inv

LEMMA InvStep == Inv /\ [Next]_vars => Inv'
<1> SUFFICES ASSUME Inv, [Next]_vars PROVE Inv'
  OBVIOUS
<1>0. TypeOK /\ RequestsMatch /\ Handles /\ Covered /\ TypeOK'
  BY TypeStep DEF Inv
<1>1. ASSUME NEW r \in requests, Object(r) PROVE Inv'
  <2>1. CASE Lose(r)
    <3>1. /\ lease' = lease /\ now' = now /\ member' = member /\ inbox' = inbox
          /\ requests' \subseteq requests
      BY <2>1 DEF Lose
    <3>2. \A n \in Members : /\ HasHandle(n)' = HasHandle(n) /\ TokenOf(n)' = TokenOf(n)
                             /\ RefOf(n)' = RefOf(n) /\ ExpiryOf(n)' = ExpiryOf(n)
      BY <3>1 DEF HasHandle, TokenOf, RefOf, ExpiryOf, Answered
    <3>3. RequestsMatch'
      BY <1>0, <3>1 DEF RequestsMatch
    <3>4. Handles'
      BY <1>0, <3>1, <3>2, KeepHandles
    <3>5. Covered'
      BY <1>0, <3>1, <3>2 DEF Covered, Covers, Answered
    <3> QED
      BY <1>0, <3>3, <3>4, <3>5 DEF Inv
  <2> QED
    BY <1>0, <1>1, <2>1, InvJoin, InvBusy, InvGrant, InvRenew, InvRelease DEF Object
<1>2. ASSUME NEW m \in Members, Client(m) PROVE Inv'
  BY <1>0, <1>2, InvClient
<1>3. CASE DeleteExpiredLeases
  <2>1. /\ now' = now /\ member' = member /\ inbox' = inbox /\ requests' = requests
        /\ \A s \in Scopes : lease'[s] = IF Live(s) THEN lease[s] ELSE NoLease
    BY <1>3 DEF DeleteExpiredLeases, GetStoredLease
  <2>2. \A n \in Members : /\ HasHandle(n)' = HasHandle(n) /\ TokenOf(n)' = TokenOf(n)
                           /\ RefOf(n)' = RefOf(n) /\ ExpiryOf(n)' = ExpiryOf(n)
    BY <2>1 DEF HasHandle, TokenOf, RefOf, ExpiryOf, Answered
  <2>3. RequestsMatch'
    BY <1>0, <2>1 DEF RequestsMatch
  <2>4. Handles'
    BY <1>0, <2>1, <2>2, KeepHandles
  <2>5. ASSUME NEW n \in Members, NEW id, NEW rf, NEW t \in Nat,
               t > now, Covers(n, id, rf, t)
        PROVE  lease'[ScopeOf[n]] = lease[ScopeOf[n]]
    BY <1>0, <2>1, <2>5, LeaseConstants DEF Covers, Live, TypeOK, StoredLease
  <2>6. \A n \in Members : ExpiryOf(n) \in Nat /\ inbox[n].expiresAt \in Nat
    BY <1>0 DEF ExpiryOf, TypeOK, MemberState, Reply, NoReply
  <2>7. Covered'
    BY <1>0, <2>1, <2>2, <2>5, <2>6 DEF Covered, Covers, Answered
  <2> QED
    BY <1>0, <2>3, <2>4, <2>7 DEF Inv
<1>4. CASE Tick
  <2>1. /\ lease' = lease /\ member' = member /\ inbox' = inbox /\ requests' = requests
        /\ now' = now + 1 /\ now \in Nat
    BY <1>0, <1>4 DEF Tick, TypeOK
  <2>2. \A n \in Members : /\ HasHandle(n)' = HasHandle(n) /\ TokenOf(n)' = TokenOf(n)
                           /\ RefOf(n)' = RefOf(n) /\ ExpiryOf(n)' = ExpiryOf(n)
                           /\ ExpiryOf(n) \in Nat /\ inbox[n].expiresAt \in Nat
    BY <1>0, <2>1 DEF HasHandle, TokenOf, RefOf, ExpiryOf, Answered,
                      TypeOK, MemberState, Reply, NoReply
  <2>3. RequestsMatch'
    BY <1>0, <2>1 DEF RequestsMatch
  <2>4. Handles'
    BY <1>0, <2>1, <2>2, KeepHandles
  <2>5. Covered'
    BY <1>0, <2>1, <2>2 DEF Covered, Covers, Answered
  <2> QED
    BY <1>0, <2>3, <2>4, <2>5 DEF Inv
<1>5. CASE UNCHANGED vars
  BY <1>0, <1>5
     DEF vars, Inv, RequestsMatch, Handles, HandlesNamed, HandlesUnique, ReleasesOwned,
         GenerationsApart, Joinability, OnlyJoinersRefer, Covered, Covers,
         HasHandle, TokenOf, RefOf, ExpiryOf, Answered
<1> QED
  BY <1>1, <1>2, <1>3, <1>4, <1>5 DEF Next

-----------------------------------------------------------------------------
(* What the invariant says of the members at work.                         *)

LEMMA PromisedHasHandle ==
    ASSUME NEW m \in Members, Promised(m)
    PROVE  /\ HasHandle(m) /\ member[m].pc # "releasing" /\ ExpiryOf(m) > now
           /\ TokenOf(m) = member[m].token /\ RefOf(m) = member[m].ref
           /\ ExpiryOf(m) = member[m].expiresAt
BY DEF Promised, HasHandle, TokenOf, RefOf, ExpiryOf

LEMMA InvPromise == Inv => PromiseKept
<1> SUFFICES ASSUME Inv, NEW m \in Members, Promised(m)
             PROVE  /\ lease[ScopeOf[m]].token = member[m].token
                    /\ lease[ScopeOf[m]].holder = HolderOf[m]
                    /\ lease[ScopeOf[m]].expiresAt >= member[m].expiresAt
                    /\ lease[ScopeOf[m]].refs = {} => member[m].ref = NoId
                    /\ lease[ScopeOf[m]].refs # {} => member[m].ref \in lease[ScopeOf[m]].refs
  BY DEF PromiseKept
<1>1. Covers(m, member[m].token, member[m].ref, member[m].expiresAt)
  BY PromisedHasHandle DEF Inv, Covered
<1>2. lease[ScopeOf[m]].refs = {} => member[m].ref = NoId
  BY <1>1, PromisedHasHandle, LeaseConstants
     DEF Inv, Handles, HandlesNamed, Joinability, Covers
<1> QED
  BY <1>1, <1>2 DEF Covers

(* Two members that rely on the lease of a scope share its generation, so  *)
(* they have different references, so both joined it.                      *)
LEMMA InvExclusion == Inv => MutualExclusion
<1> SUFFICES ASSUME Inv, NEW m \in Members, NEW n \in Members, m # n,
                    ScopeOf[m] = ScopeOf[n], Promised(m), Promised(n)
             PROVE  /\ {m, n} \subseteq Joining
                    /\ HolderOf[m] = HolderOf[n]
                    /\ member[m].token = member[n].token
  BY DEF MutualExclusion
<1>1. /\ Covers(m, member[m].token, member[m].ref, member[m].expiresAt)
      /\ Covers(n, member[n].token, member[n].ref, member[n].expiresAt)
  BY PromisedHasHandle DEF Inv, Covered
<1>2. member[m].token = member[n].token /\ HolderOf[m] = HolderOf[n]
  BY <1>1 DEF Covers
<1>3. member[m].ref # member[n].ref
  BY <1>2, PromisedHasHandle DEF Inv, Handles, HandlesUnique
<1>4. member[m].ref = NoId <=> member[n].ref = NoId
  BY <1>1, <1>2, PromisedHasHandle, LeaseConstants
     DEF Inv, Handles, HandlesNamed, Joinability, Covers
<1>5. member[m].ref # NoId /\ member[n].ref # NoId
  BY <1>3, <1>4
<1>6. m \in Joining /\ n \in Joining
  BY <1>5, PromisedHasHandle DEF Inv, Handles, OnlyJoinersRefer
<1> QED
  BY <1>2, <1>6

(* The inductive invariant holds in every reachable state.                 *)
THEOREM LeaseInvariant == Spec => []Inv
BY InvInit, InvStep, PTL DEF Spec

(* Until the expiry a member of withScopedLease was last told of, the row  *)
(* the CoordinationObject stores is the member's own generation, lives at  *)
(* least that long and still counts the member: no late, lost or repeated  *)
(* acquire, renew or release of anybody takes it away.                     *)
THEOREM LeasePromiseKept == Spec => []PromiseKept
BY InvInit, InvStep, InvPromise, PTL DEF Spec

(* Two members work under unexpired leases of one scope only when both     *)
(* passed joinExistingHolder and run under one holder id and generation.   *)
THEOREM LeaseMutualExclusion == Spec => []MutualExclusion
BY InvInit, InvStep, InvExclusion, PTL DEF Spec

-----------------------------------------------------------------------------
(* The lease implements the lock.                                          *)

(* A step lets at most one member in, and mutual exclusion after the step  *)
(* is what the lock asks of it.                                            *)
LEMMA LockStep ==
    ASSUME Inv, Inv', [Next]_vars
    PROVE  [Contract!Next]_({m \in Members : Promised(m)})
<1> DEFINE in == {m \in Members : Promised(m)}
<1>0. MutualExclusion'
  BY InvExclusion, PTL
<1>1. ASSUME in' \subseteq in PROVE Contract!Next
  BY <1>1 DEF Contract!Next, Contract!Leave
<1>2. ASSUME NEW r \in requests, Object(r) PROVE in' \subseteq in
  <2>1. member' = member /\ now' = now
    BY <1>2 DEF Object, ServeJoin, ServeBusy, ServeGrant, ServeRenew, ServeRelease, Lose
  <2> QED
    BY <2>1 DEF Promised
<1>3. ASSUME NEW m \in Members, Client(m) PROVE Contract!Next
  <2>1. now' = now /\ \A n \in Members : n # m => member'[n] = member[n]
    BY <1>3 DEF Client, Acquire, AcquireGranted, AcquireWait, AcquireFailed, Renew,
                Renewed, RenewRetry, RenewFailClosed, Release, ReleaseReturned,
                Crash, Send, Become, Inv, TypeOK
  <2>2. in' \subseteq in \cup {m} /\ in \ {m} \subseteq in'
    BY <2>1 DEF Promised
  <2>3. CASE m \in in \/ m \notin in'
    BY <1>1, <2>2, <2>3
  <2>4. CASE m \notin in /\ m \in in'
    <3>1. in' = in \cup {m}
      BY <2>2, <2>4
    <3>2. \A n \in in : n \in Members /\ Promised(n)'
      BY <3>1
    <3>3. \A n \in in : ScopeOf[n] = ScopeOf[m] => Contract!Compatible(m, n)
      BY <1>0, <2>4, <3>2 DEF MutualExclusion, Contract!Compatible
    <3> QED
      BY <2>4, <3>1, <3>3 DEF Contract!Next, Contract!Enter
  <2> QED
    BY <2>3, <2>4
<1>4. CASE DeleteExpiredLeases
  BY <1>1, <1>4 DEF DeleteExpiredLeases, Promised
<1>5. CASE Tick
  <2>1. member' = member /\ now' = now + 1 /\ now \in Nat
    BY <1>5 DEF Tick, Inv, TypeOK
  <2>2. \A n \in Members : member[n].expiresAt \in Nat
    BY DEF Inv, TypeOK, MemberState
  <2>3. in' \subseteq in
    BY <2>1, <2>2 DEF Promised
  <2> QED
    BY <1>1, <2>3
<1>6. CASE UNCHANGED vars
  BY <1>6 DEF vars, Promised
<1> QED
  BY <1>1, <1>2, <1>3, <1>4, <1>5, <1>6 DEF Next

(* The CoordinationObject and its callers implement the lock per scope     *)
(* that withScopedLease is used as.                                        *)
THEOREM LeaseImplementsLock == Spec => ImplementsScopeLock
<1>1. Init => Contract!Init
  BY DEF Init, Contract!Init, Promised, Idle
<1>2. Inv /\ Inv' /\ [Next]_vars => [Contract!Next]_({m \in Members : Promised(m)})
  BY LockStep
<1> QED
  BY <1>1, <1>2, InvInit, InvStep, PTL DEF Spec, ImplementsScopeLock, Contract!Spec

-----------------------------------------------------------------------------
(* What a step does to a live generation.                                  *)

LEMMA LiveStep ==
    ASSUME TypeOK, [Next]_vars
    PROVE  LiveGenerationStep
<1> SUFFICES ASSUME NEW s \in Scopes, Live(s)
             PROVE  \/ lease'[s] = NoLease
                    \/ /\ lease'[s].token = lease[s].token
                       /\ lease'[s].holder = lease[s].holder
                       /\ lease'[s].expiresAt >= lease[s].expiresAt
  BY DEF LiveGenerationStep
<1>0. /\ lease[s] \in StoredLease /\ now \in Nat /\ GetStoredLease(s) = lease[s]
      /\ TtlOf \in [Members -> Nat]
  BY LeaseConstants DEF TypeOK, GetStoredLease
<1>1. ASSUME lease'[s] = lease[s]
      PROVE  lease'[s].expiresAt >= lease[s].expiresAt
  BY <1>0, <1>1 DEF StoredLease
<1>2. ASSUME NEW r \in requests, Object(r)
      PROVE  \/ lease'[s] = NoLease
             \/ /\ lease'[s].token = lease[s].token
                /\ lease'[s].holder = lease[s].holder
                /\ lease'[s].expiresAt >= lease[s].expiresAt
  <2>0. r.member \in Members /\ TtlOf[r.member] \in Nat
    BY <1>0 DEF TypeOK, Request
  <2>1. CASE ScopeOf[r.member] # s \/ ServeBusy(r) \/ Lose(r)
    <3>1. lease'[s] = lease[s]
      BY <1>2, <2>1 DEF Object, ServeJoin, ServeBusy, ServeGrant, ServeRenew,
                        ServeRelease, Lose, TypeOK
    <3> QED
      BY <1>1, <3>1
  <2>2. CASE ScopeOf[r.member] = s /\ ServeJoin(r)
    <3>1. PICK ref \in FreshIds :
            lease' = [lease EXCEPT
                        ![s].expiresAt = Max2(lease[s].expiresAt, now + TtlOf[r.member]),
                        ![s].refs = lease[s].refs \cup {ref}]
      BY <2>2 DEF ServeJoin
    <3> QED
      BY <1>0, <2>0, <3>1 DEF TypeOK, StoredLease, Max2
  <2>3. CASE ScopeOf[r.member] = s /\ ServeGrant(r)
    BY <2>3 DEF ServeGrant
  <2>4. CASE ScopeOf[r.member] = s /\ ServeRenew(r)
    <3> DEFINE expiry == Max2(lease[s].expiresAt, now + TtlOf[r.member])
    <3>1. lease'[s] = lease[s] \/ lease'[s] = [lease[s] EXCEPT !.expiresAt = expiry]
      BY <1>0, <2>4 DEF ServeRenew, TypeOK
    <3>2. expiry >= lease[s].expiresAt
      BY <1>0, <2>0 DEF StoredLease, Max2
    <3> HIDE DEF expiry
    <3> QED
      BY <1>0, <1>1, <3>1, <3>2 DEF StoredLease
  <2>5. CASE ScopeOf[r.member] = s /\ ServeRelease(r)
    <3>1. \/ lease'[s] = lease[s] \/ lease'[s] = NoLease
          \/ lease'[s] = [lease[s] EXCEPT !.refs = lease[s].refs \ {r.ref}]
      BY <1>0, <2>5 DEF ServeRelease, TypeOK
    <3> QED
      BY <1>0, <1>1, <3>1 DEF StoredLease
  <2> QED
    BY <1>2, <2>1, <2>2, <2>3, <2>4, <2>5 DEF Object
<1>3. ASSUME NEW m \in Members, Client(m) PROVE lease'[s] = lease[s]
  BY <1>3 DEF Client, Acquire, AcquireGranted, AcquireWait, AcquireFailed, Renew,
              Renewed, RenewRetry, RenewFailClosed, Release, ReleaseReturned,
              Crash, Send, Become
<1>4. CASE DeleteExpiredLeases \/ Tick \/ UNCHANGED vars
  <2>1. lease'[s] = lease[s]
    BY <1>0, <1>4 DEF DeleteExpiredLeases, Tick, vars
  <2> QED
    BY <1>1, <2>1
<1> QED
  BY <1>1, <1>2, <1>3, <1>4 DEF Next

(* A generation that has not expired is extended or given up by its own    *)
(* members: its expiry never moves back and nothing replaces it.           *)
THEOREM LeaseLiveGenerationStable == Spec => LiveGenerationStable
<1>1. TypeOK /\ [Next]_vars => [LiveGenerationStep]_vars
  BY LiveStep
<1> QED
  BY <1>1, TypeInit, TypeStep, PTL DEF Spec, LiveGenerationStable

-----------------------------------------------------------------------------
(* The limit on references.                                                *)

FewRefs == \A s \in Scopes :
    IsFiniteSet(lease[s].refs) /\ Cardinality(lease[s].refs) <= MaxRefs

LEMMA SmallRefs ==
    /\ IsFiniteSet({}) /\ Cardinality({}) <= MaxRefs
    /\ \A x : IsFiniteSet({x} \ {NoId}) /\ Cardinality({x} \ {NoId}) <= MaxRefs
<1>1. IsFiniteSet({}) /\ Cardinality({}) = 0
  BY FS_EmptySet
<1>2. \A x : IsFiniteSet({x}) /\ Cardinality({x}) = 1
  BY FS_Singleton
<1>3. \A x : {x} \ {NoId} = {x} \/ {x} \ {NoId} = {}
  OBVIOUS
<1>4. 0 <= MaxRefs /\ 1 <= MaxRefs
  BY LeaseConstants
<1>5. ASSUME NEW x
      PROVE  IsFiniteSet({x} \ {NoId}) /\ Cardinality({x} \ {NoId}) <= MaxRefs
  <2>1. CASE {x} \ {NoId} = {x}
    BY <1>2, <1>4, <2>1, Zenon
  <2>2. CASE {x} \ {NoId} = {}
    BY <1>1, <1>4, <2>2, Zenon
  <2> QED
    BY <1>3, <2>1, <2>2, Zenon
<1> QED
  BY <1>1, <1>4, <1>5, Zenon

LEMMA FewRefsStep == TypeOK /\ FewRefs /\ [Next]_vars => FewRefs'
<1> SUFFICES ASSUME TypeOK, FewRefs, [Next]_vars, NEW s \in Scopes
             PROVE  IsFiniteSet(lease'[s].refs) /\ Cardinality(lease'[s].refs) <= MaxRefs
  BY DEF FewRefs
<1>0. IsFiniteSet(lease[s].refs) /\ Cardinality(lease[s].refs) <= MaxRefs
  BY DEF FewRefs
<1>1. \/ lease'[s].refs \in {lease[s].refs, {}}
      \/ \E x : lease'[s].refs \in {lease[s].refs \ {x}, {x} \ {NoId}}
      \/ /\ Cardinality(lease[s].refs) < MaxRefs
         /\ \E x : lease'[s].refs = lease[s].refs \cup {x}
  <2>0. GetStoredLease(s).refs \in {lease[s].refs, {}} /\ lease[s] \in StoredLease
        /\ GetStoredLease(s) \in StoredLease
    BY DEF GetStoredLease, NoLease, TypeOK, StoredLease
  <2>1. ASSUME NEW r \in requests, Object(r), ScopeOf[r.member] = s
        PROVE  \/ lease'[s].refs \in {lease[s].refs, {}}
               \/ \E x : lease'[s].refs \in {lease[s].refs \ {x}, {x} \ {NoId}}
               \/ /\ Cardinality(lease[s].refs) < MaxRefs
                  /\ \E x : lease'[s].refs = lease[s].refs \cup {x}
    <3>1. CASE ServeJoin(r)
      BY <2>0, <2>1, <3>1 DEF ServeJoin, CanJoin, TypeOK, StoredLease
    <3>2. CASE ServeBusy(r) \/ Lose(r)
      BY <3>2 DEF ServeBusy, Lose
    <3>3. CASE ServeGrant(r)
      BY <2>1, <3>3 DEF ServeGrant, TypeOK
    <3>4. CASE ServeRenew(r)
      <4>1. \/ lease'[s] = GetStoredLease(s)
            \/ \E e : lease'[s] = [GetStoredLease(s) EXCEPT !.expiresAt = e]
        BY <2>1, <3>4 DEF ServeRenew, TypeOK
      <4> QED
        BY <2>0, <4>1 DEF StoredLease
    <3>5. CASE ServeRelease(r)
      <4>1. \/ lease'[s] = GetStoredLease(s) \/ lease'[s] = NoLease
            \/ lease'[s] = [GetStoredLease(s) EXCEPT !.refs = GetStoredLease(s).refs \ {r.ref}]
        BY <2>1, <3>5 DEF ServeRelease, TypeOK
      <4>2. lease'[s].refs \in {GetStoredLease(s).refs, {}, GetStoredLease(s).refs \ {r.ref}}
        BY <2>0, <4>1 DEF StoredLease, NoLease
      <4> QED
        BY <2>0, <4>2
    <3> QED
      BY <2>1, <3>1, <3>2, <3>3, <3>4, <3>5 DEF Object
  <2>2. ASSUME NEW r \in requests, Object(r), ScopeOf[r.member] # s
        PROVE  lease'[s] = lease[s]
    BY <2>2 DEF Object, ServeJoin, ServeBusy, ServeGrant, ServeRenew, ServeRelease,
                Lose, TypeOK
  <2>3. ASSUME NEW m \in Members, Client(m) PROVE lease' = lease
    BY <2>3 DEF Client, Acquire, AcquireGranted, AcquireWait, AcquireFailed, Renew,
                Renewed, RenewRetry, RenewFailClosed, Release, ReleaseReturned,
                Crash, Send, Become
  <2>4. CASE DeleteExpiredLeases \/ Tick \/ UNCHANGED vars
    BY <2>0, <2>4 DEF DeleteExpiredLeases, Tick, vars
  <2> QED
    BY <2>1, <2>2, <2>3, <2>4 DEF Next
<1>2. CASE lease'[s].refs \in {lease[s].refs, {}}
  BY <1>0, <1>2, SmallRefs
<1>3. ASSUME NEW x, lease'[s].refs = lease[s].refs \ {x}
      PROVE  IsFiniteSet(lease'[s].refs) /\ Cardinality(lease'[s].refs) <= MaxRefs
  <2>1. IsFiniteSet(lease'[s].refs) /\ Cardinality(lease'[s].refs) <= Cardinality(lease[s].refs)
    BY <1>0, <1>3, FS_Subset
  <2> QED
    BY <1>0, <2>1, FS_CardinalityType, LeaseConstants
<1>4. ASSUME NEW x, lease'[s].refs = {x} \ {NoId}
      PROVE  IsFiniteSet(lease'[s].refs) /\ Cardinality(lease'[s].refs) <= MaxRefs
  BY <1>4, SmallRefs
<1>5. ASSUME NEW x, lease'[s].refs = lease[s].refs \cup {x},
             Cardinality(lease[s].refs) < MaxRefs
      PROVE  IsFiniteSet(lease'[s].refs) /\ Cardinality(lease'[s].refs) <= MaxRefs
  <2>1. /\ IsFiniteSet(lease'[s].refs)
        /\ \/ Cardinality(lease'[s].refs) = Cardinality(lease[s].refs)
           \/ Cardinality(lease'[s].refs) = Cardinality(lease[s].refs) + 1
    BY <1>0, <1>5, FS_AddElement
  <2> QED
    BY <1>0, <1>5, <2>1, FS_CardinalityType, LeaseConstants
<1> QED
  BY <1>1, <1>2, <1>3, <1>4, <1>5

(* A joined row never counts more members than MAX_JOINED_LEASE_REFERENCES. *)
THEOREM LeaseRefsBounded == Spec => []RefsBounded
<1>1. Init => FewRefs
  BY SmallRefs DEF Init, NoLease, FewRefs
<1>2. FewRefs => RefsBounded
  BY DEF FewRefs, RefsBounded
<1> QED
  BY <1>1, <1>2, TypeInit, TypeStep, FewRefsStep, PTL DEF Spec
=============================================================================
