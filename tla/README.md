# Verification of the takosumi deploy control plane

takosumi is a control plane for OpenTofu. A *Workspace* holds *Capsules*; a
Capsule is changed by *Runs*: a PlanRun that is reviewed, then an ApplyRun that
executes exactly the reviewed plan in a container and commits a new
StateVersion to the control ledger. The control plane runs on Cloudflare
Workers: any number of stateless isolates, a queue that delivers at least once,
a SQL/D1 ledger, and Durable Objects that serialize requests but lose their
memory at any reset.

The specifications here cover the part where this is hardest to get right: who
may work on a Capsule at a time, what a run does to the ledger and to billing
when its executor dies, stalls or is duplicated, who makes sure that a
dispatched run is looked at again, what a reviewed plan is worth while approve,
cancel and apply calls overlap, how a committed apply becomes Interfaces, and
what becomes of the source archives an app was built from.

## The system

| Part | State | Operations | Hard behaviour |
| --- | --- | --- | --- |
| Scoped write lease (`CoordinationObject.ts`, `capsule_lease.ts`, `worker_service.ts`) | one row per scope: holder, token, expiry, member references | acquire, join, renew, release, expiry sweep | lost and late RPCs, crashes of members, expiry during work, duplicates of one holder |
| Apply pipeline (`run_engine.ts`) | ApplyRun rows with a lease column, retry count and audit evidence | create, deliver, claim, check, dispatch, renew, commit, replay, requeue, fail, cancel | duplicate delivery, takeover of a stalled executor, ambiguous commit, late writes |
| Control ledger (`store.ts`, `store_sql.ts`, `d1_opentofu_store.ts`) | Capsule cursors, StateVersions, plan markers, runs | `beginApplyRun`, `transitionRun`, `commitRunState` | compare-and-set on the right columns |
| Billing settlement (`billing_service.ts`, `run_engine.ts`) | reservation at the host, durable pending marker | capture, mark, release | crash between commit and capture; release by an executor that lost the run |
| Workspace management (`store.ts`, `workspace_management_blockers.ts`) | active, draining, frozen | begin drain, settle, freeze | consumers that started before the drain |
| Run owner (`OpenTofuRunOwnerObject.ts`) | one record, one alarm | start, alarm, /drain | a dispatch that spans minutes of awaits, resets, overlapping starts |
| Repair sweep (`deploy/platform/worker.ts`) | none: it reads the ledger | start every run that is in flight for too long | starts that race a dispatch or a settlement |
| Plan runs and approval (`run_engine.ts`, `plan_resolution.ts`) | PlanRun rows with lease, heartbeat, approval and applied marker; the prepared inputs | deliver, prepare, claim, heartbeat, complete, requeue, fail, approve, cancel, drain, apply, retire inputs | handlers that await between reading a row and writing all of it back |
| Interface materialization (`interface_materialization_*.ts`, `interfaces/`) | one intent per state generation with cursor, lease and receipt; Interface rows | commit, claim, fence, write, settle, supersede, retry, mark, reconcile, retire | two leases that lapse separately, lineage that changes and changes back, destroy during a write |
| Source lifecycle (`source_lifecycle.ts`, `source_sync_settlement.ts`, `sources/`, `stored-service-*.ts`) | Source, SourceSyncRuns, SourceSnapshots; archives and their custody intents | create, claim, fetch, put, settle, merge, clean up, mark, retire | puts that outlive their caller, takeovers during a fetch, retirement against syncs in flight |
| Uninstall, install plans, restore, recovery | rows of their own | claim / attempt / settle protocols | retries, crash between steps |
| Runner object and container, accounts, API, dashboard, CLI, providers, policy libraries | mostly I/O, or pure functions | | |

How they interact: the API or an operator creates a run; the queue consumer
calls `start` on the run owner of that run; its alarm calls the controller,
which is the apply pipeline; the pipeline works inside `withCapsuleLease`,
renews both the lease and its own heartbeat around each long await, dispatches
the runner, and commits to the ledger; billing is settled after the commit, and
the commit of an apply also inserts the intent from which a drainer, later and
elsewhere, materializes the Capsule's Interfaces. What a plan reads is a
SourceSnapshot that a sync committed; the settlement of a later sync marks the
Capsule stale, and once the Capsule is destroyed a daily sweep retires its Source.
The repair sweep and the
owner's polling redeliver what is still in flight.
`PROJECT.json` lists every part, modelled or not, and the hazards by line.

## Modules

| Module | Models |
| --- | --- |
| `ScopeLock` | the abstract contract of the lease: a lock per scope that one member, or the joining members of one operation, may be inside |
| `CapsuleLease` | the lease object, its callers and the RPCs between them; implements `ScopeLock` |
| `CapsuleLeaseProofs` | the TLAPS proofs about `CapsuleLease` |
| `ApplyRun` | the apply pipeline over one Capsule, its ledger, billing and the Workspace drain; uses the lease as the lock that `CapsuleLease` shows it to be |
| `ApplyRunProofs` | the TLAPS proofs about `ApplyRun` |
| `PlanRun` | one PlanRun: its consumers, the approval gate, cancellation, drain, and the applies that read and consume it |
| `PlanRunProofs` | the TLAPS proofs about `PlanRun` |
| `RunOwner` | the run owner object of one run, and the repair sweep that starts it |
| `RunOwnerProofs` | the TLAPS proofs about `RunOwner` |
| `InterfaceIntent` | the materialization intents and Interface rows of one Capsule |
| `InterfaceIntentProofs` | the TLAPS proofs about `InterfaceIntent` |
| `SourceSync` | one app-owned Source: its syncs, archives, settlement, cleanup and retirement |
| `SourceSyncProofs` | the TLAPS proofs about `SourceSync` |
| `MC...` | constants for TLC |

### CapsuleLease

A member is one invocation of `withCapsuleLease`, `withPlanLease` or
`withWorkspaceLease`. `lease[s]` is the stored row (the `joinable` flag is that
`refs` is not empty, which is what `normalizeStoredLease` makes of it),
`member[m]` what the invocation remembers, `requests` the RPCs the object has
not handled, `inbox[m]` the reply to the call `m` awaits. The object's input
gate makes each handler one step: `ServeJoin`, `ServeBusy` and `ServeGrant` are
the three outcomes of `acquireLease`, `ServeRenew` and `ServeRelease` the other
two handlers, `DeleteExpiredLeases` the alarm. A request outlives the caller
that gave up on it (`AcquireFailed`, `ReleaseReturned`, `RenewRetry`, `Crash`),
may be lost (`Lose`), and requests are handled in any order. Identities drawn
with `crypto.randomUUID` are elements of `Ids` that nothing in the state refers
to; a finite set of them can therefore be reused without loss.

One clock is shared by the object and its callers. With skewed clocks the
promise would hold only up to the skew; the code does not measure it either.

### ApplyRun

A worker is one consumer invocation; its `pc` is the store call, dispatch or
RPC it is about to make, and a crash may fall before each of them. `run[a]` is
the stored row with its lease token, heartbeat and retry count; `generation[a]`
is the StateVersion that `a` committed. Every write of an executor is fenced by
`Owns` (status running, and the row's token is its own), the commit also by
`GuardHolds` (the Capsule's StateVersion and status are those of the plan and
the pre-flight check). `touched` is a history variable: the provider really
changed something. `lock` is the Capsule lease, which may expire under a worker
that keeps running. Times and tokens are stamps nothing else of the run refers
to: the code only compares them for equality, or, for a heartbeat, asks whether
it is stale, which is modelled by its owner being gone or (a fault) stalled.

`prepared` is the plan and the Capsule that `createApplyRun` holds across its
awaits, for whichever plan the caller named;
`BeginApplyRun` compares it again in the transaction that inserts the row.

### RunOwner

`record` is the stored record, `alarm` whether an alarm is set. `handler[i]` is
one of two overlapping invocations of `dispatchDueRun`, by the alarm and by
`/drain`; each keeps the record it read across the dispatch and writes back
from it. `reviving` is the record that `start` holds while it reads the ledger.
The clock is reduced to `waited`, the time spent on one observation.

`RepairSweep` is a start by the scheduled sweep of the platform worker. The
sweep lists runs from the ledger and always starts them as a controller retry,
so it may happen at any moment in which the run is in flight and is not counted
among the requests. A start that reaches the object after the run has settled
is an ordinary `StartControllerRetry`.

### PlanRun

`row` is the stored PlanRun with its lease column. A consumer (`worker`), an
API call (`client`) and an ApplyRun (`apply`) each keep the row they `seen`,
because each of them reads the row, awaits, and writes all of it back through
the compare-and-set of `transitionRun`; which columns that comparison covers is
different for each write, and is what the properties are about. The `kind` of
the plan decides its gate: a destroy plan waits in the persisted status
`waiting_approval`; a `gated` plan (delete or replace held back by the action
policy) is stored as succeeded with `requiresApproval`; an update needs no
approval and a drift check can never be applied. `inputs` is the blob of
prepared inputs, deleted in a second step by whoever failed, cancelled or
applied the plan. `ApplyRun` starts from a plan that may be applied; `PlanRun`
is where that is shown to be so.

### InterfaceIntent

`intent[g]` is the obligation that the apply of state generation `g` commits,
`iface[k]` the Interface row of work item `k`, `capsule` the lineage (generation,
InstallConfig, alive) and runtime safety that the write fence compares. A
drainer's `pc` is the store call it is about to make. Each write to an Interface
row is one statement that also requires the intent, its lease and cursor, and the
Capsule's lineage to be current (`Authority`); everything the drainer checked
before may be stale by then. `run` is the lifecycle run in progress with the
observer that marks, reconciles or retires rows one at a time after it; an
observer may be lost (`missed`). `broken` and `verified` are history variables.

### SourceSync

A SourceSyncRun allocates its own snapshot id and archive key, so a run's id
stands for all three; `run[r].snapshot` differs from `r` when the settlement
merged it into the last snapshot of the lane. A consumer (`worker`) is one
invocation of `runQueuedSourceSync`, and holds one claim at a time, so its id
stands for the lease token it wrote. The put of an archive is four steps: the
custody intent under the first lease fence (`PreparePut`), the second fence and
the call (`SendPut`), the object store's write, which happens whatever became of
the caller (`PutLands`), and the read-back that closes the intent
(`ConfirmPut`). `custody[r]` is the one intent the host keeps for a key.
`Observe` and `Settle` are the two halves of `commitSourceSyncSuccess`, before
and after its last await: `seen` is what the first read, and the second compares.
`latest` is not stored: it is what `getLatestSourceSnapshotForLane` answers, the
snapshot with the last fetch time. Consumers stamp that time from their own
clocks, so a later commit need not be later in the lane. `others` counts the
runs of the Capsule that are no syncs: `hasInFlightSourceRunSync` counts them
with the syncs (`Busy`), and defers the retirement, while the host's admission of
a deletion (`DeletionAdmitted`) asks for syncs only. `retirer[t]`
is one call of `retireOwnedSource`, by the sweep or by an API call, with the row
and the keys it holds. `late` is a history variable: keys whose put landed after
their run was over.

The model takes a host with stored-service custody. Without that composition
`runnerStoredServiceBucket` returns the plain bucket, and nothing below about
fences applies.

## Runs

| Run | Question |
| --- | --- |
| `lease` | With members that crash, give up, retry and send late releases, is every told expiry kept, are members excluded, are references bounded, is a live generation stable, and is it a lock? |
| `apply_twice` | One apply delivered to two consumers, up to three faults: one owner, no torn commit, cancellation only of what never ran, captures only of what was committed, terminal rows stay; an admitted apply settles and a pending capture is closed |
| `apply_once` | Two ApplyRuns, of one plan or of two plans over one base, in a Workspace that may be drained: one StateVersion for a plan, one unbroken line of generations, sound replays, a frozen Workspace is quiet |
| `plan` | A plan of each kind with two consumers, two callers and an apply: what is applied was reviewed, an approval behind the persisted gate is final, evidence of an execution and prepared inputs are not lost to a stale writer, a fresh owner is not displaced, and the plan settles |
| `owner` | Is a live record always armed, and never closed while the run is in flight? Does polling one observation end, and does the sweep bring back what was parked? |
| `interface` | Two drainers against applies, destroys, restores and re-adoptions: are cursors and receipts true, is nothing written for a lineage that is not current or after a destroy, do obligations only advance, and does each settle? |
| `source` | Two syncs of a Source whose app is updated and destroyed: can every stored snapshot be read back, is a retired Source clean, and does retirement complete? |
| `apply_billing`, `apply_evidence`, `apply_marker`, `plan_approval`, `owner_requeue` | expected violations, see Findings |

### Bounds

* `lease`: one scope (scopes do not interact: every handler touches one row),
  two joining members of one holder and one exclusive member, four identities
  and two calls in flight, four clock values with lifetimes of one and two
  ticks. That is enough for a lease to expire during a renewal, be granted to
  the other holder, and a release of the first generation to arrive afterwards.
  The proofs do not depend on these bounds.
* `apply_*`: two workers, and one or two applies; `apply_once` has two plans, and
  since applies, workers and plans are alike it uses their symmetry (it checks
  safety only). `MaxFaults` (2 or 3) counts
  crashes, stalls, expiries, unknown commit outcomes and refused captures. Three faults
  allow a stall, a takeover and a crash of the successor in one behaviour.
  `Enforced` says whether the Workspace's billing keeps an apply with a released
  reservation out (`assertApplyBillingAllowed` returns early where billing is
  disabled or the plan skips the reservation): it does in `apply_twice` and in
  the violations, and does not in `apply_once`. No proof depends on it.
  `MaxStamp = 8` exceeds the stamps in use at one time, so that it never
  disables a step. `RetryLimit = 1` is the code's.
* `plan*`: two consumers (an owner and a takeover), two callers, one apply, all
  four kinds, `RetryLimit = 1` as in the code, two faults. `MaxStamp` is not a
  bound on behaviour: `PlanTypeCorrect` proves that it is never reached.
* `owner`: the code's `MaxReentries = 1`, `MaxAttempts = 2` (the code has 3, and
  the run passes with 3 in about twice the time; two attempts already tell a
  retry from an exhaustion); a deadline of two units distinguishes "not yet",
  "at the deadline" and "re-entered"; one start or `/drain` request besides any
  number of sweeps. `owner_requeue` has `MaxAttempts = 3`.
* `interface`: two drainers, two Interfaces, two
  generations and two lifecycle runs, two changes of the InstallConfig (so that
  it can change and change back), one retry of a dead letter and one fault.
  Safety was also checked with two faults (10.9 million states).
* `source`: two syncs, two consumers, one retirement, a ref that resolves to
  either of two commits, and one fault: a crash, a stall, or another run of the
  Capsule in flight while the Source retires. One fault is enough for a
  takeover or a replacement of a sync whose consumer is still writing, and for a
  run that begins between a retirement's check and its last transaction. Safety
  was also checked with two faults (5.6 million states).

Runs over `ApplyRun`, `PlanRun`, `RunOwner`, `InterfaceIntent` and `SourceSync`
do not check deadlock: a run that settled, a parked owner, a Capsule without
obligations and a retired Source are meant to stop.

### Fairness

`ApplyRun!FairSpec` asks weak fairness of each consumer's steps, delivery
included, and of the expiry of a lease nobody renews. The queue redelivers, the
owner polls and the repair sweep re-arms whatever is in flight, and the lease
row of a dead worker does expire. Faults are finitely many. Heartbeats of a
healthy executor and operator actions (cancel, mark failed, drain) are not
assumed to happen. `apply_twice` has no drain: see the hazard at `store.ts:5238`.

`PlanRun!FairSpec` asks the same of a plan's consumers. A stalled owner's
heartbeat does become stale; approve and cancel calls are not assumed.
`PlanSettles` stops at a drain, in which a plan that once started is, by design
(`docs/internal/workspace-management-quiescence.md`), left to block the freeze.

`InterfaceIntent!FairSpec` asks weak fairness of the drainers, which a scheduled
handler calls again and again, of the lapse of a lease whose holder is gone, of a
retry falling due, and of the lifecycle run in progress. Nothing is asked of the
operator, of rebinds, or of new runs.

`SourceSync!FairSpec` asks weak fairness of each consumer, which includes the
delivery of a sync in flight, and of retirement, which the daily sweep tries
again for every Source whose owner is destroyed, and of the end of the Capsule's
other runs, which is what `AdmittedSettles` and `PlanSettles` show of them. That a
put lands, that a stale run is replaced and that the app is destroyed is not
assumed. `RetirementCompletes`
excepts an *orphaned* intent: a sender that died, or was refused at the second
fence, leaves its intent pending, and only the host's reconciliation closes it.

`RunOwner!FairSpec` asks that a set alarm is fired, and that an invocation that
began ends, as the platform guarantees; nothing is asked of start requests.
`PollParks` is about behaviours that end in one unchanging observation and in
which the sweep does not come back. The fairness of the sweep, which a cron
trigger of the platform gives, is a premise of `RepairReaches` only.

## Findings

Five runs show a statement of the repository violated by the code.

* `apply_billing` / `CapturedNotReleased`. `executeApply` releases the billing
  reservation before its fenced failure write (`run_engine.ts:9829`, `9882`),
  whether or not it still owns the run. An executor that stalled and was taken
  over releases the reservation of a mutation its successor committed, which
  `contract/billing.ts:348` says is captured rather than released.
* `apply_evidence` / `NegativeEvidenceSound`. `providerDispatched` of a failed
  run comes from the memory of the executor that fails. After a crash past the
  dispatch, a takeover that fails in its pre-flight records a negative, on
  which `store.ts:9391` relies to say the Capsule cannot have changed.
* `apply_marker` / `MarkedOnce`. On a Capsule already in error a failed
  mutation without state changes none of the columns the commit guard compares,
  so a second executor can commit and take over the marker of the plan, which
  the comment at `run_engine.ts:4935` excludes. `ApplyOnce`, one StateVersion
  for each plan, holds all the same.
* `plan_approval` / `ApprovalStands`. A plan with deletes or replacements that
  needs approval is stored as succeeded, which is also the status an approval
  leaves behind. A second approve, or a cancel, that read the plan before the
  first approval therefore wins its compare-and-set and overwrites it, which the
  comment at `run_engine.ts:6928` excludes. `GateIsFinal` holds where the gate is
  the persisted `waiting_approval`.
* `owner_requeue` / `RequeueAccounted`. The requeue budget is read from a
  record whose poll state the same dispatch has erased, so it starts over at
  each requeue. The engine's retry limit of one bounds it in practice.

One behaviour is worth knowing although no text of the repository excludes it: a
put that has passed its second fence can land after its run was failed by
another and after retirement found nothing under its key. The archive then
outlives its Source. `RetiredIsClean` names exactly this case (`late`) and shows
that there is no other.

## Proofs

`CapsuleLeaseProofs` proves, for all constants that satisfy `LeaseConstants`
(any scopes, members, identities, lifetimes and limits; `NoId` and `NoCall` are
not identities and calls):

| Theorem | States |
| --- | --- |
| `LeaseTypeCorrect` | `Spec => []TypeOK` |
| `LeaseInvariant` | `Spec => []Inv` |
| `LeasePromiseKept` | `Spec => []PromiseKept` |
| `LeaseMutualExclusion` | `Spec => []MutualExclusion` |
| `LeaseImplementsLock` | `Spec => ImplementsScopeLock` |
| `LeaseLiveGenerationStable` | `Spec => LiveGenerationStable` |
| `LeaseRefsBounded` | `Spec => []RefsBounded` |

`PromiseKept` is not inductive: it says nothing of a grant whose reply is still
in the inbox, nor of a release under way that could take the row away. `Inv`
adds, about *handles* (the token, reference and expiry a member holds, or is
about to read):

* `RequestsMatch`: a request its caller still waits for carries its handle;
* `HandlesNamed`, `HandlesUnique`: a handle has a token, and is one member's;
* `ReleasesOwned`: a release of a handle somebody holds is that member's own,
  and the member is in its finally block. Hence a late release cannot hit a
  member at work;
* `GenerationsApart`: no two scopes store one token;
* `Joinability`: with a stored generation, a handle has a reference exactly
  when the row counts references;
* `OnlyJoinersRefer`: only joining members have references;
* `Covered`: every expiry told, or about to be read, is kept by the row.

The step proof has one lemma per action of the object (`InvJoin`, `InvBusy`,
`InvGrant`, `InvRenew`, `InvRelease`) and four for what a member may do to its
own record (`AcquireSendKeeps`, `CarrySendKeeps`, `BecomeIdleKeeps`,
`BecomeHolderKeeps`). `KeepHandles` is the common case of a step that creates
no handle and no generation. Mutual exclusion follows: two members covered by
one row have one token, hence different references, hence both joined. The
refinement then needs only that a step lets at most one member in.
`LeaseRefsBounded` adds that reference sets are finite.

`PlanRunProofs` proves, for any consumers, callers and applies, any subset of
the kinds and any limits (`PlanConstants`):

| Theorem | States |
| --- | --- |
| `PlanTypeCorrect` | `Spec => []TypeOK` |
| `PlanInvariant` | `Spec => []IInv` |
| `PlanAppliedIsReviewed` | `Spec => []AppliedIsReviewed` |
| `PlanInputsKept` | `Spec => []InputsKept` |
| `PlanGateIsFinal` | `Spec => GateIsFinal` |
| `PlanEvidenceKept` | `Spec => EvidenceKept` |
| `PlanLiveOwnerKept` | `Spec => LiveOwnerKept` |

None of these is inductive, because a write depends on what its handler read
earlier. `IInv` says what each copy may still be, as long as its write could
win:

* `FlightInv`: a consumer remembers a plan in flight, unapproved and unapplied,
  and no apply is under way for one;
* `StaleInv`: a heartbeat that was judged stale is not the present one once that
  is fresh, so the claim of a late takeover fails its comparison;
* `BudgetInv`: every stamp but the first is paid for by a retry or a fault, from
  which the bound on stamps follows: types and control cannot be separated here;
* `EvidenceInv`: a plan past its execution has its start time, and so has every
  copy whose writer could win;
* `GateInv`: behind the persisted gate a plan is approved exactly when it has
  passed it, and an apply holds the plan in that state;
* `ReviewInv`: an approval on record, or an admitted apply, had a review;
* `RetireInv`: who is about to delete the inputs has ended the plan.

The actions that write the row do so in fourteen ways. Each is named once
(`Rejects`, `Claims`, `Completes`, `Requeues`, `Approves`, `Cancels`, `Commits`
and so on) with the row it leaves spelled out; lemma `Branches` shows that every
step is one of them or leaves the row alone, and each part of `IInv` has a step
lemma over these branches. The action properties follow from `IInv` by the same
cases.

`RunOwnerProofs` proves, for any limits (`OwnerConstants`), `OwnerTypeCorrect`,
`OwnerNeverStranded` and `OwnerObservedIsSettled`. `NeverStranded` is inductive
given the types: each write of the record sets or clears the alarm with it.
`ObservedIsSettled` is not, because an invocation writes back a record it read
before its dispatch; `ObservedInv` adds that such a copy, if closed, was closed
on a status the ledger has settled for good.

`ApplyRunProofs` proves, for any plans, applies and consumers, any assignment of
consumers to runs and any bounds (`ApplyConstants`):

| Theorem | States |
| --- | --- |
| `Invariance` | `Spec => []IInv` |
| `TypeCorrect` | `Spec => []TypeOK` |
| `OneOwnerHolds` | `Spec => []OneOwner` |
| `CancelledNeverRanHolds` | `Spec => []CancelledNeverRan` |
| `CommitNotTornHolds` | `Spec => []CommitNotTorn` |
| `GenerationChainHolds` | `Spec => []GenerationChain` |
| `ApplyOnceHolds` | `Spec => []ApplyOnce` |
| `SucceededIsLedgeredHolds` | `Spec => []SucceededIsLedgered` |
| `TerminalStaysHolds` | `Spec => TerminalStays` |
| `FrozenIsQuietHolds` | `Spec => FrozenIsQuiet` |

`ApplyOnce` does not rest on the Capsule lease, which may lapse, but on the guard
of the commit: lemma `GuardPinsBase` shows that when the Capsule's current
StateVersion is the base of the plan, the Capsule stands at the plan's
generation and no apply of the plan has committed. It needs `BaseInv`, that a
StateVersion stands exactly one generation above the base of its plan, and
`GenerationChain`, that no StateVersion stands above the Capsule. The other
parts of `IInv` are `AdmitInv` (a row on record was admitted for a planned
plan), `WorkInv` (what a consumer saw on the way to its next write is still so:
the start, the marker, the StateVersion, the capture), `TokenInv` (no two
consumers of a run hold one token, from which `OneOwner` follows), `StartInv`
(a start precedes any touch of the infrastructure and outlasts it), `PendingInv`
and `MarkerInv` (a pending capture is of a committed apply, a marker names an
apply of its own plan) and `FrozenInv`. As for `PlanRun`, every write of a row
is named once and lemma `Branches` shows that a step is one of them.

`SourceSyncProofs` proves, for any runs, consumers, retirements and commits
(`SourceConstants`):

| Theorem | States |
| --- | --- |
| `Invariance` | `Spec => []IInv` |
| `TypeCorrect` | `Spec => []TypeOK` |
| `ArchiveKeptHolds` | `Spec => []ArchiveKept` |
| `RetiredIsCleanHolds` | `Spec => []RetiredIsClean` |

Both properties speak of the stored state only, and both are threatened by
processes that act on what they read earlier. `IInv` adds `SnapInv` (a snapshot
names the archive of a run that succeeded, so its key is out of reach of the
cleanup of failed runs; the stored runs are finitely many, which keeps the
counts numbers), `WorkInv` (a consumer's archive is there with no intent open on
it for as long as its claim lasts, a row it was offered for reuse is there for
as long as the Source is, and a key about to be unlinked is named by no
snapshot), `SenderInv` (one consumer at a time has an intent on a key) and
`RetireInv` (past its check a retirement sees no sync in flight, and an object
that left its page without being deleted was written late).

`InterfaceIntentProofs` proves, for any drainers and any number of items,
generations, runs, rebinds, retries and faults (`IntentConstants`):

| Theorem | States |
| --- | --- |
| `Invariance` | `Spec => []IInv` |
| `TypeCorrect` | `Spec => []TypeOK` |
| `CursorIsTrueHolds` | `Spec => []CursorIsTrue` |
| `DeadLetterIsHonestHolds` | `Spec => []DeadLetterIsHonest` |
| `NothingAfterDestroyHolds` | `Spec => []NothingAfterDestroy` |
| `ObligationAdvancesHolds` | `Spec => ObligationAdvances` |
| `WritesAreCurrentHolds` | `Spec => WritesAreCurrent` |

A drainer reads a row, passes the fence and only then settles, and the Capsule
may move on at any point between. The claim of `WorkInv` is therefore
conditional: an outcome `materialized` means that the item was seen Resolved
from the claim's generation, *or* that the drainer still stands before a fence
and the Capsule has left that generation; a refused create means that the claim
is lost or the Capsule has moved on. Neither comes back (`LostStep`,
`LeftStep`), and `AssertCurrent` reads the lease and then the lineage, so the
second alternative never reaches a settlement (`AssertCurrentStep`,
`SettledIsSeen`). `IntentInv` says that an open intent is of the Capsule's
config, so only the generation and the end of the Capsule can refuse it;
`BrokenInv`, that a broken lineage is completed or left for good, which is why
authority at the write implies a lineage that never broke; `RunInv`, that after
a destroy every row that is not over is on the list of its observer. The steps
are grouped by what they do to an intent (`Taken`, `Settled`, `Ages`, `Fresh`,
`Retires`, `Reopens`) and to the Capsule (`CapsuleStep`); each part of `IInv`
has one step lemma over these groups, and each action one lemma that it belongs
to them and leaves its drainer informed.

The theorems state every invariant and every action property that the passing
runs check, for every value of the constants.

Only model-checked: the liveness properties (`AdmittedSettles`,
`CaptureCompletes`, `PollParks`, `RepairReaches`, `PlanSettles`,
`IntentSettles`, `RetirementCompletes`), because the prover has no rules for
fairness and ENABLED; and the five violations, which are counterexamples.

## Not modelled

* Of runs: the pre-destroy lifecycle of a destroy apply and the uninstall that
  waits for it, install plans, run groups and scheduled drift,
  restore's own admission, operator recovery. `InterfaceIntent` sees applies,
  destroys and restores only by what they commit and mark.
* Of interface materialization: Binding items, user edits, the reconcile that a
  reader triggers at access time, the rebind with a recovery proof, and the
  Capsule-status branch of the lifecycle guard. The drainer's own reconcile does
  not recover rows that an earlier failed apply left Unknown, so the next intent
  dead-letters there, and rows in RunLedgerUnsafe or Terminating are retried
  until a reader reconciles them; `IntentSettles` allows for this by name.
* Of sources: configuration patches and hook secrets, scheduled and webhook
  syncs as callers of their own, several lanes of one Source, the automatic
  update after a settlement, install reservations, archives that several Sources
  share, retirements of more than one page of 32 keys, a sync during a Workspace
  drain, and the host's reconciliation of pending custody intents.
* Of the repair sweep: the half that retires runtime secrets of ended runs.
* The runner object and the container it drives: a dispatch is one step that
  returns, fails or is lost.
* The accounts service, API, dashboard, CLI, providers, release scripts and
  pure document libraries, which are most of the repository's lines and hold no
  protocol of the control plane.

That the SQL and D1 stores are as atomic as the reference store is assumed, and
so is the serial execution of a Durable Object between awaits on anything but
its storage.

## Plan

1. Destroy applies: pre-destroy lifecycle, its evidence, runner usage, and the
   uninstall finalization that waits for them.
2. Install plans with their Source reservations; syncs during a drain.
3. Mint leases of app authorization; run groups.
4. Proofs about the modules that the items above add.
