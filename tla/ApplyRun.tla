------------------------------ MODULE ApplyRun ------------------------------
(***************************************************************************)
(* The apply pipeline of the run engine over one Capsule: admission of an  *)
(* ApplyRun against a reviewed PlanRun, the queue consumers that execute   *)
(* it, the atomic ledger commit, billing settlement and the Workspace      *)
(* drain.                                                                  *)
(*                                                                         *)
(* A worker is one consumer invocation of runQueuedApply.  Deliveries are  *)
(* at least once, so several workers may hold the same run; a worker may   *)
(* die between any two of its store calls, and may keep running after its  *)
(* lease or its heartbeat was lost.  The store executes one transitionRun  *)
(* or commitRunState at a time.                                            *)
(*                                                                         *)
(* lock is the write lease of the Capsule at the level CapsuleLease proves *)
(* (a lock that may expire).  A heartbeat time, a start time and a lease   *)
(* token are stamps nothing else of the run refers to; 0 is an absent one. *)
(* Abstracted: evidence digests, credentials, outputs, metrics, activity.  *)
(***************************************************************************)
EXTENDS Integers, FiniteSets

CONSTANTS
    Plans,       \* PlanRuns that succeeded, passed policy and are approved
    Applies,     \* ApplyRun ids
    Workers,     \* consumer invocations
    RunOf,       \* the ApplyRun a consumer is delivered
    None,        \* an absent id
    MaxStamp,    \* bound on the stamps in use at one time
    RetryLimit,  \* RUNNER_INFRASTRUCTURE_RETRY_LIMIT
    MaxFaults,   \* bound on crashes, stalls, expiries and unknown outcomes
    StartStatus, \* the Capsule status an earlier run left behind
    Drains,      \* whether the Workspace is handed over
    Enforced     \* whether a released reservation keeps an apply out

ASSUME ApplyConstants ==
    /\ None \notin Plans
    /\ RunOf \in [Workers -> Applies]
    /\ None \notin Applies
    /\ None \notin Workers
    /\ MaxStamp \in Nat
    /\ RetryLimit \in Nat
    /\ MaxFaults \in Nat
    /\ StartStatus \in {"active", "error"}
    /\ {Drains, Enforced} \subseteq BOOLEAN

VARIABLES
    management,  \* the Workspace management state
    capsule,     \* the Capsule cursors: StateVersion, generation, status
    plan,        \* the base a PlanRun was planned over, and its apply-once marker
    run,         \* the stored ApplyRun rows with their lease column
    generation,  \* the generation of an ApplyRun's StateVersion, 0 for none
    captured,    \* ApplyRuns whose usage the billing host captured
    released,    \* PlanRuns whose reservation the billing host released
    touched,     \* ApplyRuns whose provider really changed something
    prepared,    \* the plan and Capsule snapshot a createApplyRun call holds
    lock,        \* the worker that holds the Capsule write lease
    worker,      \* what each consumer remembers
    faults       \* faults so far

ledger == <<capsule, plan, generation>>
billing == <<captured, released>>
admission == <<management, prepared>>

vars == <<management, capsule, plan, run, generation, captured, released,
          touched, prepared, lock, worker, faults>>

-----------------------------------------------------------------------------
Stamps == 0 .. MaxStamp

CapsuleRow == [version: Applies \cup {None}, gen: Nat, status: {"active", "error"}]

PlanRow ==
    [planned: BOOLEAN, version: Applies \cup {None}, gen: Nat,
     appliedBy: Applies \cup {None}]

(* evidence is providerDispatched of the run's terminal events.            *)
RunRow ==
    [status: {"none", "queued", "running", "succeeded", "failed", "cancelled"},
     started: Stamps, beat: Stamps, lease: Stamps, retries: 0 .. RetryLimit,
     plan: Plans \cup {None}, version: Applies \cup {None},
     evidence: {"none", "no", "yes"}, billing: {"none", "pending", "done"}]

NoRun == [status |-> "none", started |-> 0, beat |-> 0, lease |-> 0, retries |-> 0,
          plan |-> None, version |-> None, evidence |-> "none", billing |-> "none"]

(* What a consumer read before it asked for the Capsule lease.             *)
Snapshot == [status: {"none", "queued", "running"}, started: Stamps, beat: Stamps]

NoSnapshot == [status |-> "none", started |-> 0, beat |-> 0]

WorkerState ==
    [pc: {"idle", "read", "claim", "check", "dispatch", "dispatched", "lifecycle",
          "commit", "ambiguous", "capture", "mark", "settle", "replay", "retry",
          "release", "fail", "exit"},
     seen: Snapshot, token: Stamps, planned: {"none", "active", "error"},
     dispatched: BOOLEAN,
     outcome: {"none", "ok", "lifecycle", "persisted", "unpersisted"}]

Idle == [pc |-> "idle", seen |-> NoSnapshot, token |-> 0, planned |-> "none",
         dispatched |-> FALSE, outcome |-> "none"]

Terminal == {"succeeded", "failed", "cancelled"}

(* The planRunId of an ApplyRun row.                                       *)
PlanOf(a) == run[a].plan

UsedStamps(a) ==
    {run[a].started, run[a].beat, run[a].lease} \cup
    UNION {{worker[w].seen.started, worker[w].seen.beat, worker[w].token} :
             w \in {v \in Workers : RunOf[v] = a}}

FreshStamps(a) == (1 .. MaxStamp) \ UsedStamps(a)

(* Date.now(): any stamp not in use.                                       *)
Fresh(a) == CHOOSE s \in FreshStamps(a) : TRUE

(* Mutant of NewLeaseToken: the run id itself is the fence token.          *)
RunIdToken(a) == 1

(* newId("runlease").                                                      *)
NewLeaseToken(a) == Fresh(a)

Fault == faults < MaxFaults /\ faults' = faults + 1

Go(w, pc) == worker' = [worker EXCEPT ![w].pc = pc]

-----------------------------------------------------------------------------
Init ==
    /\ management = "active"
    /\ capsule = [version |-> None, gen |-> 0, status |-> StartStatus]
    /\ plan = [p \in Plans |-> [planned |-> FALSE, version |-> None, gen |-> 0,
                                appliedBy |-> None]]
    /\ run = [a \in Applies |-> NoRun]
    /\ generation = [a \in Applies |-> 0]
    /\ captured = {}
    /\ released = {}
    /\ touched = {}
    /\ prepared = [a \in Applies |-> {}]
    /\ lock = None
    /\ worker = [w \in Workers |-> Idle]
    /\ faults = 0

-----------------------------------------------------------------------------
(* The control API.                                                        *)

(* A PlanRun pins the StateVersion and the generation it was planned over. *)
CreatePlan(p) ==
    /\ management = "active"
    /\ ~plan[p].planned
    /\ plan' = [plan EXCEPT ![p] = [planned |-> TRUE, version |-> capsule.version,
                                    gen |-> capsule.gen, appliedBy |-> None]]
    /\ UNCHANGED <<management, capsule, run, generation, billing, touched,
                   prepared, lock, worker, faults>>

PlanCurrent(p) == plan[p].version = capsule.version /\ plan[p].gen = capsule.gen

(* createApplyRun up to its last await: the plan is not applied yet, and   *)
(* the Capsule is the one it was planned over.                             *)
PrepareApply(a, p) ==
    /\ management = "active"
    /\ run[a].status = "none"
    /\ prepared[a] = {}
    /\ plan[p].planned
    /\ plan[p].appliedBy = None
    /\ PlanCurrent(p)
    /\ prepared' = [prepared EXCEPT ![a] = {[plan |-> p, capsule |-> capsule]}]
    /\ UNCHANGED <<management, ledger, run, billing, touched, lock, worker, faults>>

(* beginApplyRun compares the authority and the snapshot once more, in the *)
(* transaction that inserts the row; a conflict inserts nothing.           *)
BeginApplyRun(a) ==
    /\ \E held \in prepared[a] :
         run' = IF management = "active" /\ capsule = held.capsule
                THEN [run EXCEPT ![a].status = "queued", ![a].plan = held.plan]
                ELSE run
    /\ prepared' = [prepared EXCEPT ![a] = {}]
    /\ UNCHANGED <<management, ledger, billing, touched, lock, worker, faults>>

(* Mutant of CancelApply: a queued row counts as one that never started.   *)
CancelApplyQueued(a) ==
    /\ run[a].status = "queued"
    /\ run' = [run EXCEPT ![a].status = "cancelled", ![a].lease = 0]
    /\ UNCHANGED <<admission, ledger, billing, touched, lock, worker, faults>>

(* cancelRun and settleRunDuringDrain.  The write repeats every condition  *)
(* of the read, so the two are one step.                                   *)
CancelApply(a) ==
    /\ run[a].status = "queued"
    /\ run[a].started = 0
    /\ run' = [run EXCEPT ![a].status = "cancelled", ![a].lease = 0]
    /\ UNCHANGED <<admission, ledger, billing, touched, lock, worker, faults>>

(* The CAS of a failure whose writer claimed nothing: the row is exactly   *)
(* the observed one and the Workspace is active.                           *)
PersistUnclaimedFailure(a, seen) ==
    run' = IF /\ management = "active"
              /\ run[a].status = seen.status
              /\ run[a].started = seen.started
              /\ run[a].beat = seen.beat
           THEN [run EXCEPT ![a].status = "failed", ![a].lease = 0,
                            ![a].evidence = "no"]
           ELSE run

(* markRunFailed of the run owner: an exhausted queued run, never a        *)
(* running one.                                                            *)
MarkRunFailed(a) ==
    /\ run[a].status = "queued"
    /\ PersistUnclaimedFailure(a, run[a])
    /\ UNCHANGED <<admission, ledger, billing, touched, lock, worker, faults>>

BeginWorkspaceDraining ==
    /\ Drains
    /\ management = "active"
    /\ management' = "draining"
    /\ UNCHANGED <<prepared, ledger, run, billing, touched, lock, worker, faults>>

(* Mutant of RunBlocks: a terminal row is quiet.                           *)
RunBlocksInFlight(a) ==
    /\ run[a].status # "none"
    /\ run[a].status \notin Terminal \/ run[a].lease # 0

(* runBlocksWorkspaceManagement for an ApplyRun row.                       *)
RunBlocks(a) ==
    /\ run[a].status # "none"
    /\ \/ run[a].status \notin Terminal
       \/ run[a].lease # 0
       \/ run[a].billing = "pending"
       \/ run[a].status = "failed" /\ (run[a].evidence # "no" \/ run[a].version # None)
       \/ run[a].status = "cancelled" /\ (run[a].started # 0 \/ run[a].beat # 0)

FreezeWorkspace ==
    /\ management = "draining"
    /\ \A a \in Applies : ~RunBlocks(a)
    /\ management' = "frozen"
    /\ UNCHANGED <<prepared, ledger, run, billing, touched, lock, worker, faults>>

-----------------------------------------------------------------------------
(* A consumer, from delivery to its claim.                                 *)

(* A sibling that is still alive owns the running row.                     *)
OwnerAlive(a) ==
    \E w \in Workers : RunOf[w] = a /\ worker[w].token = run[a].lease

(* Mutant of Deliver: a running row is left to whoever claimed it.         *)
DeliverQueued(w) ==
    LET a == RunOf[w]
    IN /\ worker[w].pc = "idle"
       /\ run[a].status = "queued"
       /\ worker' = [worker EXCEPT ![w].pc = "read",
            ![w].seen = [status |-> run[a].status, started |-> run[a].started,
                         beat |-> run[a].beat]]
       /\ UNCHANGED <<admission, ledger, run, billing, touched, lock, faults>>

(* shouldProcessRun: a queued row, or a running one whose heartbeat is     *)
(* stale: its owner died, or (a fault) stalled past the stale window.      *)
Deliver(w) ==
    LET a == RunOf[w]
    IN /\ worker[w].pc = "idle"
       /\ \/ run[a].status = "queued" /\ UNCHANGED faults
          \/ run[a].status = "running" /\ ~OwnerAlive(a) /\ UNCHANGED faults
          \/ run[a].status = "running" /\ OwnerAlive(a) /\ Fault
       /\ worker' = [worker EXCEPT ![w].pc = "read",
            ![w].seen = [status |-> run[a].status, started |-> run[a].started,
                         beat |-> run[a].beat]]
       /\ UNCHANGED <<admission, ledger, run, billing, touched, lock>>

(* Mutant of DeliverPending: only a succeeded run is finalized.            *)
DeliverPendingSucceeded(w) ==
    /\ worker[w].pc = "idle"
    /\ run[RunOf[w]].status = "succeeded"
    /\ run[RunOf[w]].billing = "pending"
    /\ Go(w, "capture")
    /\ UNCHANGED <<admission, ledger, run, billing, touched, lock, faults>>

(* A terminal row with a pending capture is only finalized.                *)
DeliverPending(w) ==
    /\ worker[w].pc = "idle"
    /\ run[RunOf[w]].status \in {"succeeded", "failed"}
    /\ run[RunOf[w]].billing = "pending"
    /\ Go(w, "capture")
    /\ UNCHANGED <<admission, ledger, run, billing, touched, lock, faults>>

(* The retained plan inputs or the private file grants cannot be used.     *)
FailUnclaimedApplyRun(w) ==
    /\ worker[w].pc = "read"
    /\ PersistUnclaimedFailure(RunOf[w], worker[w].seen)
    /\ worker' = [worker EXCEPT ![w] = Idle]
    /\ UNCHANGED <<admission, ledger, billing, touched, lock, faults>>

(* withCapsuleLease: busy sends the delivery back to the queue.            *)
AcquireLease(w) ==
    /\ worker[w].pc = "read"
    /\ IF lock = None
       THEN lock' = w /\ Go(w, "claim")
       ELSE lock' = lock /\ worker' = [worker EXCEPT ![w] = Idle]
    /\ UNCHANGED <<admission, ledger, run, billing, touched, faults>>

(* The lease of a dead worker runs out; so does, as a fault, the lease of  *)
(* one that cannot renew in time.                                          *)
ExpireLease ==
    /\ lock # None
    /\ \/ worker[lock].pc \in {"idle", "read"} /\ UNCHANGED faults
       \/ worker[lock].pc \notin {"idle", "read"} /\ Fault
    /\ lock' = None
    /\ UNCHANGED <<admission, ledger, run, billing, touched, worker>>

(* The CAS of claimRunRunning: the status the consumer read and, for a     *)
(* takeover, the heartbeat it found stale.                                 *)
ClaimMatches(a, seen) ==
    /\ management = "active"
    /\ run[a].status = seen.status
    /\ seen.status = "running" => run[a].beat = seen.beat

(* A loser does not dispatch and returns the winner's row.                 *)
Claim(w) ==
    LET a == RunOf[w]
        s == Fresh(a)
        token == NewLeaseToken(a)
        won == ClaimMatches(a, worker[w].seen)
    IN /\ worker[w].pc = "claim"
       /\ FreshStamps(a) # {}
       /\ run' = IF won THEN [run EXCEPT ![a].status = "running", ![a].started = s,
                                         ![a].beat = s, ![a].lease = token]
                 ELSE run
       /\ worker' = [worker EXCEPT ![w].pc = IF won THEN "check" ELSE "exit",
                                   ![w].seen = NoSnapshot,
                                   ![w].token = IF won THEN token ELSE 0]
       /\ UNCHANGED <<admission, ledger, billing, touched, lock, faults>>

-----------------------------------------------------------------------------
(* Execution under the claim.                                              *)

(* The fence of every later write: the row still carries the token.        *)
Owns(w) == run[RunOf[w]].status = "running" /\ run[RunOf[w]].lease = worker[w].token

(* assertApplyPreconditions: an applied plan is a replay, a stale plan     *)
(* fails, a released reservation fails where billing is enforced and       *)
(* passes where it is not, and the Capsule status seen here becomes the    *)
(* commit guard.                                                           *)
CheckPreconditions(w) ==
    LET p == PlanOf(RunOf[w])
    IN /\ worker[w].pc = "check"
       /\ IF plan[p].appliedBy # None THEN Go(w, "replay")
          ELSE IF PlanCurrent(p) /\ (Enforced => p \notin released)
               THEN worker' = [worker EXCEPT ![w].pc = "dispatch",
                                             ![w].planned = capsule.status]
               ELSE Go(w, "release")
       /\ UNCHANGED <<admission, ledger, run, billing, touched, lock, faults>>

(* The checks after those, and the credential mint: any may refuse.        *)
PreflightFails(w) ==
    /\ worker[w].pc = "dispatch"
    /\ Go(w, "release")
    /\ UNCHANGED <<admission, ledger, run, billing, touched, lock, faults>>

Beat(a) == run' = [run EXCEPT ![a].beat = Fresh(a)]

(* One tick of withRunRenewal: the fenced heartbeat, then the lease.       *)
Renewed(w) ==
    /\ Owns(w)
    /\ FreshStamps(RunOf[w]) # {}
    /\ Beat(RunOf[w])
    /\ lock = w

(* A tick that finds a fence lost, or cannot reach it, aborts the work.    *)
(* The heartbeat is written before the lease is renewed.                   *)
RenewalFails(w) ==
    /\ worker[w].pc \in {"dispatch", "dispatched", "lifecycle"}
    /\ \/ ~Owns(w) /\ UNCHANGED <<run, faults>>
       \/ Owns(w) /\ lock # w /\ FreshStamps(RunOf[w]) # {} /\ Beat(RunOf[w])
          /\ UNCHANGED faults
       \/ Owns(w) /\ lock = w /\ UNCHANGED run /\ Fault
    /\ Go(w, "release")
    /\ touched' \in IF worker[w].pc = "dispatched"
                    THEN {touched, touched \cup {RunOf[w]}} ELSE {touched}
    /\ UNCHANGED <<admission, ledger, billing, lock>>

(* The tick before the dispatch, then onDispatch.                          *)
DispatchApply(w) ==
    /\ worker[w].pc = "dispatch"
    /\ Renewed(w)
    /\ worker' = [worker EXCEPT ![w].pc = "dispatched", ![w].dispatched = TRUE]
    /\ UNCHANGED <<admission, ledger, billing, touched, lock, faults>>

(* The timer's tick while the runner works.                                *)
RenewRun(w) ==
    /\ worker[w].pc = "dispatched"
    /\ Renewed(w)
    /\ UNCHANGED <<admission, ledger, billing, touched, lock, worker, faults>>

(* The runner applied, or a provider failed with or without a state it     *)
(* could persist; then the tick after the work.                            *)
RunnerReturns(w) ==
    /\ worker[w].pc = "dispatched"
    /\ Renewed(w)
    /\ \E o \in {"ok", "persisted", "unpersisted"} :
         worker' = [worker EXCEPT ![w].outcome = o,
                      ![w].pc = IF o = "ok" THEN "lifecycle" ELSE "commit"]
    /\ touched' = touched \cup {RunOf[w]}
    /\ UNCHANGED <<admission, ledger, billing, lock, faults>>

(* The runner threw: a safe infrastructure error may be retried, any other *)
(* is a failure.  Either may come after the provider changed something.    *)
RunnerThrows(w) ==
    /\ worker[w].pc = "dispatched"
    /\ Renewed(w)
    /\ \E pc \in {"retry", "release"} : Go(w, pc)
    /\ touched' \in {touched, touched \cup {RunOf[w]}}
    /\ UNCHANGED <<admission, ledger, billing, lock, faults>>

(* The Plan-pinned post-apply actions, between two ticks of their own.     *)
RunLifecycle(w) ==
    /\ worker[w].pc = "lifecycle"
    /\ Renewed(w)
    /\ \E o \in {"ok", "lifecycle"} :
         worker' = [worker EXCEPT ![w].pc = "commit", ![w].outcome = o]
    /\ UNCHANGED <<admission, ledger, billing, touched, lock, faults>>

-----------------------------------------------------------------------------
(* The atomic ledger commit.                                               *)

(* Mutant of GuardHolds: the StateVersion cursor is not compared.          *)
GuardHoldsStatus(w) == capsule.status = worker[w].planned

(* The guard of the Capsule patch.                                         *)
GuardHolds(w) ==
    /\ capsule.version = plan[PlanOf(RunOf[w])].version
    /\ capsule.status = worker[w].planned

(* The terminal run, the StateVersion, the apply-once marker, the Capsule  *)
(* cursors and the billing marker land in one unit.                        *)
CommitRunState(w) ==
    LET a == RunOf[w]
        p == PlanOf(a)
        o == worker[w].outcome
        stateful == o # "unpersisted"
    IN /\ run' = [run EXCEPT
                    ![a].status = IF o = "ok" THEN "succeeded" ELSE "failed",
                    ![a].lease = 0,
                    ![a].version = IF stateful THEN a ELSE run[a].version,
                    ![a].evidence = IF o = "ok" THEN run[a].evidence ELSE "yes",
                    ![a].billing = IF o \in {"ok", "lifecycle"} THEN "pending"
                                    ELSE run[a].billing]
       /\ plan' = [plan EXCEPT ![p].appliedBy = a]
       /\ capsule' = [version |-> IF stateful THEN a ELSE capsule.version,
                      gen |-> IF stateful THEN plan[p].gen + 1 ELSE capsule.gen,
                      status |-> IF o = "ok" THEN "active" ELSE "error"]
       /\ generation' = IF stateful THEN [generation EXCEPT ![a] = plan[p].gen + 1]
                        ELSE generation

AfterCommit(w) == IF worker[w].outcome \in {"ok", "lifecycle"} THEN "capture" ELSE "settle"

CommitLedger(w) ==
    /\ worker[w].pc = "commit"
    /\ Owns(w)
    /\ GuardHolds(w)
    /\ CommitRunState(w)
    /\ Go(w, AfterCommit(w))
    /\ UNCHANGED <<admission, billing, touched, lock, faults>>

(* The token is gone: a sibling owns the run and settles it.               *)
CommitLeaseLost(w) ==
    /\ worker[w].pc = "commit"
    /\ ~Owns(w)
    /\ Go(w, "exit")
    /\ UNCHANGED <<admission, ledger, run, billing, touched, lock, faults>>

(* CapsuleStateVersionGuardConflict.                                       *)
CommitConflict(w) ==
    /\ worker[w].pc = "commit"
    /\ Owns(w)
    /\ ~GuardHolds(w)
    /\ Go(w, "release")
    /\ UNCHANGED <<admission, ledger, run, billing, touched, lock, faults>>

(* ArtifactLedgerTailAmbiguousError: the commit threw, and may have landed. *)
CommitAmbiguous(w) ==
    /\ worker[w].pc = "commit"
    /\ Fault
    /\ \/ Owns(w) /\ GuardHolds(w) /\ CommitRunState(w)
       \/ UNCHANGED <<ledger, run>>
    /\ Go(w, "ambiguous")
    /\ UNCHANGED <<admission, billing, touched, lock>>

(* Mutant of RequeueAfterAmbiguous: the requeue does not compare the row.  *)
RequeueAfterAmbiguousBlind(w) ==
    LET a == RunOf[w]
    IN /\ worker[w].pc = "ambiguous"
       /\ run' = [run EXCEPT ![a].status = "queued", ![a].lease = 0, ![a].beat = 0]
       /\ Go(w, "exit")
       /\ UNCHANGED <<admission, ledger, billing, touched, lock, faults>>

(* The row is queued again if the token is still there; if the commit did  *)
(* land, its pending capture is finalized.                                 *)
RequeueAfterAmbiguous(w) ==
    LET a == RunOf[w]
    IN /\ worker[w].pc = "ambiguous"
       /\ run' = IF Owns(w)
                 THEN [run EXCEPT ![a].status = "queued", ![a].lease = 0, ![a].beat = 0]
                 ELSE run
       /\ Go(w, IF run[a].status \in Terminal /\ run[a].billing = "pending"
                THEN "capture" ELSE "exit")
       /\ UNCHANGED <<admission, ledger, billing, touched, lock, faults>>

-----------------------------------------------------------------------------
(* Settlement.                                                             *)

CaptureBilling(w) ==
    /\ worker[w].pc = "capture"
    /\ captured' = captured \cup {RunOf[w]}
    /\ Go(w, "mark")
    /\ UNCHANGED <<admission, ledger, run, released, touched, lock, faults>>

(* The host refused or timed out: the durable marker stays pending.        *)
CaptureDeferred(w) ==
    /\ worker[w].pc = "capture"
    /\ Fault
    /\ Go(w, "exit")
    /\ UNCHANGED <<admission, ledger, run, billing, touched, lock>>

(* The completed marker, written over exactly the row that was pending: a  *)
(* terminal row changes in its marker only, so the marker stands for it.   *)
MarkCaptured(w) ==
    LET a == RunOf[w]
    IN /\ worker[w].pc = "mark"
       /\ run' = IF run[a].billing = "pending" THEN [run EXCEPT ![a].billing = "done"]
                 ELSE run
       /\ Go(w, "exit")
       /\ UNCHANGED <<admission, ledger, billing, touched, lock, faults>>

(* completeFailedProviderMutation.                                         *)
SettleFailedMutation(w) ==
    /\ worker[w].pc = "settle"
    /\ released' = released \cup {PlanOf(RunOf[w])}
    /\ Go(w, "exit")
    /\ UNCHANGED <<admission, ledger, run, captured, touched, lock, faults>>

(* Mutant of CompleteReplay: the marked run is assumed to have succeeded.  *)
CompleteReplayAssumed(w) ==
    LET a == RunOf[w]
        existing == run[plan[PlanOf(a)].appliedBy]
    IN /\ worker[w].pc = "replay"
       /\ run' = IF ~Owns(w) THEN run
                 ELSE [run EXCEPT ![a].status = "succeeded", ![a].lease = 0,
                                  ![a].version = existing.version]
       /\ Go(w, "exit")
       /\ UNCHANGED <<admission, ledger, billing, touched, lock, faults>>

(* completeApplyRunAsIdempotentReplay: the run takes over the result of    *)
(* the one that applied the plan, or fails without dispatch evidence.      *)
CompleteReplay(w) ==
    LET a == RunOf[w]
        existing == run[plan[PlanOf(a)].appliedBy]
    IN /\ worker[w].pc = "replay"
       /\ run' = IF ~Owns(w) THEN run
                 ELSE IF existing.status = "succeeded"
                 THEN [run EXCEPT ![a].status = "succeeded", ![a].lease = 0,
                                  ![a].version = existing.version]
                 ELSE [run EXCEPT ![a].status = "failed", ![a].lease = 0,
                                  ![a].evidence = "no"]
       /\ Go(w, "exit")
       /\ UNCHANGED <<admission, ledger, billing, touched, lock, faults>>

(* Mutant of RequeueAfterInfrastructureError: the limit is not compared.   *)
RequeueUnlimited(w) ==
    LET a == RunOf[w]
    IN /\ worker[w].pc = "retry"
       /\ IF Owns(w)
          THEN /\ run' = [run EXCEPT ![a].status = "queued", ![a].lease = 0,
                                     ![a].beat = 0,
                                     ![a].retries = run[a].retries + 1]
               /\ Go(w, "exit")
          ELSE run' = run /\ Go(w, "release")
       /\ UNCHANGED <<admission, ledger, billing, touched, lock, faults>>

(* A safe infrastructure error: queued again up to the limit, unless the   *)
(* token is gone.                                                          *)
RequeueAfterInfrastructureError(w) ==
    LET a == RunOf[w]
    IN /\ worker[w].pc = "retry"
       /\ IF Owns(w) /\ run[a].retries < RetryLimit
          THEN /\ run' = [run EXCEPT ![a].status = "queued", ![a].lease = 0,
                                     ![a].beat = 0,
                                     ![a].retries = run[a].retries + 1]
               /\ Go(w, "exit")
          ELSE run' = run /\ Go(w, "release")
       /\ UNCHANGED <<admission, ledger, billing, touched, lock, faults>>

(* releaseApplyBilling precedes the failure write and is not fenced.       *)
ReleaseBilling(w) ==
    /\ worker[w].pc = "release"
    /\ released' = released \cup {PlanOf(RunOf[w])}
    /\ Go(w, "fail")
    /\ UNCHANGED <<admission, ledger, run, captured, touched, lock, faults>>

(* Mutant of FailApplyRun: the failure is written whoever owns the row.    *)
FailApplyRunUnfenced(w) ==
    LET a == RunOf[w]
    IN /\ worker[w].pc = "fail"
       /\ run' = [run EXCEPT ![a].status = "failed", ![a].lease = 0,
                             ![a].evidence = IF worker[w].dispatched THEN "yes" ELSE "no"]
       /\ Go(w, "exit")
       /\ UNCHANGED <<admission, ledger, billing, touched, lock, faults>>

FailApplyRun(w) ==
    LET a == RunOf[w]
    IN /\ worker[w].pc = "fail"
       /\ run' = IF Owns(w)
                 THEN [run EXCEPT ![a].status = "failed", ![a].lease = 0,
                         ![a].evidence = IF worker[w].dispatched THEN "yes" ELSE "no"]
                 ELSE run
       /\ Go(w, "exit")
       /\ UNCHANGED <<admission, ledger, billing, touched, lock, faults>>

(* The consumer returns and withScopedLease gives the lease back.          *)
Exit(w) ==
    /\ worker[w].pc = "exit"
    /\ worker' = [worker EXCEPT ![w] = Idle]
    /\ lock' = IF lock = w THEN None ELSE lock
    /\ UNCHANGED <<admission, ledger, run, billing, touched, faults>>

(* The isolate dies.  A dispatched provider may have worked meanwhile.     *)
Crash(w) ==
    /\ worker[w].pc # "idle"
    /\ Fault
    /\ worker' = [worker EXCEPT ![w] = Idle]
    /\ touched' \in IF worker[w].pc = "dispatched"
                    THEN {touched, touched \cup {RunOf[w]}} ELSE {touched}
    /\ UNCHANGED <<admission, ledger, run, billing, lock>>

-----------------------------------------------------------------------------
Api(a) ==
    \/ \E p \in Plans : PrepareApply(a, p)
    \/ BeginApplyRun(a) \/ CancelApply(a) \/ MarkRunFailed(a)

Consumer(w) ==
    \/ Deliver(w) \/ DeliverPending(w) \/ FailUnclaimedApplyRun(w) \/ AcquireLease(w)
    \/ Claim(w) \/ CheckPreconditions(w) \/ PreflightFails(w) \/ RenewalFails(w)
    \/ DispatchApply(w) \/ RunnerReturns(w) \/ RunnerThrows(w) \/ RunLifecycle(w)
    \/ CommitLedger(w) \/ CommitLeaseLost(w) \/ CommitConflict(w)
    \/ RequeueAfterAmbiguous(w) \/ CaptureBilling(w) \/ MarkCaptured(w)
    \/ SettleFailedMutation(w) \/ CompleteReplay(w)
    \/ RequeueAfterInfrastructureError(w) \/ ReleaseBilling(w) \/ FailApplyRun(w)
    \/ Exit(w)

Trouble(w) == RenewRun(w) \/ CommitAmbiguous(w) \/ CaptureDeferred(w) \/ Crash(w)

Next ==
    \/ \E p \in Plans : CreatePlan(p)
    \/ \E a \in Applies : Api(a)
    \/ \E w \in Workers : Consumer(w) \/ Trouble(w)
    \/ BeginWorkspaceDraining
    \/ FreezeWorkspace
    \/ ExpireLease

Spec == Init /\ [][Next]_vars

Progress == \A w \in Workers : WF_vars(Consumer(w))

(* A queue and a recovery sweep deliver every in-flight or pending run     *)
(* again, a consumer that does not die takes its next step, and a lease    *)
(* nobody renews runs out.  Crashes and stalls are bounded by MaxFaults.   *)
FairSpec == Spec /\ Progress /\ WF_vars(ExpireLease)

-----------------------------------------------------------------------------
(* Properties.                                                             *)

(* The shapes of the stored rows; retries never pass the runner            *)
(* infrastructure limit and no stamp passes its bound.                     *)
TypeOK ==
    /\ management \in {"active", "draining", "frozen"}
    /\ capsule \in CapsuleRow
    /\ plan \in [Plans -> PlanRow]
    /\ run \in [Applies -> RunRow]
    /\ generation \in [Applies -> Nat]
    /\ captured \subseteq Applies
    /\ released \subseteq Plans
    /\ touched \subseteq Applies
    /\ prepared \in [Applies -> SUBSET [plan: Plans, capsule: CapsuleRow]]
    /\ lock \in Workers \cup {None}
    /\ worker \in [Workers -> WorkerState]
    /\ faults \in 0 .. MaxFaults

Committed == {a \in Applies : generation[a] # 0}

(* State generations form one unbroken line: every committed StateVersion  *)
(* has a generation of its own, none is skipped, and the Capsule cursor    *)
(* stands on the last one, whichever stale executors tried to commit.      *)
GenerationChain ==
    /\ {generation[a] : a \in Committed} = 1 .. capsule.gen
    /\ \A a, b \in Committed : generation[a] = generation[b] => a = b
    /\ IF capsule.gen = 0 THEN capsule.version = None
       ELSE capsule.version \in Committed /\ generation[capsule.version] = capsule.gen

(* Two ApplyRuns admitted for one reviewed plan commit one StateVersion.   *)
ApplyOnce ==
    \A a, b \in Committed : PlanOf(a) = PlanOf(b) => a = b

(* The ledger commit is never torn: a StateVersion comes with its terminal *)
(* run and with the plan's apply-once marker, the marker names a run that  *)
(* is over, usage is captured for committed mutations only, and a billing  *)
(* marker is closed only after the capture.                                *)
CommitNotTorn ==
    /\ \A a \in Committed :
         /\ run[a].status \in {"succeeded", "failed"}
         /\ run[a].version = a
         /\ plan[PlanOf(a)].appliedBy = a
    /\ \A p \in Plans :
         plan[p].appliedBy # None => run[plan[p].appliedBy].status \in Terminal
    /\ captured \subseteq Committed
    /\ \A a \in Applies : run[a].billing = "done" => a \in captured

(* However often a run is delivered, stalled and taken over, one consumer  *)
(* at a time passes the fence of its writes.                               *)
OneOwner ==
    \A v, w \in Workers :
        RunOf[v] = RunOf[w] /\ Owns(v) /\ Owns(w)
        /\ worker[v].token # 0 /\ worker[w].token # 0 => v = w

(* A cancelled apply was never started, so it changed nothing.             *)
CancelledNeverRan ==
    \A a \in Applies :
        run[a].status = "cancelled" => run[a].started = 0 /\ a \notin touched

(* A run reported as succeeded, a replay included, names a StateVersion    *)
(* that a succeeded apply of the same plan committed.                      *)
SucceededIsLedgered ==
    \A a \in Applies :
        run[a].status = "succeeded" =>
            /\ run[a].version \in Committed
            /\ PlanOf(run[a].version) = PlanOf(a)
            /\ run[run[a].version].status = "succeeded"

(* No late failure, cancellation, requeue or takeover rewrites a terminal  *)
(* run: only its billing marker still moves.                               *)
TerminalStep ==
    \A a \in Applies :
        run[a].status \in Terminal =>
            [run'[a] EXCEPT !.billing = run[a].billing] = run[a]

TerminalStays == [][TerminalStep]_vars

(* A frozen Workspace can be handed over: no consumer, however late,       *)
(* changes a run row, a plan or the Capsule any more.                      *)
FrozenStep == management = "frozen" => UNCHANGED <<management, ledger, run>>

FrozenIsQuiet == [][FrozenStep]_vars

(* An admitted apply reaches a terminal status.                            *)
AdmittedSettles ==
    \A a \in Applies :
        run[a].status \in {"queued", "running"} ~> run[a].status \in Terminal

(* A committed mutation's pending capture is closed.                       *)
CaptureCompletes ==
    \A a \in Applies : run[a].billing = "pending" ~> run[a].billing = "done"

(* contract/billing.ts: a committed provider mutation is captured rather   *)
(* than released.                                                          *)
CapturedNotReleased ==
    \A a \in Applies : run[a].billing # "none" => PlanOf(a) \notin released

(* store.ts: a failed run without dispatch evidence cannot have changed    *)
(* the Capsule.                                                            *)
NegativeEvidenceSound ==
    \A a \in Applies :
        run[a].status = "failed" /\ run[a].evidence = "no" => a \notin touched

(* createApplyRun: a second worker's dispatch becomes a replay before it   *)
(* commits, so a plan's apply-once marker is set once.                     *)
MarkerStep ==
    \A p \in Plans :
        plan[p].appliedBy # None => plan'[p].appliedBy = plan[p].appliedBy

MarkedOnce == [][MarkerStep]_vars
=============================================================================
