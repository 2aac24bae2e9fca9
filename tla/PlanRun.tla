------------------------------ MODULE PlanRun -------------------------------
(***************************************************************************)
(* One PlanRun from its admission to its use: the queue consumers that     *)
(* claim, execute, requeue or fail it, the approval gate, cancellation,    *)
(* the drain of its Workspace, and the ApplyRuns admitted against it as    *)
(* far as they read and write the PlanRun row and its prepared inputs.     *)
(*                                                                         *)
(* The kind of a plan decides its gate.  A passed destroy plan parks in    *)
(* waiting_approval; a "gated" plan (a delete or replace the action policy *)
(* holds back) is stored as succeeded with requiresApproval; an "update"   *)
(* needs no approval, and a "drift" check can never be applied.            *)
(*                                                                         *)
(* Every handler reads the row, awaits, and writes the whole row back from *)
(* what it read through the compare-and-set of transitionRun, so a handler *)
(* keeps what it saw.  Start times, heartbeats and lease tokens are stamps *)
(* of one growing counter; 0 is an absent one.  Audit events are kept as   *)
(* the number of retry events, which the store merges and never loses.     *)
(***************************************************************************)
EXTENDS Naturals, FiniteSets

CONSTANTS
    Kinds,       \* the kinds of plan considered
    Workers,     \* consumer invocations of runQueuedPlan
    Clients,     \* callers of approveRun and cancelRun
    Applies,     \* ApplyRuns asked for against the plan
    None,        \* an absent id
    RetryLimit,  \* RUNNER_INFRASTRUCTURE_RETRY_LIMIT
    MaxFaults,   \* bound on crashes and stalls of consumers
    Drains       \* whether the Workspace management may be drained

ASSUME PlanConstants ==
    /\ Kinds \subseteq {"update", "destroy", "gated", "drift"}
    /\ None \notin Clients \cup Applies
    /\ RetryLimit \in Nat
    /\ MaxFaults \in Nat
    /\ Drains \in BOOLEAN

VARIABLES
    kind,        \* the kind of this plan, fixed by its request
    row,         \* the stored PlanRun with its lease column
    inputs,      \* whether the prepared inputs are stored
    fresh,       \* whether the heartbeat of the row is recent
    stamp,       \* the last stamp used
    management,  \* the Workspace management state
    worker,      \* what each consumer remembers
    client,      \* what each API call remembers
    apply,       \* the ApplyRuns and the plan their executor read
    consumed,    \* whether the Capsule moved past the plan's base
    reviewed,    \* whether an approval was ever recorded
    faults       \* faults so far

plan == <<row, inputs, fresh, stamp>>
context == <<kind, consumed, reviewed>>

vars == <<kind, row, inputs, fresh, stamp, management, worker, client, apply,
          consumed, reviewed, faults>>

-----------------------------------------------------------------------------
Statuses == {"queued", "running", "waiting_approval", "succeeded", "failed",
             "cancelled"}

InFlight == {"queued", "running"}

(* A claim uses a stamp, and so does the late heartbeat of a stalled       *)
(* owner; each retry and each fault brings at most one of them.            *)
MaxStamp == 1 + RetryLimit + MaxFaults

PlanRow ==
    [status: Statuses, started: 0 .. MaxStamp, beat: 0 .. MaxStamp,
     lease: 0 .. MaxStamp, retries: 0 .. RetryLimit,
     approval: Clients \cup {None}, appliedBy: Applies \cup {None}]

Queued == [status |-> "queued", started |-> 0, beat |-> 0, lease |-> 0,
           retries |-> 0, approval |-> None, appliedBy |-> None]

WorkerState ==
    [pc: {"idle", "prepare", "claim", "reject", "execute", "retire"},
     seen: PlanRow, token: 0 .. MaxStamp]

IdleWorker == [pc |-> "idle", seen |-> Queued, token |-> 0]

ClientState == [pc: {"idle", "approve", "cancel", "settle", "retire"}, seen: PlanRow]

IdleClient == [pc |-> "idle", seen |-> Queued]

ApplyState ==
    [pc: {"none", "prepared", "queued", "execute", "retire", "done", "failed"},
     seen: PlanRow]

Unapplied == [pc |-> "none", seen |-> Queued]

Init ==
    /\ kind \in Kinds
    /\ row = Queued
    /\ inputs = TRUE
    /\ fresh = FALSE
    /\ stamp = 0
    /\ management = "active"
    /\ worker = [w \in Workers |-> IdleWorker]
    /\ client = [c \in Clients |-> IdleClient]
    /\ apply = [a \in Applies |-> Unapplied]
    /\ consumed = FALSE
    /\ reviewed = FALSE
    /\ faults = 0

-----------------------------------------------------------------------------
(* transitionRun replaces the row by the caller's, except for the merged   *)
(* audit events and, unless the caller sets or clears it, the lease.       *)
Replace(new, lease) == row' = [new EXCEPT !.lease = lease, !.retries = row.retries]

NeedsApproval == kind \in {"destroy", "gated"}

AwaitsApproval(p) ==
    /\ p.appliedBy = None
    /\ p.approval = None
    /\ \/ p.status = "waiting_approval"
       \/ p.status = "succeeded" /\ NeedsApproval

-----------------------------------------------------------------------------
(* The queue consumer, runQueuedPlan.                                      *)

Become(w, pc) == worker' = [worker EXCEPT ![w].pc = pc]

Stop(w) == worker' = [worker EXCEPT ![w] = IdleWorker]

(* Mutant of Deliver: a running plan is always left to its owner.          *)
DeliverQueued(w) ==
    /\ worker[w].pc = "idle"
    /\ row.status = "queued"
    /\ worker' = [worker EXCEPT ![w].pc = "prepare", ![w].seen = row]
    /\ UNCHANGED <<context, plan, management, client, apply, faults>>

(* shouldProcessRun: queued, or running with a stale heartbeat.            *)
Deliver(w) ==
    /\ worker[w].pc = "idle"
    /\ row.status = "queued" \/ (row.status = "running" /\ ~fresh)
    /\ worker' = [worker EXCEPT ![w].pc = "prepare", ![w].seen = row]
    /\ UNCHANGED <<context, plan, management, client, apply, faults>>

(* Inputs, compatibility report, private files, compatibility verdict: the *)
(* row the claim will write stays in memory.                               *)
Prepare(w) ==
    /\ worker[w].pc = "prepare"
    /\ \/ inputs /\ Become(w, "claim")
       \/ Become(w, "reject")
    /\ UNCHANGED <<context, plan, management, client, apply, faults>>

(* Mutant of FailUnclaimed: a lost write retires the inputs as well.       *)
FailUnclaimedRetires(w) ==
    LET seen == worker[w].seen
        won == /\ management = "active"
               /\ row.status = seen.status
               /\ row.beat = seen.beat
               /\ row.started = seen.started
    IN  /\ worker[w].pc = "reject"
        /\ IF won THEN Replace([seen EXCEPT !.status = "failed"], 0) ELSE UNCHANGED row
        /\ Become(w, "retire")
        /\ UNCHANGED <<context, inputs, fresh, stamp, management, client, apply, faults>>

(* failUnclaimedPlanRun: the row is exactly the observed one.              *)
FailUnclaimed(w) ==
    LET seen == worker[w].seen
        won == /\ management = "active"
               /\ row.status = seen.status
               /\ row.beat = seen.beat
               /\ row.started = seen.started
    IN  /\ worker[w].pc = "reject"
        /\ IF won
           THEN Replace([seen EXCEPT !.status = "failed"], 0) /\ Become(w, "retire")
           ELSE UNCHANGED row /\ Stop(w)
        /\ UNCHANGED <<context, inputs, fresh, stamp, management, client, apply, faults>>

(* Mutant of Claim: a takeover does not compare the heartbeat it judged.   *)
ClaimUnfenced(w) ==
    LET seen == worker[w].seen
        won == management = "active" /\ row.status = seen.status
        now == stamp + 1
    IN  /\ worker[w].pc = "claim"
        /\ IF won
           THEN LET running == [seen EXCEPT !.status = "running", !.started = now,
                                            !.beat = now]
                IN  /\ Replace(running, now)
                    /\ fresh' = TRUE
                    /\ stamp' = now
                    /\ worker' = [worker EXCEPT ![w] =
                            [pc |-> "execute", seen |-> running, token |-> now]]
           ELSE UNCHANGED <<row, fresh, stamp>> /\ Stop(w)
        /\ UNCHANGED <<context, inputs, management, client, apply, faults>>

(* markPlanRunning: a takeover compares the stale heartbeat it observed.   *)
Claim(w) ==
    LET seen == worker[w].seen
        won == /\ management = "active"
               /\ row.status = seen.status
               /\ seen.status = "running" => row.beat = seen.beat
        now == stamp + 1
    IN  /\ worker[w].pc = "claim"
        /\ IF won
           THEN LET running == [seen EXCEPT !.status = "running", !.started = now,
                                            !.beat = now]
                IN  /\ Replace(running, now)
                    /\ fresh' = TRUE
                    /\ stamp' = now
                    /\ worker' = [worker EXCEPT ![w] =
                            [pc |-> "execute", seen |-> running, token |-> now]]
           ELSE UNCHANGED <<row, fresh, stamp>> /\ Stop(w)
        /\ UNCHANGED <<context, inputs, management, client, apply, faults>>

Owns(w) == row.status \in InFlight /\ row.lease = worker[w].token

(* The renewal of a consumer that stalled but is still the owner.          *)
Beat(w) ==
    /\ worker[w].pc = "execute"
    /\ row.status = "running"
    /\ row.lease = worker[w].token
    /\ ~fresh
    /\ Replace([worker[w].seen EXCEPT !.beat = stamp + 1], row.lease)
    /\ fresh' = TRUE
    /\ stamp' = stamp + 1
    /\ UNCHANGED <<context, inputs, management, worker, client, apply, faults>>

(* buildCompletedPlanRun.                                                  *)
CompletedStatuses ==
    {"failed", IF kind = "destroy" THEN "waiting_approval" ELSE "succeeded"}

(* persistTerminalRun with the status the policy verdict or an error gave. *)
(* Only the winning writer goes on to retire the inputs.                   *)
Complete(w) ==
    /\ worker[w].pc = "execute"
    /\ \E status \in CompletedStatuses :
         IF Owns(w)
         THEN /\ Replace([worker[w].seen EXCEPT !.status = status], 0)
              /\ IF status = "failed" THEN Become(w, "retire") ELSE Stop(w)
         ELSE UNCHANGED row /\ Stop(w)
    /\ UNCHANGED <<context, inputs, fresh, stamp, management, client, apply, faults>>

(* Mutant of RequeueInfrastructureError: the retries are not limited.      *)
RequeueUnlimited(w) ==
    /\ worker[w].pc = "execute"
    /\ row.status = "running" /\ row.lease = worker[w].token
    /\ row' = [worker[w].seen EXCEPT !.status = "queued", !.beat = 0, !.lease = 0,
                                     !.retries = row.retries + 1]
    /\ Stop(w)
    /\ UNCHANGED <<context, inputs, fresh, stamp, management, client, apply, faults>>

(* A retryable runner infrastructure error of an owner with retries left.  *)
RequeueInfrastructureError(w) ==
    /\ worker[w].pc = "execute"
    /\ row.retries < RetryLimit
    /\ row.status = "running" /\ row.lease = worker[w].token
    /\ row' = [worker[w].seen EXCEPT !.status = "queued", !.beat = 0, !.lease = 0,
                                     !.retries = row.retries + 1]
    /\ Stop(w)
    /\ UNCHANGED <<context, inputs, fresh, stamp, management, client, apply, faults>>

(* afterTerminalRunWon of a failed plan.  A failed delete is cleanup debt. *)
RetireInputs(w) ==
    /\ worker[w].pc = "retire"
    /\ inputs' \in {inputs, FALSE}
    /\ Stop(w)
    /\ UNCHANGED <<context, row, fresh, stamp, management, client, apply, faults>>

Fault == faults < MaxFaults /\ faults' = faults + 1

Crash(w) ==
    /\ worker[w].pc # "idle"
    /\ Fault
    /\ Stop(w)
    /\ UNCHANGED <<context, plan, management, client, apply>>

(* The heartbeat ages past RUN_HEARTBEAT_STALE_MS: nobody renews it, or    *)
(* its owner is stalled.                                                   *)
GoStale ==
    /\ row.status = "running"
    /\ fresh
    /\ fresh' = FALSE
    /\ IF \E w \in Workers : worker[w].pc = "execute" /\ Owns(w)
       THEN Fault ELSE UNCHANGED faults
    /\ UNCHANGED <<context, row, inputs, stamp, management, worker, client, apply>>

(* markRunFailed of the run owner, one read and the CAS of                 *)
(* failUnclaimedPlanRun: never a running or a settled plan.                *)
MarkRunFailed ==
    /\ row.status = "queued"
    /\ management = "active"
    /\ Replace([row EXCEPT !.status = "failed"], 0)
    /\ inputs' \in {inputs, FALSE}
    /\ UNCHANGED <<context, fresh, stamp, management, worker, client, apply, faults>>

-----------------------------------------------------------------------------
(* The control API.                                                        *)

Call(c, pc) == client' = [client EXCEPT ![c] = [pc |-> pc, seen |-> row]]

Return(c) == client' = [client EXCEPT ![c] = IdleClient]

(* approveRun up to its write.                                             *)
ReadApprove(c) ==
    /\ client[c].pc = "idle"
    /\ AwaitsApproval(row)
    /\ Call(c, "approve")
    /\ UNCHANGED <<context, plan, management, worker, apply, faults>>

(* Mutant of Approve: the approval is accepted from either gate status.    *)
ApproveEitherStatus(c) ==
    /\ client[c].pc = "approve"
    /\ IF management = "active" /\ row.status \in {"waiting_approval", "succeeded"}
       THEN /\ Replace([client[c].seen EXCEPT !.status = "succeeded",
                                               !.approval = c], row.lease)
            /\ reviewed' = TRUE
       ELSE UNCHANGED <<row, reviewed>>
    /\ Return(c)
    /\ UNCHANGED <<kind, inputs, fresh, stamp, management, worker, apply, consumed, faults>>

(* The fenced approval: the status is still the one that was read.         *)
Approve(c) ==
    /\ client[c].pc = "approve"
    /\ IF management = "active" /\ row.status = client[c].seen.status
       THEN /\ Replace([client[c].seen EXCEPT !.status = "succeeded",
                                               !.approval = c], row.lease)
            /\ reviewed' = TRUE
       ELSE UNCHANGED <<row, reviewed>>
    /\ Return(c)
    /\ UNCHANGED <<kind, inputs, fresh, stamp, management, worker, apply, consumed, faults>>

(* cancelRun up to its write.                                              *)
ReadCancel(c) ==
    /\ client[c].pc = "idle"
    /\ \/ row.status = "queued" /\ row.started = 0
       \/ AwaitsApproval(row)
    /\ Call(c, "cancel")
    /\ UNCHANGED <<context, plan, management, worker, apply, faults>>

(* Mutant of Cancel: the status alone is compared.                         *)
CancelStatusOnly(c) ==
    LET seen == client[c].seen
        won == row.status = seen.status
    IN  /\ client[c].pc = "cancel"
        /\ IF won
           THEN /\ Replace([seen EXCEPT !.status = "cancelled"], 0)
                /\ client' = [client EXCEPT ![c].pc = "retire"]
           ELSE UNCHANGED row /\ Return(c)
        /\ UNCHANGED <<context, inputs, fresh, stamp, management, worker, apply, faults>>

(* The fenced cancellation: the status is still the one that was read, and *)
(* a queued plan has still not started.                                    *)
Cancel(c) ==
    LET seen == client[c].seen
        won == /\ row.status = seen.status
               /\ seen.status = "queued" => row.started = 0
    IN  /\ client[c].pc = "cancel"
        /\ IF won
           THEN /\ Replace([seen EXCEPT !.status = "cancelled"], 0)
                /\ client' = [client EXCEPT ![c].pc = "retire"]
           ELSE UNCHANGED row /\ Return(c)
        /\ UNCHANGED <<context, inputs, fresh, stamp, management, worker, apply, faults>>

(* settleRunDuringDrain: a cancellation whose write also compares the      *)
(* whole row, the absent lease and the draining management.                *)
ReadSettle(c) ==
    /\ client[c].pc = "idle"
    /\ \/ row.status = "queued" /\ row.started = 0
       \/ AwaitsApproval(row)
    /\ management = "draining"
    /\ Call(c, "settle")
    /\ UNCHANGED <<context, plan, management, worker, apply, faults>>

Settle(c) ==
    LET won == management = "draining" /\ row = client[c].seen /\ row.lease = 0
    IN  /\ client[c].pc = "settle"
        /\ IF won
           THEN /\ Replace([row EXCEPT !.status = "cancelled"], 0)
                /\ client' = [client EXCEPT ![c].pc = "retire"]
           ELSE UNCHANGED row /\ Return(c)
        /\ UNCHANGED <<context, inputs, fresh, stamp, management, worker, apply, faults>>

(* deletePlanRunInputs of a won cancellation.  A delete that throws leaves *)
(* the inputs, and nobody tries again.                                     *)
RetireCancelled(c) ==
    /\ client[c].pc = "retire"
    /\ inputs' \in {inputs, FALSE}
    /\ Return(c)
    /\ UNCHANGED <<context, row, fresh, stamp, management, worker, apply, faults>>

BeginDrain ==
    /\ Drains
    /\ management = "active"
    /\ management' = "draining"
    /\ UNCHANGED <<context, plan, worker, client, apply, faults>>

-----------------------------------------------------------------------------
(* ApplyRuns, as far as they touch the plan; ApplyRun models the rest.     *)

Applying(a, pc) == apply' = [apply EXCEPT ![a].pc = pc]

(* Mutant of PrepareApply: only a destroy plan needs the approval.         *)
PrepareApplyDestroyGate(a) ==
    /\ apply[a].pc = "none"
    /\ kind # "drift"
    /\ row.status = "succeeded"
    /\ row.appliedBy = None
    /\ kind = "destroy" => row.approval # None
    /\ ~consumed
    /\ inputs
    /\ Applying(a, "prepared")
    /\ UNCHANGED <<context, plan, management, worker, client, faults>>

(* createApplyRun up to its insert, also as the automatic continuation of  *)
(* a completed plan.                                                       *)
PrepareApply(a) ==
    /\ apply[a].pc = "none"
    /\ kind # "drift"
    /\ row.status = "succeeded"
    /\ row.appliedBy = None
    /\ NeedsApproval => row.approval # None
    /\ ~consumed
    /\ inputs
    /\ Applying(a, "prepared")
    /\ UNCHANGED <<context, plan, management, worker, client, faults>>

(* beginApplyRun compares the management authority and the Capsule.        *)
BeginApply(a) ==
    /\ apply[a].pc = "prepared"
    /\ Applying(a, IF management = "active" /\ ~consumed THEN "queued" ELSE "none")
    /\ UNCHANGED <<context, plan, management, worker, client, faults>>

(* runQueuedApply reads the plan and, unless it is applied, its inputs.    *)
DeliverApply(a) ==
    /\ apply[a].pc = "queued"
    /\ management = "active"
    /\ apply' = [apply EXCEPT ![a] =
            [pc |-> IF row.appliedBy = None /\ ~inputs THEN "failed" ELSE "execute",
             seen |-> row]]
    /\ UNCHANGED <<context, plan, management, worker, client, faults>>

(* The ledger commit writes the plan its executor read, with the marker,   *)
(* if the Capsule is still at the plan's base.                             *)
CommitApply(a) ==
    /\ apply[a].pc = "execute"
    /\ \/ /\ ~consumed
          /\ row' = [apply[a].seen EXCEPT !.appliedBy = a]
          /\ consumed' = TRUE
          /\ Applying(a, "retire")
       \/ /\ consumed
          /\ Applying(a, "failed")
          /\ UNCHANGED <<row, consumed>>
    /\ UNCHANGED <<kind, inputs, fresh, stamp, management, worker, client, reviewed, faults>>

(* The provider failed or the executor gave up before a commit.            *)
AbandonApply(a) ==
    /\ apply[a].pc \in {"queued", "execute"}
    /\ Applying(a, "failed")
    /\ UNCHANGED <<context, plan, management, worker, client, faults>>

(* The deletion of the inputs after the commit, which may fail.            *)
RetireApplied(a) ==
    /\ apply[a].pc = "retire"
    /\ inputs' \in {inputs, FALSE}
    /\ Applying(a, "done")
    /\ UNCHANGED <<context, row, fresh, stamp, management, worker, client, faults>>

-----------------------------------------------------------------------------
Consumer(w) ==
    \/ Deliver(w)
    \/ Prepare(w)
    \/ FailUnclaimed(w)
    \/ Claim(w)
    \/ Beat(w)
    \/ Complete(w)
    \/ RequeueInfrastructureError(w)
    \/ RetireInputs(w)

Api(c) ==
    \/ ReadApprove(c)
    \/ Approve(c)
    \/ ReadCancel(c)
    \/ Cancel(c)
    \/ ReadSettle(c)
    \/ Settle(c)
    \/ RetireCancelled(c)

Applier(a) ==
    \/ PrepareApply(a)
    \/ BeginApply(a)
    \/ DeliverApply(a)
    \/ CommitApply(a)
    \/ AbandonApply(a)
    \/ RetireApplied(a)

Next ==
    \/ \E w \in Workers : Consumer(w) \/ Crash(w)
    \/ \E c \in Clients : Api(c)
    \/ \E a \in Applies : Applier(a)
    \/ GoStale
    \/ MarkRunFailed
    \/ BeginDrain

Spec == Init /\ [][Next]_vars

(* Redelivery and a live isolate: a consumer keeps taking its steps, and   *)
(* the clock outruns a heartbeat nobody renews.                            *)
FairSpec ==
    /\ Spec
    /\ \A w \in Workers : WF_vars(Consumer(w))
    /\ WF_vars(GoStale /\ UNCHANGED faults)

-----------------------------------------------------------------------------
(* The rows, what the handlers remember and the stamps stay in their sets; *)
(* the retries stay under RUNNER_INFRASTRUCTURE_RETRY_LIMIT.               *)
TypeOK ==
    /\ kind \in Kinds
    /\ row \in PlanRow
    /\ inputs \in BOOLEAN
    /\ fresh \in BOOLEAN
    /\ stamp \in 0 .. MaxStamp
    /\ management \in {"active", "draining"}
    /\ worker \in [Workers -> WorkerState]
    /\ client \in [Clients -> ClientState]
    /\ apply \in [Applies -> ApplyState]
    /\ consumed \in BOOLEAN
    /\ reviewed \in BOOLEAN
    /\ faults \in 0 .. MaxFaults

(* Whatever approve, cancel and apply calls overlap, an ApplyRun that      *)
(* commits was admitted against a reviewed plan if the plan needs review,  *)
(* and, where the gate is a persisted status, leaves the plan succeeded,   *)
(* approved and marked: never cancelled by a call that read it earlier.    *)
AppliedIsReviewed ==
    \A a \in Applies :
        /\ apply[a].pc \in {"queued", "execute", "retire", "done"} =>
             kind # "drift" /\ (NeedsApproval => reviewed)
        /\ apply[a].pc \in {"retire", "done"} /\ kind # "gated" =>
             /\ row.status = "succeeded"
             /\ row.appliedBy = a
             /\ kind = "destroy" => row.approval # None

(* A plan that may still run, be approved or be applied has its prepared   *)
(* inputs: a consumer or a call that lost its write retires nothing.       *)
InputsKept ==
    /\ row.status \in InFlight \cup {"waiting_approval", "succeeded"}
    /\ row.appliedBy = None
    /\ kind # "gated"
    => inputs

(* Approve and cancel exclude each other, and the first approval stands,   *)
(* where the gate is the persisted waiting_approval status.                *)
GateIsFinal ==
    [][row.approval # None /\ kind # "gated" =>
         row'.approval = row.approval /\ row'.status = row.status]_vars

(* The evidence that a plan was executed is never erased: no handler that  *)
(* read the row before the execution writes over it afterwards.            *)
EvidenceKept == [][row.started # 0 => row'.started # 0]_vars

(* A consumer whose heartbeat is recent is not displaced by a takeover     *)
(* that judged an older heartbeat: its lease is kept or given up.          *)
LiveOwnerKept ==
    [][row.status = "running" /\ fresh => row'.lease \in {row.lease, 0}]_vars

(* A queued or running plan settles, unless its Workspace is drained       *)
(* first, where a plan that once started stays a blocker.                  *)
PlanSettles ==
    row.status \in InFlight ~> (row.status \notin InFlight \/ management = "draining")

(* approveRun: "a concurrent double-approve cannot win", for every plan    *)
(* that awaits approval.                                                   *)
ApprovalStands == [][row.approval # None => row'.approval = row.approval]_vars

=============================================================================
