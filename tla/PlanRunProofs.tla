---------------------------- MODULE PlanRunProofs ---------------------------
(***************************************************************************)
(* Safety of a PlanRun for every set of consumers, callers and applies and *)
(* every retry and fault bound.                                            *)
(***************************************************************************)
EXTENDS PlanRun, TLAPS

-----------------------------------------------------------------------------
(* The inductive invariant.                                                *)

(* Before the claim a consumer remembers a plan in flight, after it a      *)
(* running one, and no plan in flight is approved or applied.              *)
Untouched(p) == p.approval = None /\ p.appliedBy = None

FlightInv ==
    /\ row.status \in InFlight => Untouched(row)
    /\ \A w \in Workers :
         /\ worker[w].pc \in {"prepare", "claim", "reject"} =>
              worker[w].seen.status \in InFlight /\ Untouched(worker[w].seen)
         /\ worker[w].pc = "execute" =>
              worker[w].seen.status = "running" /\ Untouched(worker[w].seen)
    /\ \A c \in Clients :
         client[c].pc \in {"approve", "cancel", "settle"} => Untouched(client[c].seen)
    /\ \A a \in Applies :
         apply[a].pc \in {"prepared", "queued"} => row.status \notin InFlight
    /\ \A a \in Applies :
         apply[a].pc = "execute" =>
           row.status \notin InFlight /\ apply[a].seen.status \notin InFlight

(* A consumer that judged a heartbeat stale does not hold the present one  *)
(* once that is fresh.                                                     *)
StaleInv ==
    /\ row.status \in InFlight => row.beat <= stamp
    /\ \A w \in Workers :
         /\ worker[w].seen.beat <= stamp
         /\ /\ worker[w].pc \in {"prepare", "claim", "reject"}
            /\ worker[w].seen.status = "running"
            /\ row.status = "running"
            /\ fresh
            => worker[w].seen.beat # row.beat

(* Every stamp but the first is paid for by a retry or a fault: a plan in  *)
(* flight that nobody executes with a fresh heartbeat has one to spend.    *)
Healthy ==
    /\ row.status = "running"
    /\ fresh
    /\ \E w \in Workers : worker[w].pc = "execute" /\ row.lease = worker[w].token

BudgetInv ==
    /\ stamp <= 1 + RetryLimit + faults
    /\ row.status \in InFlight => stamp <= 1 + row.retries + faults
    /\ row.status \in InFlight /\ ~Healthy => stamp <= row.retries + faults

(* A plan past its execution has the evidence of it, and so has every copy *)
(* of the row whose writer could win.                                      *)
Executed == {"running", "waiting_approval", "succeeded"}

EvidenceInv ==
    /\ row.status \in Executed => row.started # 0
    /\ \A w \in Workers : worker[w].pc = "execute" => worker[w].seen.started # 0
    /\ \A c \in Clients :
         /\ client[c].pc = "approve" => client[c].seen.started # 0
         /\ client[c].pc = "cancel" /\ client[c].seen.status # "queued" =>
              client[c].seen.started # 0
    /\ \A a \in Applies :
         /\ apply[a].pc \in {"prepared", "queued"} => row.started # 0
         /\ apply[a].pc = "execute" => apply[a].seen.started # 0

(* Where the gate is a persisted status, a plan is approved exactly when   *)
(* it has passed the gate, and an apply holds the plan in that state.      *)
Passed(p) == p.status = "succeeded" /\ (kind = "destroy" => p.approval # None)

GateInv ==
    kind # "gated" =>
      /\ row.status = "waiting_approval" => kind = "destroy" /\ Untouched(row)
      /\ row.status = "succeeded" => Passed(row)
      /\ row.approval # None => row.status = "succeeded"
      /\ \A c \in Clients :
           /\ client[c].pc = "approve" => client[c].seen.status = "waiting_approval"
           /\ client[c].pc \in {"cancel", "settle"} =>
                client[c].seen.status \in {"queued", "waiting_approval"}
      /\ \A a \in Applies :
           /\ apply[a].pc \in {"prepared", "queued"} => Passed(row)
           /\ apply[a].pc = "execute" =>
                /\ Passed(row)
                /\ Passed(apply[a].seen)
                /\ apply[a].seen.approval = row.approval
           /\ apply[a].pc \in {"retire", "done"} =>
                Passed(row) /\ consumed /\ row.appliedBy = a

(* An approval on record, and an admitted apply of a plan that needs one,  *)
(* were preceded by a review.                                              *)
ReviewInv ==
    /\ row.approval # None => reviewed
    /\ \A a \in Applies :
         /\ apply[a].pc \in {"prepared", "queued", "execute", "retire", "done"} =>
              kind # "drift" /\ (NeedsApproval => reviewed)
         /\ apply[a].pc = "execute" /\ apply[a].seen.approval # None => reviewed

(* Who is about to retire the inputs has settled or applied the plan.      *)
RetireInv ==
    kind # "gated" =>
      /\ ~inputs => row.status \in {"failed", "cancelled"} \/ row.appliedBy # None
      /\ \A w \in Workers : worker[w].pc = "retire" => row.status = "failed"
      /\ \A c \in Clients : client[c].pc = "retire" => row.status = "cancelled"

IInv ==
    /\ TypeOK
    /\ FlightInv
    /\ StaleInv
    /\ BudgetInv
    /\ EvidenceInv
    /\ GateInv
    /\ ReviewInv
    /\ RetireInv

-----------------------------------------------------------------------------
(* The steps that write the row, by the branch they take: the row they     *)
(* leave is spelled out field by field.                                    *)

Rewritten(p, status, lease) ==
    [status |-> status, started |-> p.started, beat |-> p.beat, lease |-> lease,
     retries |-> row.retries, approval |-> p.approval, appliedBy |-> p.appliedBy]

Elsewhere == UNCHANGED <<context, inputs, management, apply, faults>>

(* A consumer that gives up, or whose write was refused.                   *)
Loses(w) ==
    /\ worker[w].pc = "execute" => ~Owns(w)
    /\ Stop(w)
    /\ Elsewhere /\ UNCHANGED <<row, fresh, stamp, client>>

Prepares(w, pc) ==
    /\ worker[w].pc = "prepare"
    /\ Become(w, pc)
    /\ Elsewhere /\ UNCHANGED <<row, fresh, stamp, client>>

Rejects(w) ==
    /\ worker[w].pc = "reject"
    /\ row.status = worker[w].seen.status
    /\ row.started = worker[w].seen.started
    /\ row' = Rewritten(worker[w].seen, "failed", 0)
    /\ Become(w, "retire")
    /\ Elsewhere /\ UNCHANGED <<fresh, stamp, client>>

Claims(w) ==
    LET now == stamp + 1
        running == [status |-> "running", started |-> now, beat |-> now,
                    lease |-> worker[w].seen.lease, retries |-> worker[w].seen.retries,
                    approval |-> worker[w].seen.approval,
                    appliedBy |-> worker[w].seen.appliedBy]
    IN  /\ worker[w].pc = "claim"
        /\ row.status = worker[w].seen.status
        /\ worker[w].seen.status = "running" => row.beat = worker[w].seen.beat
        /\ row' = [status |-> "running", started |-> now, beat |-> now, lease |-> now,
                   retries |-> row.retries, approval |-> worker[w].seen.approval,
                   appliedBy |-> worker[w].seen.appliedBy]
        /\ fresh' = TRUE
        /\ stamp' = now
        /\ worker' = [worker EXCEPT ![w] =
                        [pc |-> "execute", seen |-> running, token |-> now]]
        /\ Elsewhere /\ UNCHANGED client

Renews(w) ==
    /\ worker[w].pc = "execute"
    /\ row.status = "running"
    /\ row.lease = worker[w].token
    /\ ~fresh
    /\ row' = [status |-> worker[w].seen.status, started |-> worker[w].seen.started,
               beat |-> stamp + 1, lease |-> row.lease, retries |-> row.retries,
               approval |-> worker[w].seen.approval,
               appliedBy |-> worker[w].seen.appliedBy]
    /\ fresh' = TRUE
    /\ stamp' = stamp + 1
    /\ Elsewhere /\ UNCHANGED <<worker, client>>

Completes(w) ==
    /\ worker[w].pc = "execute"
    /\ row.status \in InFlight
    /\ row' = Rewritten(worker[w].seen,
                        IF kind = "destroy" THEN "waiting_approval" ELSE "succeeded", 0)
    /\ Stop(w)
    /\ Elsewhere /\ UNCHANGED <<fresh, stamp, client>>

Fails(w) ==
    /\ worker[w].pc = "execute"
    /\ row.status \in InFlight
    /\ row' = Rewritten(worker[w].seen, "failed", 0)
    /\ Become(w, "retire")
    /\ Elsewhere /\ UNCHANGED <<fresh, stamp, client>>

Requeues(w) ==
    /\ worker[w].pc = "execute"
    /\ row.status = "running"
    /\ row.retries < RetryLimit
    /\ row' = [status |-> "queued", started |-> worker[w].seen.started, beat |-> 0,
               lease |-> 0, retries |-> row.retries + 1,
               approval |-> worker[w].seen.approval,
               appliedBy |-> worker[w].seen.appliedBy]
    /\ Stop(w)
    /\ Elsewhere /\ UNCHANGED <<fresh, stamp, client>>

(* A call whose write was refused.                                         *)
Yields(c) == Return(c) /\ Elsewhere /\ UNCHANGED <<row, fresh, stamp, worker>>

Approves(c) ==
    /\ client[c].pc = "approve"
    /\ row.status = client[c].seen.status
    /\ row' = [status |-> "succeeded", started |-> client[c].seen.started,
               beat |-> client[c].seen.beat, lease |-> row.lease,
               retries |-> row.retries, approval |-> c,
               appliedBy |-> client[c].seen.appliedBy]
    /\ reviewed' = TRUE
    /\ Return(c)
    /\ UNCHANGED <<kind, consumed, inputs, fresh, stamp, management, worker, apply, faults>>

Cancels(c) ==
    /\ client[c].pc \in {"cancel", "settle"}
    /\ row.status = client[c].seen.status
    /\ \/ row = client[c].seen
       \/ client[c].pc = "cancel" /\ (client[c].seen.status = "queued" => row.started = 0)
    /\ row' = Rewritten(client[c].seen, "cancelled", 0)
    /\ client' = [client EXCEPT ![c].pc = "retire"]
    /\ Elsewhere /\ UNCHANGED <<fresh, stamp, worker>>

Commits(a) ==
    /\ apply[a].pc = "execute"
    /\ ~consumed
    /\ row' = [status |-> apply[a].seen.status, started |-> apply[a].seen.started,
               beat |-> apply[a].seen.beat, lease |-> apply[a].seen.lease,
               retries |-> apply[a].seen.retries, approval |-> apply[a].seen.approval,
               appliedBy |-> a]
    /\ consumed' = TRUE
    /\ Applying(a, "retire")
    /\ UNCHANGED <<kind, inputs, fresh, stamp, management, worker, client, reviewed, faults>>

(* An apply that fails, with or without an attempt to commit.              *)
Abandons(a) ==
    /\ apply[a].pc \in {"queued", "execute"}
    /\ Applying(a, "failed")
    /\ UNCHANGED <<context, plan, management, worker, client, faults>>

MarksFailed ==
    /\ row.status = "queued"
    /\ row' = Rewritten(row, "failed", 0)
    /\ inputs' \in {inputs, FALSE}
    /\ UNCHANGED <<context, fresh, stamp, management, worker, client, apply, faults>>

ConsumerStep(w) ==
    \/ Deliver(w) \/ (\E pc \in {"claim", "reject"} : Prepares(w, pc))
    \/ Rejects(w) \/ Claims(w) \/ Renews(w) \/ Completes(w) \/ Fails(w)
    \/ Requeues(w) \/ RetireInputs(w) \/ Crash(w) \/ Loses(w)

ApiStep(c) ==
    \/ ReadApprove(c) \/ Approves(c) \/ ReadCancel(c) \/ ReadSettle(c) \/ Cancels(c)
    \/ RetireCancelled(c) \/ Yields(c)

ApplierStep(a) ==
    \/ PrepareApply(a) \/ BeginApply(a) \/ DeliverApply(a) \/ Commits(a)
    \/ Abandons(a) \/ RetireApplied(a)

(* Every step of the specification takes one of these branches.            *)
LEMMA ConsumerBranches ==
    ASSUME TypeOK, NEW w \in Workers, Consumer(w) \/ Crash(w)
    PROVE  ConsumerStep(w)
<1>1. PICK p \in PlanRow : p = worker[w].seen
  BY DEF TypeOK, WorkerState
<1>2. ASSUME FailUnclaimed(w) PROVE Rejects(w) \/ Loses(w)
  BY <1>1, <1>2 DEF FailUnclaimed, Rejects, Loses, Elsewhere, Rewritten, Replace, PlanRow
<1>3. ASSUME Claim(w) PROVE Claims(w) \/ Loses(w)
  <2>1. CASE /\ management = "active"
             /\ row.status = worker[w].seen.status
             /\ worker[w].seen.status = "running" => row.beat = worker[w].seen.beat
    <3>1. PICK now \in Nat : now = stamp + 1
      BY DEF TypeOK
    <3>2. PICK running :
            running = [p EXCEPT !.status = "running", !.started = now, !.beat = now]
      OBVIOUS
    <3>3. /\ row' = [running EXCEPT !.lease = now, !.retries = row.retries]
          /\ fresh' = TRUE
          /\ stamp' = now
          /\ worker' = [worker EXCEPT ![w] =
                          [pc |-> "execute", seen |-> running, token |-> now]]
          /\ worker[w].pc = "claim"
          /\ UNCHANGED <<context, inputs, management, client, apply, faults>>
      BY <1>1, <1>3, <2>1, <3>1, <3>2 DEF Claim, Replace
    <3>4. /\ running = [status |-> "running", started |-> now, beat |-> now,
                        lease |-> p.lease, retries |-> p.retries,
                        approval |-> p.approval, appliedBy |-> p.appliedBy]
          /\ row' = [status |-> "running", started |-> now, beat |-> now,
                     lease |-> now, retries |-> row.retries,
                     approval |-> p.approval, appliedBy |-> p.appliedBy]
      BY <3>2, <3>3 DEF PlanRow
    <3> QED
      BY <1>1, <2>1, <3>1, <3>3, <3>4 DEF Claims, Elsewhere
  <2>2. CASE ~ /\ management = "active"
               /\ row.status = worker[w].seen.status
               /\ worker[w].seen.status = "running" => row.beat = worker[w].seen.beat
    BY <1>3, <2>2 DEF Claim, Loses, Elsewhere
  <2> QED
    BY <2>1, <2>2
<1>4. ASSUME Prepare(w) PROVE \E pc \in {"claim", "reject"} : Prepares(w, pc)
  BY <1>4 DEF Prepare, Prepares, Elsewhere, plan
<1>5. ASSUME Beat(w) PROVE Renews(w)
  BY <1>1, <1>5 DEF Beat, Renews, Elsewhere, Replace, PlanRow
<1>6. ASSUME Complete(w)
      PROVE  Completes(w) \/ Fails(w) \/ Loses(w)
  <2>1. PICK status \in CompletedStatuses :
           IF Owns(w)
           THEN /\ Replace([worker[w].seen EXCEPT !.status = status], 0)
                /\ IF status = "failed" THEN Become(w, "retire") ELSE Stop(w)
           ELSE UNCHANGED row /\ Stop(w)
    BY <1>6 DEF Complete
  <2>2. CASE Owns(w)
    <3>1. row' = Rewritten(worker[w].seen, status, 0)
      BY <1>1, <2>1, <2>2 DEF Replace, Rewritten, PlanRow
    <3> QED
      BY <1>6, <2>1, <2>2, <3>1
      DEF Complete, CompletedStatuses, Completes, Fails, Elsewhere, Owns
  <2>3. CASE ~Owns(w)
    BY <1>6, <2>1, <2>3 DEF Complete, Loses, Elsewhere
  <2> QED
    BY <2>2, <2>3
<1>7. ASSUME RequeueInfrastructureError(w) PROVE Requeues(w)
  BY <1>1, <1>7 DEF RequeueInfrastructureError, Requeues, Elsewhere, PlanRow
<1> QED
  BY <1>2, <1>3, <1>4, <1>5, <1>6, <1>7 DEF Consumer, ConsumerStep

LEMMA ApiBranches ==
    ASSUME TypeOK, NEW c \in Clients, Api(c)
    PROVE  ApiStep(c)
<1>1. PICK p \in PlanRow : p = client[c].seen
  BY DEF TypeOK, ClientState
<1>2. ASSUME Approve(c) PROVE Approves(c) \/ Yields(c)
  <2>1. CASE management = "active" /\ row.status = client[c].seen.status
    BY <1>1, <1>2, <2>1 DEF Approve, Approves, Replace, PlanRow
  <2>2. CASE ~(management = "active" /\ row.status = client[c].seen.status)
    BY <1>2, <2>2 DEF Approve, Yields, Elsewhere, context
  <2> QED
    BY <2>1, <2>2
<1>3. ASSUME Cancel(c) PROVE Cancels(c) \/ Yields(c)
  BY <1>1, <1>3 DEF Cancel, Cancels, Yields, Elsewhere, Rewritten, Replace, PlanRow
<1>4. ASSUME Settle(c) PROVE Cancels(c) \/ Yields(c)
  <2>1. CASE management = "draining" /\ row = client[c].seen /\ row.lease = 0
    <3>1. row' = Rewritten(client[c].seen, "cancelled", 0)
      BY <1>1, <1>4, <2>1 DEF Settle, Replace, Rewritten, PlanRow
    <3> QED
      BY <1>4, <2>1, <3>1 DEF Settle, Cancels, Elsewhere
  <2>2. CASE ~(management = "draining" /\ row = client[c].seen /\ row.lease = 0)
    BY <1>4, <2>2 DEF Settle, Yields, Elsewhere
  <2> QED
    BY <2>1, <2>2
<1> QED
  BY <1>2, <1>3, <1>4 DEF Api, ApiStep

LEMMA ApplierBranches ==
    ASSUME TypeOK, NEW a \in Applies, Applier(a)
    PROVE  ApplierStep(a)
<1>1. PICK p \in PlanRow : p = apply[a].seen
  BY DEF TypeOK, ApplyState
<1>2. ASSUME CommitApply(a) PROVE ApplierStep(a)
  BY <1>1, <1>2 DEF CommitApply, ApplierStep, Commits, Abandons, PlanRow, context, plan
<1>3. ASSUME AbandonApply(a) PROVE ApplierStep(a)
  BY <1>3 DEF AbandonApply, Abandons, ApplierStep
<1> QED
  BY <1>2, <1>3 DEF Applier, ApplierStep

LEMMA MarkBranches == TypeOK /\ MarkRunFailed => MarksFailed
BY DEF MarkRunFailed, MarksFailed, Replace, Rewritten, TypeOK, PlanRow

(* The branches of a step of the specification.                            *)
LEMMA Branches ==
    ASSUME TypeOK, [Next]_vars
    PROVE  \/ \E w \in Workers : ConsumerStep(w)
           \/ \E c \in Clients : ApiStep(c)
           \/ \E a \in Applies : ApplierStep(a)
           \/ GoStale
           \/ MarksFailed
           \/ BeginDrain
           \/ UNCHANGED vars
BY ConsumerBranches, ApiBranches, ApplierBranches, MarkBranches DEF Next

-----------------------------------------------------------------------------
(* Type correctness.                                                       *)

LEMMA Bounds ==
    /\ MaxStamp \in Nat
    /\ 0 \in 0 .. MaxStamp
    /\ 0 \in 0 .. RetryLimit
    /\ 0 \in 0 .. MaxFaults
BY PlanConstants DEF MaxStamp

LEMMA IdleTypes ==
    /\ Queued \in PlanRow
    /\ IdleWorker \in WorkerState
    /\ IdleClient \in ClientState
    /\ Unapplied \in ApplyState
<1>1. Queued \in PlanRow
  BY Bounds DEF Queued, PlanRow, Statuses
<1> QED
  BY <1>1, Bounds DEF IdleWorker, WorkerState, IdleClient, ClientState, Unapplied,
     ApplyState

LEMMA InitType == Init => TypeOK
BY IdleTypes, Bounds DEF Init, TypeOK

(* What the helpers write has its type.                                    *)
LEMMA RowType ==
    ASSUME NEW status \in Statuses, NEW started \in 0 .. MaxStamp,
           NEW beat \in 0 .. MaxStamp, NEW lease \in 0 .. MaxStamp,
           NEW retries \in 0 .. RetryLimit, NEW approval \in Clients \cup {None},
           NEW appliedBy \in Applies \cup {None}
    PROVE  [status |-> status, started |-> started, beat |-> beat, lease |-> lease,
            retries |-> retries, approval |-> approval, appliedBy |-> appliedBy]
             \in PlanRow
BY DEF PlanRow

LEMMA FieldTypes ==
    ASSUME NEW p \in PlanRow
    PROVE  /\ p.status \in Statuses
           /\ p.started \in 0 .. MaxStamp /\ p.beat \in 0 .. MaxStamp
           /\ p.lease \in 0 .. MaxStamp /\ p.retries \in 0 .. RetryLimit
           /\ p.approval \in Clients \cup {None} /\ p.appliedBy \in Applies \cup {None}
BY DEF PlanRow

LEMMA RewrittenType ==
    ASSUME TypeOK, NEW p \in PlanRow, NEW status \in Statuses
    PROVE  Rewritten(p, status, 0) \in PlanRow
<1>1. row.retries \in 0 .. RetryLimit
  BY FieldTypes DEF TypeOK
<1> QED
  BY <1>1, Bounds, FieldTypes, RowType DEF Rewritten

LEMMA WorkerTypes ==
    ASSUME TypeOK, NEW w \in Workers
    PROVE  /\ worker[w].seen \in PlanRow
           /\ \A pc \in {"idle", "prepare", "claim", "reject", "execute", "retire"} :
                Become(w, pc) => worker' \in [Workers -> WorkerState]
           /\ Stop(w) => worker' \in [Workers -> WorkerState]
BY IdleTypes DEF TypeOK, WorkerState, Become, Stop

LEMMA ClientTypes ==
    ASSUME TypeOK, NEW c \in Clients
    PROVE  /\ client[c].seen \in PlanRow
           /\ \A pc \in {"idle", "approve", "cancel", "settle", "retire"} :
                Call(c, pc) => client' \in [Clients -> ClientState]
           /\ Return(c) => client' \in [Clients -> ClientState]
BY IdleTypes DEF TypeOK, ClientState, Call, Return

LEMMA ApplyTypes ==
    ASSUME TypeOK, NEW a \in Applies
    PROVE  /\ apply[a].seen \in PlanRow
           /\ \A pc \in {"none", "prepared", "queued", "execute", "retire", "done",
                         "failed"} :
                Applying(a, pc) => apply' \in [Applies -> ApplyState]
BY DEF TypeOK, ApplyState, Applying

LEMMA FaultType == TypeOK /\ Fault => faults' \in 0 .. MaxFaults
BY PlanConstants DEF TypeOK, Fault

(* A consumer that claims or renews finds a stamp left.                    *)
LEMMA StampLeft ==
    ASSUME TypeOK, FlightInv, StaleInv, BudgetInv, NEW w \in Workers, Claims(w) \/ Renews(w)
    PROVE  stamp + 1 \in 0 .. MaxStamp
<1>1. row.status \in InFlight /\ ~Healthy
  BY DEF Claims, Renews, FlightInv, StaleInv, Healthy, InFlight
<1>2. row.retries \in 0 .. RetryLimit
  BY FieldTypes DEF TypeOK
<1> QED
  BY <1>1, <1>2, PlanConstants DEF BudgetInv, TypeOK, MaxStamp

LEMMA TypeStep ==
    ASSUME TypeOK, FlightInv, StaleInv, BudgetInv, [Next]_vars
    PROVE  TypeOK'
<1> DEFINE Rest == /\ kind \in Kinds /\ inputs \in BOOLEAN /\ fresh \in BOOLEAN
                   /\ management \in {"active", "draining"}
                   /\ consumed \in BOOLEAN /\ reviewed \in BOOLEAN
                   /\ faults \in 0 .. MaxFaults
<1>1. ASSUME NEW w \in Workers, ConsumerStep(w) PROVE TypeOK'
  <2>1. client' \in [Clients -> ClientState] /\ apply' \in [Applies -> ApplyState]
    BY <1>1 DEF TypeOK, ConsumerStep, Deliver, Prepares, Rejects, Claims, Renews, Completes,
       Fails, Requeues, RetireInputs, Crash, Loses, Elsewhere
  <2>2. Rest'
    <3>1. CASE Crash(w)
      BY <3>1, FaultType DEF TypeOK, Crash, context, plan
    <3>2. CASE RetireInputs(w)
      BY <3>2 DEF TypeOK, RetireInputs, context
    <3>3. CASE Deliver(w)
      BY <3>3 DEF TypeOK, Deliver, context, plan
    <3> QED
      BY <1>1, <3>1, <3>2, <3>3 DEF TypeOK, ConsumerStep, Prepares, Rejects, Claims, Renews,
         Completes, Fails, Requeues, Loses, Elsewhere, context
  <2>3. row' \in PlanRow /\ stamp' \in 0 .. MaxStamp
    <3>1. row.retries \in 0 .. RetryLimit /\ row.lease \in 0 .. MaxStamp
      BY FieldTypes DEF TypeOK
    <3>2. CASE Claims(w)
      <4>1. stamp + 1 \in 0 .. MaxStamp /\ "running" \in Statuses
        BY <3>2, StampLeft DEF Statuses
      <4> QED
        BY <3>1, <3>2, <4>1, WorkerTypes, FieldTypes, RowType DEF Claims
    <3>3. CASE Renews(w)
      <4>1. stamp + 1 \in 0 .. MaxStamp
        BY <3>3, StampLeft
      <4> QED
        BY <3>1, <3>3, <4>1, WorkerTypes, FieldTypes, RowType DEF Renews
    <3>4. CASE Requeues(w)
      <4>1. row.retries + 1 \in 0 .. RetryLimit
        BY <3>1, <3>4, PlanConstants DEF Requeues
      <4> QED
        BY <3>4, <4>1, Bounds, WorkerTypes, FieldTypes, RowType
        DEF Requeues, Statuses, TypeOK
    <3>5. CASE Rejects(w) \/ Completes(w) \/ Fails(w)
      BY <3>5, WorkerTypes, RewrittenType DEF Rejects, Completes, Fails, Statuses, TypeOK
    <3> QED
      BY <1>1, <3>2, <3>3, <3>4, <3>5
      DEF ConsumerStep, Deliver, Prepares, RetireInputs, Crash, Loses, plan, TypeOK
  <2>4. worker' \in [Workers -> WorkerState]
    <3>1. CASE Deliver(w)
      BY <3>1 DEF Deliver, TypeOK, WorkerState
    <3>2. CASE Claims(w)
      <4>1. [pc |-> "execute", token |-> stamp + 1,
             seen |-> [status |-> "running", started |-> stamp + 1, beat |-> stamp + 1,
                       lease |-> worker[w].seen.lease, retries |-> worker[w].seen.retries,
                       approval |-> worker[w].seen.approval,
                       appliedBy |-> worker[w].seen.appliedBy]] \in WorkerState
        <5>1. [status |-> "running", started |-> stamp + 1, beat |-> stamp + 1,
               lease |-> worker[w].seen.lease, retries |-> worker[w].seen.retries,
               approval |-> worker[w].seen.approval,
               appliedBy |-> worker[w].seen.appliedBy] \in PlanRow
          BY <3>2, StampLeft, WorkerTypes, FieldTypes, RowType DEF Statuses
        <5> QED
          BY <3>2, <5>1, StampLeft DEF WorkerState
      <4> QED
        BY <3>2, <4>1 DEF Claims, TypeOK
    <3>3. CASE Renews(w)
      BY <3>3 DEF Renews, TypeOK
    <3> QED
      BY <1>1, <3>1, <3>2, <3>3, WorkerTypes
      DEF ConsumerStep, Prepares, Rejects, Completes, Fails, Requeues, RetireInputs, Crash,
          Loses
  <2> QED
    BY <2>1, <2>2, <2>3, <2>4 DEF TypeOK
<1>2. ASSUME NEW c \in Clients, ApiStep(c) PROVE TypeOK'
  <2>1. /\ worker' \in [Workers -> WorkerState] /\ apply' \in [Applies -> ApplyState]
        /\ stamp' \in 0 .. MaxStamp
    BY <1>2 DEF TypeOK, ApiStep, ReadApprove, Approves, ReadCancel, ReadSettle, Cancels,
       RetireCancelled, Yields, Elsewhere, plan
  <2>2. Rest'
    BY <1>2 DEF TypeOK, ApiStep, ReadApprove, Approves, ReadCancel, ReadSettle, Cancels,
       RetireCancelled, Yields, Elsewhere, context, plan
  <2>3. row' \in PlanRow
    <3>1. row.retries \in 0 .. RetryLimit /\ row.lease \in 0 .. MaxStamp
      BY FieldTypes DEF TypeOK
    <3>2. CASE Approves(c)
      BY <3>1, <3>2, ClientTypes, FieldTypes, RowType DEF Approves, Statuses
    <3>3. CASE Cancels(c)
      BY <3>3, ClientTypes, RewrittenType DEF Cancels, Statuses
    <3> QED
      BY <1>2, <3>2, <3>3
      DEF ApiStep, ReadApprove, ReadCancel, ReadSettle, RetireCancelled, Yields, plan, TypeOK
  <2>4. client' \in [Clients -> ClientState]
    <3>1. CASE Cancels(c)
      BY <3>1 DEF Cancels, TypeOK, ClientState
    <3> QED
      BY <1>2, <3>1, ClientTypes
      DEF ApiStep, ReadApprove, Approves, ReadCancel, ReadSettle, RetireCancelled, Yields
  <2> QED
    BY <2>1, <2>2, <2>3, <2>4 DEF TypeOK
<1>3. ASSUME NEW a \in Applies, ApplierStep(a) PROVE TypeOK'
  <2>1. /\ worker' \in [Workers -> WorkerState] /\ client' \in [Clients -> ClientState]
        /\ stamp' \in 0 .. MaxStamp
    BY <1>3 DEF TypeOK, ApplierStep, PrepareApply, BeginApply, DeliverApply, Commits,
       Abandons, RetireApplied, plan
  <2>2. Rest'
    BY <1>3 DEF TypeOK, ApplierStep, PrepareApply, BeginApply, DeliverApply, Commits,
       Abandons, RetireApplied, context, plan
  <2>3. row' \in PlanRow
    <3>1. CASE Commits(a)
      BY <3>1, ApplyTypes, FieldTypes, RowType DEF Commits
    <3> QED
      BY <1>3, <3>1 DEF ApplierStep, PrepareApply, BeginApply, DeliverApply, Abandons,
         RetireApplied, plan, TypeOK
  <2>4. apply' \in [Applies -> ApplyState]
    <3>1. CASE DeliverApply(a)
      BY <3>1 DEF DeliverApply, TypeOK, ApplyState
    <3>2. CASE BeginApply(a)
      BY <3>2, ApplyTypes DEF BeginApply
    <3> QED
      BY <1>3, <3>1, <3>2, ApplyTypes
      DEF ApplierStep, PrepareApply, Commits, Abandons, RetireApplied
  <2> QED
    BY <2>1, <2>2, <2>3, <2>4 DEF TypeOK
<1>4. ASSUME GoStale \/ BeginDrain \/ UNCHANGED vars PROVE TypeOK'
  <2>1. CASE GoStale
    <3>1. faults' \in 0 .. MaxFaults
      BY <2>1, FaultType DEF GoStale, TypeOK
    <3> QED
      BY <2>1, <3>1 DEF GoStale, context, TypeOK
  <2>2. CASE BeginDrain
    BY <2>2 DEF BeginDrain, context, plan, TypeOK
  <2>3. CASE UNCHANGED vars
    BY <2>3 DEF vars, TypeOK
  <2> QED
    BY <1>4, <2>1, <2>2, <2>3
<1>5. ASSUME MarksFailed PROVE TypeOK'
  <2>1. row' \in PlanRow
    BY <1>5, RewrittenType DEF MarksFailed, TypeOK, Statuses
  <2> QED
    BY <1>5, <2>1 DEF MarksFailed, context, TypeOK
<1> QED
  BY Branches, <1>1, <1>2, <1>3, <1>4, <1>5

-----------------------------------------------------------------------------
(* The other parts of the invariant, branch by branch.                     *)

(* A plan in flight is untouched, and consumers remember plans in flight.  *)
LEMMA FlightStep ==
    ASSUME TypeOK, FlightInv, [Next]_vars
    PROVE  FlightInv'
<1> USE PlanConstants DEF FlightInv, Untouched, TypeOK, PlanRow, WorkerState,
   IdleWorker, ClientState, IdleClient, ApplyState, Queued, InFlight
<1>1. ASSUME NEW w \in Workers, Deliver(w) PROVE FlightInv'
  BY <1>1 DEF Deliver, plan, context
<1>2. ASSUME NEW w \in Workers, NEW pc \in {"claim", "reject"}, Prepares(w, pc)
      PROVE  FlightInv'
  BY <1>2 DEF Prepares, Become, Elsewhere, context
<1>3. ASSUME NEW w \in Workers, Rejects(w) PROVE FlightInv'
  BY <1>3 DEF Rejects, Become, Elsewhere, Rewritten, context
<1>4. ASSUME NEW w \in Workers, Claims(w) PROVE FlightInv'
  BY <1>4 DEF Claims, Elsewhere, context
<1>5. ASSUME NEW w \in Workers, Renews(w) PROVE FlightInv'
  BY <1>5 DEF Renews, Elsewhere, context
<1>6. ASSUME NEW w \in Workers, Completes(w) PROVE FlightInv'
  BY <1>6 DEF Completes, Stop, Elsewhere, Rewritten, context
<1>7. ASSUME NEW w \in Workers, Fails(w) PROVE FlightInv'
  BY <1>7 DEF Fails, Become, Elsewhere, Rewritten, context
<1>8. ASSUME NEW w \in Workers, Requeues(w) PROVE FlightInv'
  BY <1>8 DEF Requeues, Stop, Elsewhere, context
<1>9. ASSUME NEW w \in Workers, RetireInputs(w) PROVE FlightInv'
  BY <1>9 DEF RetireInputs, Stop, context
<1>10. ASSUME NEW w \in Workers, Crash(w) PROVE FlightInv'
  BY <1>10 DEF Crash, Stop, Fault, plan, context
<1>11. ASSUME NEW w \in Workers, Loses(w) PROVE FlightInv'
  BY <1>11 DEF Loses, Owns, Stop, Elsewhere, context
<1>12. ASSUME NEW c \in Clients, ReadApprove(c) PROVE FlightInv'
  BY <1>12 DEF ReadApprove, AwaitsApproval, Call, plan, context
<1>13. ASSUME NEW c \in Clients, Approves(c) PROVE FlightInv'
  BY <1>13 DEF Approves, Return
<1>14. ASSUME NEW c \in Clients, ReadCancel(c) PROVE FlightInv'
  BY <1>14 DEF ReadCancel, AwaitsApproval, Call, plan, context
<1>15. ASSUME NEW c \in Clients, ReadSettle(c) PROVE FlightInv'
  BY <1>15 DEF ReadSettle, AwaitsApproval, Call, plan, context
<1>16. ASSUME NEW c \in Clients, Cancels(c) PROVE FlightInv'
  BY <1>16 DEF Cancels, Elsewhere, Rewritten, context
<1>17. ASSUME NEW c \in Clients, RetireCancelled(c) PROVE FlightInv'
  BY <1>17 DEF RetireCancelled, Return, context
<1>18. ASSUME NEW c \in Clients, Yields(c) PROVE FlightInv'
  BY <1>18 DEF Yields, Return, Elsewhere, context
<1>19. ASSUME NEW a \in Applies, PrepareApply(a) PROVE FlightInv'
  BY <1>19 DEF PrepareApply, Applying, plan, context
<1>20. ASSUME NEW a \in Applies, BeginApply(a) PROVE FlightInv'
  BY <1>20 DEF BeginApply, Applying, plan, context
<1>21. ASSUME NEW a \in Applies, DeliverApply(a) PROVE FlightInv'
  BY <1>21 DEF DeliverApply, plan, context
<1>22. ASSUME NEW a \in Applies, Commits(a) PROVE FlightInv'
  BY <1>22 DEF Commits, Applying
<1>23. ASSUME NEW a \in Applies, Abandons(a) PROVE FlightInv'
  BY <1>23 DEF Abandons, Applying, plan, context
<1>24. ASSUME NEW a \in Applies, RetireApplied(a) PROVE FlightInv'
  BY <1>24 DEF RetireApplied, Applying, context
<1>25. ASSUME GoStale PROVE FlightInv'
  BY <1>25 DEF GoStale, Fault, Owns, context
<1>26. ASSUME MarksFailed PROVE FlightInv'
  BY <1>26 DEF MarksFailed, Rewritten, context
<1>27. ASSUME BeginDrain PROVE FlightInv'
  BY <1>27 DEF BeginDrain, plan, context
<1>28. CASE UNCHANGED vars
  BY <1>28 DEF vars
<1> QED
  BY Branches, <1>1, <1>2, <1>3, <1>4, <1>5, <1>6, <1>7, <1>8, <1>9, <1>10, <1>11,
     <1>12, <1>13, <1>14, <1>15, <1>16, <1>17, <1>18, <1>19, <1>20, <1>21, <1>22, <1>23,
     <1>24, <1>25, <1>26, <1>27, <1>28 DEF ConsumerStep, ApiStep, ApplierStep

(* The heartbeat a takeover compares is not the fresh one.                 *)
LEMMA StaleStep ==
    ASSUME TypeOK, FlightInv, StaleInv, [Next]_vars
    PROVE  StaleInv'
<1> USE PlanConstants DEF StaleInv, FlightInv, TypeOK, PlanRow, WorkerState,
   IdleWorker, ClientState, IdleClient, ApplyState, Queued, InFlight
<1>1. ASSUME NEW w \in Workers, Deliver(w) PROVE StaleInv'
  BY <1>1 DEF Deliver, plan, context
<1>2. ASSUME NEW w \in Workers, NEW pc \in {"claim", "reject"}, Prepares(w, pc)
      PROVE  StaleInv'
  BY <1>2 DEF Prepares, Become, Elsewhere, context
<1>3. ASSUME NEW w \in Workers, Rejects(w) PROVE StaleInv'
  BY <1>3 DEF Rejects, Become, Elsewhere, Rewritten, context
<1>4. ASSUME NEW w \in Workers, Claims(w) PROVE StaleInv'
  BY <1>4 DEF Claims, Elsewhere, context
<1>5. ASSUME NEW w \in Workers, Renews(w) PROVE StaleInv'
  BY <1>5 DEF Renews, Elsewhere, context
<1>6. ASSUME NEW w \in Workers, Completes(w) PROVE StaleInv'
  BY <1>6 DEF Completes, Stop, Elsewhere, Rewritten, context
<1>7. ASSUME NEW w \in Workers, Fails(w) PROVE StaleInv'
  BY <1>7 DEF Fails, Become, Elsewhere, Rewritten, context
<1>8. ASSUME NEW w \in Workers, Requeues(w) PROVE StaleInv'
  BY <1>8 DEF Requeues, Stop, Elsewhere, context
<1>9. ASSUME NEW w \in Workers, RetireInputs(w) PROVE StaleInv'
  BY <1>9 DEF RetireInputs, Stop, context
<1>10. ASSUME NEW w \in Workers, Crash(w) PROVE StaleInv'
  BY <1>10 DEF Crash, Stop, Fault, plan, context
<1>11. ASSUME NEW w \in Workers, Loses(w) PROVE StaleInv'
  BY <1>11 DEF Loses, Owns, Stop, Elsewhere, context
<1>12. ASSUME NEW c \in Clients, ReadApprove(c) PROVE StaleInv'
  BY <1>12 DEF ReadApprove, AwaitsApproval, Call, plan, context
<1>13. ASSUME NEW c \in Clients, Approves(c) PROVE StaleInv'
  BY <1>13 DEF Approves, Return
<1>14. ASSUME NEW c \in Clients, ReadCancel(c) PROVE StaleInv'
  BY <1>14 DEF ReadCancel, AwaitsApproval, Call, plan, context
<1>15. ASSUME NEW c \in Clients, ReadSettle(c) PROVE StaleInv'
  BY <1>15 DEF ReadSettle, AwaitsApproval, Call, plan, context
<1>16. ASSUME NEW c \in Clients, Cancels(c) PROVE StaleInv'
  BY <1>16 DEF Cancels, Elsewhere, Rewritten, context
<1>17. ASSUME NEW c \in Clients, RetireCancelled(c) PROVE StaleInv'
  BY <1>17 DEF RetireCancelled, Return, context
<1>18. ASSUME NEW c \in Clients, Yields(c) PROVE StaleInv'
  BY <1>18 DEF Yields, Return, Elsewhere, context
<1>19. ASSUME NEW a \in Applies, PrepareApply(a) PROVE StaleInv'
  BY <1>19 DEF PrepareApply, Applying, plan, context
<1>20. ASSUME NEW a \in Applies, BeginApply(a) PROVE StaleInv'
  BY <1>20 DEF BeginApply, Applying, plan, context
<1>21. ASSUME NEW a \in Applies, DeliverApply(a) PROVE StaleInv'
  BY <1>21 DEF DeliverApply, plan, context
<1>22. ASSUME NEW a \in Applies, Commits(a) PROVE StaleInv'
  BY <1>22 DEF Commits, Applying
<1>23. ASSUME NEW a \in Applies, Abandons(a) PROVE StaleInv'
  BY <1>23 DEF Abandons, Applying, plan, context
<1>24. ASSUME NEW a \in Applies, RetireApplied(a) PROVE StaleInv'
  BY <1>24 DEF RetireApplied, Applying, context
<1>25. ASSUME GoStale PROVE StaleInv'
  BY <1>25 DEF GoStale, Fault, Owns, context
<1>26. ASSUME MarksFailed PROVE StaleInv'
  BY <1>26 DEF MarksFailed, Rewritten, context
<1>27. ASSUME BeginDrain PROVE StaleInv'
  BY <1>27 DEF BeginDrain, plan, context
<1>28. CASE UNCHANGED vars
  BY <1>28 DEF vars
<1> QED
  BY Branches, <1>1, <1>2, <1>3, <1>4, <1>5, <1>6, <1>7, <1>8, <1>9, <1>10, <1>11,
     <1>12, <1>13, <1>14, <1>15, <1>16, <1>17, <1>18, <1>19, <1>20, <1>21, <1>22, <1>23,
     <1>24, <1>25, <1>26, <1>27, <1>28 DEF ConsumerStep, ApiStep, ApplierStep

(* Every stamp is paid for.                                                *)
LEMMA BudgetStep ==
    ASSUME TypeOK, FlightInv, StaleInv, BudgetInv, [Next]_vars
    PROVE  BudgetInv'
<1> USE PlanConstants DEF BudgetInv, FlightInv, StaleInv, Healthy, TypeOK, PlanRow,
   WorkerState, IdleWorker, ClientState, IdleClient, ApplyState, Queued, InFlight
<1>1. ASSUME NEW w \in Workers, Deliver(w) PROVE BudgetInv'
  BY <1>1 DEF Deliver, plan, context
<1>2. ASSUME NEW w \in Workers, NEW pc \in {"claim", "reject"}, Prepares(w, pc)
      PROVE  BudgetInv'
  BY <1>2 DEF Prepares, Become, Elsewhere, context
<1>3. ASSUME NEW w \in Workers, Rejects(w) PROVE BudgetInv'
  BY <1>3 DEF Rejects, Become, Elsewhere, Rewritten, context
<1>4. ASSUME NEW w \in Workers, Claims(w) PROVE BudgetInv'
  BY <1>4 DEF Claims, Elsewhere, context
<1>5. ASSUME NEW w \in Workers, Renews(w) PROVE BudgetInv'
  BY <1>5 DEF Renews, Elsewhere, context
<1>6. ASSUME NEW w \in Workers, Completes(w) PROVE BudgetInv'
  BY <1>6 DEF Completes, Stop, Elsewhere, Rewritten, context
<1>7. ASSUME NEW w \in Workers, Fails(w) PROVE BudgetInv'
  BY <1>7 DEF Fails, Become, Elsewhere, Rewritten, context
<1>8. ASSUME NEW w \in Workers, Requeues(w) PROVE BudgetInv'
  BY <1>8 DEF Requeues, Stop, Elsewhere, context
<1>9. ASSUME NEW w \in Workers, RetireInputs(w) PROVE BudgetInv'
  BY <1>9 DEF RetireInputs, Stop, context
<1>10. ASSUME NEW w \in Workers, Crash(w) PROVE BudgetInv'
  BY <1>10 DEF Crash, Stop, Fault, plan, context
<1>11. ASSUME NEW w \in Workers, Loses(w) PROVE BudgetInv'
  BY <1>11 DEF Loses, Owns, Stop, Elsewhere, context
<1>12. ASSUME NEW c \in Clients, ReadApprove(c) PROVE BudgetInv'
  BY <1>12 DEF ReadApprove, AwaitsApproval, Call, plan, context
<1>13. ASSUME NEW c \in Clients, Approves(c) PROVE BudgetInv'
  BY <1>13 DEF Approves, Return
<1>14. ASSUME NEW c \in Clients, ReadCancel(c) PROVE BudgetInv'
  BY <1>14 DEF ReadCancel, AwaitsApproval, Call, plan, context
<1>15. ASSUME NEW c \in Clients, ReadSettle(c) PROVE BudgetInv'
  BY <1>15 DEF ReadSettle, AwaitsApproval, Call, plan, context
<1>16. ASSUME NEW c \in Clients, Cancels(c) PROVE BudgetInv'
  BY <1>16 DEF Cancels, Elsewhere, Rewritten, context
<1>17. ASSUME NEW c \in Clients, RetireCancelled(c) PROVE BudgetInv'
  BY <1>17 DEF RetireCancelled, Return, context
<1>18. ASSUME NEW c \in Clients, Yields(c) PROVE BudgetInv'
  BY <1>18 DEF Yields, Return, Elsewhere, context
<1>19. ASSUME NEW a \in Applies, PrepareApply(a) PROVE BudgetInv'
  BY <1>19 DEF PrepareApply, Applying, plan, context
<1>20. ASSUME NEW a \in Applies, BeginApply(a) PROVE BudgetInv'
  BY <1>20 DEF BeginApply, Applying, plan, context
<1>21. ASSUME NEW a \in Applies, DeliverApply(a) PROVE BudgetInv'
  BY <1>21 DEF DeliverApply, plan, context
<1>22. ASSUME NEW a \in Applies, Commits(a) PROVE BudgetInv'
  BY <1>22 DEF Commits, Applying
<1>23. ASSUME NEW a \in Applies, Abandons(a) PROVE BudgetInv'
  BY <1>23 DEF Abandons, Applying, plan, context
<1>24. ASSUME NEW a \in Applies, RetireApplied(a) PROVE BudgetInv'
  BY <1>24 DEF RetireApplied, Applying, context
<1>25. ASSUME GoStale PROVE BudgetInv'
  BY <1>25 DEF GoStale, Fault, Owns, context
<1>26. ASSUME MarksFailed PROVE BudgetInv'
  BY <1>26 DEF MarksFailed, Rewritten, context
<1>27. ASSUME BeginDrain PROVE BudgetInv'
  BY <1>27 DEF BeginDrain, plan, context
<1>28. CASE UNCHANGED vars
  BY <1>28 DEF vars
<1> QED
  BY Branches, <1>1, <1>2, <1>3, <1>4, <1>5, <1>6, <1>7, <1>8, <1>9, <1>10, <1>11,
     <1>12, <1>13, <1>14, <1>15, <1>16, <1>17, <1>18, <1>19, <1>20, <1>21, <1>22, <1>23,
     <1>24, <1>25, <1>26, <1>27, <1>28 DEF ConsumerStep, ApiStep, ApplierStep

(* Whoever may still write the row of an executed plan has its start time. *)
LEMMA EvidenceStep ==
    ASSUME TypeOK, FlightInv, EvidenceInv, [Next]_vars
    PROVE  EvidenceInv'
<1> USE PlanConstants DEF EvidenceInv, FlightInv, Executed, TypeOK, PlanRow,
   WorkerState, IdleWorker, ClientState, IdleClient, ApplyState, Queued, InFlight
<1>1. ASSUME NEW w \in Workers, Deliver(w) PROVE EvidenceInv'
  BY <1>1 DEF Deliver, plan, context
<1>2. ASSUME NEW w \in Workers, NEW pc \in {"claim", "reject"}, Prepares(w, pc)
      PROVE  EvidenceInv'
  BY <1>2 DEF Prepares, Become, Elsewhere, context
<1>3. ASSUME NEW w \in Workers, Rejects(w) PROVE EvidenceInv'
  BY <1>3 DEF Rejects, Become, Elsewhere, Rewritten, context
<1>4. ASSUME NEW w \in Workers, Claims(w) PROVE EvidenceInv'
  BY <1>4 DEF Claims, Elsewhere, context
<1>5. ASSUME NEW w \in Workers, Renews(w) PROVE EvidenceInv'
  BY <1>5 DEF Renews, Elsewhere, context
<1>6. ASSUME NEW w \in Workers, Completes(w) PROVE EvidenceInv'
  BY <1>6 DEF Completes, Stop, Elsewhere, Rewritten, context
<1>7. ASSUME NEW w \in Workers, Fails(w) PROVE EvidenceInv'
  BY <1>7 DEF Fails, Become, Elsewhere, Rewritten, context
<1>8. ASSUME NEW w \in Workers, Requeues(w) PROVE EvidenceInv'
  BY <1>8 DEF Requeues, Stop, Elsewhere, context
<1>9. ASSUME NEW w \in Workers, RetireInputs(w) PROVE EvidenceInv'
  BY <1>9 DEF RetireInputs, Stop, context
<1>10. ASSUME NEW w \in Workers, Crash(w) PROVE EvidenceInv'
  BY <1>10 DEF Crash, Stop, Fault, plan, context
<1>11. ASSUME NEW w \in Workers, Loses(w) PROVE EvidenceInv'
  BY <1>11 DEF Loses, Owns, Stop, Elsewhere, context
<1>12. ASSUME NEW c \in Clients, ReadApprove(c) PROVE EvidenceInv'
  BY <1>12 DEF ReadApprove, AwaitsApproval, Call, plan, context
<1>13. ASSUME NEW c \in Clients, Approves(c) PROVE EvidenceInv'
  BY <1>13 DEF Approves, Return
<1>14. ASSUME NEW c \in Clients, ReadCancel(c) PROVE EvidenceInv'
  BY <1>14 DEF ReadCancel, AwaitsApproval, Call, plan, context
<1>15. ASSUME NEW c \in Clients, ReadSettle(c) PROVE EvidenceInv'
  BY <1>15 DEF ReadSettle, AwaitsApproval, Call, plan, context
<1>16. ASSUME NEW c \in Clients, Cancels(c) PROVE EvidenceInv'
  BY <1>16 DEF Cancels, Elsewhere, Rewritten, context
<1>17. ASSUME NEW c \in Clients, RetireCancelled(c) PROVE EvidenceInv'
  BY <1>17 DEF RetireCancelled, Return, context
<1>18. ASSUME NEW c \in Clients, Yields(c) PROVE EvidenceInv'
  BY <1>18 DEF Yields, Return, Elsewhere, context
<1>19. ASSUME NEW a \in Applies, PrepareApply(a) PROVE EvidenceInv'
  BY <1>19 DEF PrepareApply, Applying, plan, context
<1>20. ASSUME NEW a \in Applies, BeginApply(a) PROVE EvidenceInv'
  BY <1>20 DEF BeginApply, Applying, plan, context
<1>21. ASSUME NEW a \in Applies, DeliverApply(a) PROVE EvidenceInv'
  BY <1>21 DEF DeliverApply, plan, context
<1>22. ASSUME NEW a \in Applies, Commits(a) PROVE EvidenceInv'
  BY <1>22 DEF Commits, Applying
<1>23. ASSUME NEW a \in Applies, Abandons(a) PROVE EvidenceInv'
  BY <1>23 DEF Abandons, Applying, plan, context
<1>24. ASSUME NEW a \in Applies, RetireApplied(a) PROVE EvidenceInv'
  BY <1>24 DEF RetireApplied, Applying, context
<1>25. ASSUME GoStale PROVE EvidenceInv'
  BY <1>25 DEF GoStale, Fault, Owns, context
<1>26. ASSUME MarksFailed PROVE EvidenceInv'
  BY <1>26 DEF MarksFailed, Rewritten, context
<1>27. ASSUME BeginDrain PROVE EvidenceInv'
  BY <1>27 DEF BeginDrain, plan, context
<1>28. CASE UNCHANGED vars
  BY <1>28 DEF vars
<1> QED
  BY Branches, <1>1, <1>2, <1>3, <1>4, <1>5, <1>6, <1>7, <1>8, <1>9, <1>10, <1>11,
     <1>12, <1>13, <1>14, <1>15, <1>16, <1>17, <1>18, <1>19, <1>20, <1>21, <1>22, <1>23,
     <1>24, <1>25, <1>26, <1>27, <1>28 DEF ConsumerStep, ApiStep, ApplierStep

(* The gate of a plan whose gate is a persisted status.                    *)
LEMMA GateStep ==
    ASSUME TypeOK, FlightInv, GateInv, [Next]_vars
    PROVE  GateInv'
<1> USE PlanConstants DEF GateInv, FlightInv, Passed, Untouched, NeedsApproval,
   TypeOK, PlanRow, WorkerState, IdleWorker, ClientState, IdleClient, ApplyState, Queued,
   InFlight
<1>1. ASSUME NEW w \in Workers, Deliver(w) PROVE GateInv'
  BY <1>1 DEF Deliver, plan, context
<1>2. ASSUME NEW w \in Workers, NEW pc \in {"claim", "reject"}, Prepares(w, pc)
      PROVE  GateInv'
  BY <1>2 DEF Prepares, Become, Elsewhere, context
<1>3. ASSUME NEW w \in Workers, Rejects(w) PROVE GateInv'
  BY <1>3 DEF Rejects, Become, Elsewhere, Rewritten, context
<1>4. ASSUME NEW w \in Workers, Claims(w) PROVE GateInv'
  BY <1>4 DEF Claims, Elsewhere, context
<1>5. ASSUME NEW w \in Workers, Renews(w) PROVE GateInv'
  BY <1>5 DEF Renews, Elsewhere, context
<1>6. ASSUME NEW w \in Workers, Completes(w) PROVE GateInv'
  BY <1>6 DEF Completes, Stop, Elsewhere, Rewritten, context
<1>7. ASSUME NEW w \in Workers, Fails(w) PROVE GateInv'
  BY <1>7 DEF Fails, Become, Elsewhere, Rewritten, context
<1>8. ASSUME NEW w \in Workers, Requeues(w) PROVE GateInv'
  BY <1>8 DEF Requeues, Stop, Elsewhere, context
<1>9. ASSUME NEW w \in Workers, RetireInputs(w) PROVE GateInv'
  BY <1>9 DEF RetireInputs, Stop, context
<1>10. ASSUME NEW w \in Workers, Crash(w) PROVE GateInv'
  BY <1>10 DEF Crash, Stop, Fault, plan, context
<1>11. ASSUME NEW w \in Workers, Loses(w) PROVE GateInv'
  BY <1>11 DEF Loses, Owns, Stop, Elsewhere, context
<1>12. ASSUME NEW c \in Clients, ReadApprove(c) PROVE GateInv'
  BY <1>12 DEF ReadApprove, AwaitsApproval, Call, plan, context
<1>13. ASSUME NEW c \in Clients, Approves(c) PROVE GateInv'
  BY <1>13 DEF Approves, Return
<1>14. ASSUME NEW c \in Clients, ReadCancel(c) PROVE GateInv'
  BY <1>14 DEF ReadCancel, AwaitsApproval, Call, plan, context
<1>15. ASSUME NEW c \in Clients, ReadSettle(c) PROVE GateInv'
  BY <1>15 DEF ReadSettle, AwaitsApproval, Call, plan, context
<1>16. ASSUME NEW c \in Clients, Cancels(c) PROVE GateInv'
  BY <1>16 DEF Cancels, Elsewhere, Rewritten, context
<1>17. ASSUME NEW c \in Clients, RetireCancelled(c) PROVE GateInv'
  BY <1>17 DEF RetireCancelled, Return, context
<1>18. ASSUME NEW c \in Clients, Yields(c) PROVE GateInv'
  BY <1>18 DEF Yields, Return, Elsewhere, context
<1>19. ASSUME NEW a \in Applies, PrepareApply(a) PROVE GateInv'
  BY <1>19 DEF PrepareApply, Applying, plan, context
<1>20. ASSUME NEW a \in Applies, BeginApply(a) PROVE GateInv'
  BY <1>20 DEF BeginApply, Applying, plan, context
<1>21. ASSUME NEW a \in Applies, DeliverApply(a) PROVE GateInv'
  BY <1>21 DEF DeliverApply, plan, context
<1>22. ASSUME NEW a \in Applies, Commits(a) PROVE GateInv'
  BY <1>22 DEF Commits, Applying
<1>23. ASSUME NEW a \in Applies, Abandons(a) PROVE GateInv'
  BY <1>23 DEF Abandons, Applying, plan, context
<1>24. ASSUME NEW a \in Applies, RetireApplied(a) PROVE GateInv'
  BY <1>24 DEF RetireApplied, Applying, context
<1>25. ASSUME GoStale PROVE GateInv'
  BY <1>25 DEF GoStale, Fault, Owns, context
<1>26. ASSUME MarksFailed PROVE GateInv'
  BY <1>26 DEF MarksFailed, Rewritten, context
<1>27. ASSUME BeginDrain PROVE GateInv'
  BY <1>27 DEF BeginDrain, plan, context
<1>28. CASE UNCHANGED vars
  BY <1>28 DEF vars
<1> QED
  BY Branches, <1>1, <1>2, <1>3, <1>4, <1>5, <1>6, <1>7, <1>8, <1>9, <1>10, <1>11,
     <1>12, <1>13, <1>14, <1>15, <1>16, <1>17, <1>18, <1>19, <1>20, <1>21, <1>22, <1>23,
     <1>24, <1>25, <1>26, <1>27, <1>28 DEF ConsumerStep, ApiStep, ApplierStep

(* What is approved or admitted was reviewed.                              *)
LEMMA ReviewStep ==
    ASSUME TypeOK, FlightInv, ReviewInv, [Next]_vars
    PROVE  ReviewInv'
<1> USE PlanConstants DEF ReviewInv, FlightInv, Untouched, NeedsApproval, TypeOK,
   PlanRow, WorkerState, IdleWorker, ClientState, IdleClient, ApplyState, Queued,
   InFlight
<1>1. ASSUME NEW w \in Workers, Deliver(w) PROVE ReviewInv'
  BY <1>1 DEF Deliver, plan, context
<1>2. ASSUME NEW w \in Workers, NEW pc \in {"claim", "reject"}, Prepares(w, pc)
      PROVE  ReviewInv'
  BY <1>2 DEF Prepares, Become, Elsewhere, context
<1>3. ASSUME NEW w \in Workers, Rejects(w) PROVE ReviewInv'
  BY <1>3 DEF Rejects, Become, Elsewhere, Rewritten, context
<1>4. ASSUME NEW w \in Workers, Claims(w) PROVE ReviewInv'
  BY <1>4 DEF Claims, Elsewhere, context
<1>5. ASSUME NEW w \in Workers, Renews(w) PROVE ReviewInv'
  BY <1>5 DEF Renews, Elsewhere, context
<1>6. ASSUME NEW w \in Workers, Completes(w) PROVE ReviewInv'
  BY <1>6 DEF Completes, Stop, Elsewhere, Rewritten, context
<1>7. ASSUME NEW w \in Workers, Fails(w) PROVE ReviewInv'
  BY <1>7 DEF Fails, Become, Elsewhere, Rewritten, context
<1>8. ASSUME NEW w \in Workers, Requeues(w) PROVE ReviewInv'
  BY <1>8 DEF Requeues, Stop, Elsewhere, context
<1>9. ASSUME NEW w \in Workers, RetireInputs(w) PROVE ReviewInv'
  BY <1>9 DEF RetireInputs, Stop, context
<1>10. ASSUME NEW w \in Workers, Crash(w) PROVE ReviewInv'
  BY <1>10 DEF Crash, Stop, Fault, plan, context
<1>11. ASSUME NEW w \in Workers, Loses(w) PROVE ReviewInv'
  BY <1>11 DEF Loses, Owns, Stop, Elsewhere, context
<1>12. ASSUME NEW c \in Clients, ReadApprove(c) PROVE ReviewInv'
  BY <1>12 DEF ReadApprove, AwaitsApproval, Call, plan, context
<1>13. ASSUME NEW c \in Clients, Approves(c) PROVE ReviewInv'
  BY <1>13 DEF Approves, Return
<1>14. ASSUME NEW c \in Clients, ReadCancel(c) PROVE ReviewInv'
  BY <1>14 DEF ReadCancel, AwaitsApproval, Call, plan, context
<1>15. ASSUME NEW c \in Clients, ReadSettle(c) PROVE ReviewInv'
  BY <1>15 DEF ReadSettle, AwaitsApproval, Call, plan, context
<1>16. ASSUME NEW c \in Clients, Cancels(c) PROVE ReviewInv'
  BY <1>16 DEF Cancels, Elsewhere, Rewritten, context
<1>17. ASSUME NEW c \in Clients, RetireCancelled(c) PROVE ReviewInv'
  BY <1>17 DEF RetireCancelled, Return, context
<1>18. ASSUME NEW c \in Clients, Yields(c) PROVE ReviewInv'
  BY <1>18 DEF Yields, Return, Elsewhere, context
<1>19. ASSUME NEW a \in Applies, PrepareApply(a) PROVE ReviewInv'
  BY <1>19 DEF PrepareApply, Applying, plan, context
<1>20. ASSUME NEW a \in Applies, BeginApply(a) PROVE ReviewInv'
  BY <1>20 DEF BeginApply, Applying, plan, context
<1>21. ASSUME NEW a \in Applies, DeliverApply(a) PROVE ReviewInv'
  BY <1>21 DEF DeliverApply, plan, context
<1>22. ASSUME NEW a \in Applies, Commits(a) PROVE ReviewInv'
  BY <1>22 DEF Commits, Applying
<1>23. ASSUME NEW a \in Applies, Abandons(a) PROVE ReviewInv'
  BY <1>23 DEF Abandons, Applying, plan, context
<1>24. ASSUME NEW a \in Applies, RetireApplied(a) PROVE ReviewInv'
  BY <1>24 DEF RetireApplied, Applying, context
<1>25. ASSUME GoStale PROVE ReviewInv'
  BY <1>25 DEF GoStale, Fault, Owns, context
<1>26. ASSUME MarksFailed PROVE ReviewInv'
  BY <1>26 DEF MarksFailed, Rewritten, context
<1>27. ASSUME BeginDrain PROVE ReviewInv'
  BY <1>27 DEF BeginDrain, plan, context
<1>28. CASE UNCHANGED vars
  BY <1>28 DEF vars
<1> QED
  BY Branches, <1>1, <1>2, <1>3, <1>4, <1>5, <1>6, <1>7, <1>8, <1>9, <1>10, <1>11,
     <1>12, <1>13, <1>14, <1>15, <1>16, <1>17, <1>18, <1>19, <1>20, <1>21, <1>22, <1>23,
     <1>24, <1>25, <1>26, <1>27, <1>28 DEF ConsumerStep, ApiStep, ApplierStep

(* Inputs are retired only after the plan has settled or was applied.      *)
LEMMA RetireStep ==
    ASSUME TypeOK, FlightInv, GateInv, RetireInv, [Next]_vars
    PROVE  RetireInv'
<1> USE PlanConstants DEF RetireInv, FlightInv, Untouched, GateInv, Passed, TypeOK,
   PlanRow, WorkerState, IdleWorker, ClientState, IdleClient, ApplyState, Queued,
   InFlight
<1>1. ASSUME NEW w \in Workers, Deliver(w) PROVE RetireInv'
  BY <1>1 DEF Deliver, plan, context
<1>2. ASSUME NEW w \in Workers, NEW pc \in {"claim", "reject"}, Prepares(w, pc)
      PROVE  RetireInv'
  BY <1>2 DEF Prepares, Become, Elsewhere, context
<1>3. ASSUME NEW w \in Workers, Rejects(w) PROVE RetireInv'
  BY <1>3 DEF Rejects, Become, Elsewhere, Rewritten, context
<1>4. ASSUME NEW w \in Workers, Claims(w) PROVE RetireInv'
  BY <1>4 DEF Claims, Elsewhere, context
<1>5. ASSUME NEW w \in Workers, Renews(w) PROVE RetireInv'
  BY <1>5 DEF Renews, Elsewhere, context
<1>6. ASSUME NEW w \in Workers, Completes(w) PROVE RetireInv'
  BY <1>6 DEF Completes, Stop, Elsewhere, Rewritten, context
<1>7. ASSUME NEW w \in Workers, Fails(w) PROVE RetireInv'
  BY <1>7 DEF Fails, Become, Elsewhere, Rewritten, context
<1>8. ASSUME NEW w \in Workers, Requeues(w) PROVE RetireInv'
  BY <1>8 DEF Requeues, Stop, Elsewhere, context
<1>9. ASSUME NEW w \in Workers, RetireInputs(w) PROVE RetireInv'
  BY <1>9 DEF RetireInputs, Stop, context
<1>10. ASSUME NEW w \in Workers, Crash(w) PROVE RetireInv'
  BY <1>10 DEF Crash, Stop, Fault, plan, context
<1>11. ASSUME NEW w \in Workers, Loses(w) PROVE RetireInv'
  BY <1>11 DEF Loses, Owns, Stop, Elsewhere, context
<1>12. ASSUME NEW c \in Clients, ReadApprove(c) PROVE RetireInv'
  BY <1>12 DEF ReadApprove, AwaitsApproval, Call, plan, context
<1>13. ASSUME NEW c \in Clients, Approves(c) PROVE RetireInv'
  BY <1>13 DEF Approves, Return
<1>14. ASSUME NEW c \in Clients, ReadCancel(c) PROVE RetireInv'
  BY <1>14 DEF ReadCancel, AwaitsApproval, Call, plan, context
<1>15. ASSUME NEW c \in Clients, ReadSettle(c) PROVE RetireInv'
  BY <1>15 DEF ReadSettle, AwaitsApproval, Call, plan, context
<1>16. ASSUME NEW c \in Clients, Cancels(c) PROVE RetireInv'
  BY <1>16 DEF Cancels, Elsewhere, Rewritten, context
<1>17. ASSUME NEW c \in Clients, RetireCancelled(c) PROVE RetireInv'
  BY <1>17 DEF RetireCancelled, Return, context
<1>18. ASSUME NEW c \in Clients, Yields(c) PROVE RetireInv'
  BY <1>18 DEF Yields, Return, Elsewhere, context
<1>19. ASSUME NEW a \in Applies, PrepareApply(a) PROVE RetireInv'
  BY <1>19 DEF PrepareApply, Applying, plan, context
<1>20. ASSUME NEW a \in Applies, BeginApply(a) PROVE RetireInv'
  BY <1>20 DEF BeginApply, Applying, plan, context
<1>21. ASSUME NEW a \in Applies, DeliverApply(a) PROVE RetireInv'
  BY <1>21 DEF DeliverApply, plan, context
<1>22. ASSUME NEW a \in Applies, Commits(a) PROVE RetireInv'
  BY <1>22 DEF Commits, Applying
<1>23. ASSUME NEW a \in Applies, Abandons(a) PROVE RetireInv'
  BY <1>23 DEF Abandons, Applying, plan, context
<1>24. ASSUME NEW a \in Applies, RetireApplied(a) PROVE RetireInv'
  BY <1>24 DEF RetireApplied, Applying, context
<1>25. ASSUME GoStale PROVE RetireInv'
  BY <1>25 DEF GoStale, Fault, Owns, context
<1>26. ASSUME MarksFailed PROVE RetireInv'
  BY <1>26 DEF MarksFailed, Rewritten, context
<1>27. ASSUME BeginDrain PROVE RetireInv'
  BY <1>27 DEF BeginDrain, plan, context
<1>28. CASE UNCHANGED vars
  BY <1>28 DEF vars
<1> QED
  BY Branches, <1>1, <1>2, <1>3, <1>4, <1>5, <1>6, <1>7, <1>8, <1>9, <1>10, <1>11,
     <1>12, <1>13, <1>14, <1>15, <1>16, <1>17, <1>18, <1>19, <1>20, <1>21, <1>22, <1>23,
     <1>24, <1>25, <1>26, <1>27, <1>28 DEF ConsumerStep, ApiStep, ApplierStep

-----------------------------------------------------------------------------
LEMMA InitInv == Init => IInv
<1> SUFFICES ASSUME Init PROVE IInv
  OBVIOUS
<1>1. TypeOK
  BY InitType
<1>2. FlightInv /\ StaleInv /\ EvidenceInv /\ GateInv /\ ReviewInv /\ RetireInv
  BY DEF Init, FlightInv, Untouched, StaleInv, EvidenceInv, Executed, GateInv, Passed,
     ReviewInv, RetireInv, Queued, IdleWorker, IdleClient, Unapplied
<1>3. BudgetInv
  BY PlanConstants DEF Init, BudgetInv, Healthy, Queued
<1> QED
  BY <1>1, <1>2, <1>3 DEF IInv

LEMMA NextInv == IInv /\ [Next]_vars => IInv'
BY TypeStep, FlightStep, StaleStep, BudgetStep, EvidenceStep, GateStep, ReviewStep,
   RetireStep DEF IInv

(* The inductive invariant holds in every reachable state.                 *)
THEOREM PlanInvariant == Spec => []IInv
<1>1. Init => IInv
  BY InitInv
<1>2. IInv /\ [Next]_vars => IInv'
  BY NextInv
<1> QED
  BY <1>1, <1>2, PTL DEF Spec

(* Rows, memories and stamps keep their types: the claims and renewals of  *)
(* a plan are bounded by its retries and faults.                           *)
THEOREM PlanTypeCorrect == Spec => []TypeOK
<1>1. IInv => TypeOK
  BY DEF IInv
<1> QED
  BY <1>1, PlanInvariant, PTL

(* An ApplyRun is admitted only against a plan reviewed as its kind asks,  *)
(* and what it commits leaves the plan succeeded, approved and marked.     *)
THEOREM PlanAppliedIsReviewed == Spec => []AppliedIsReviewed
<1>1. IInv => AppliedIsReviewed
  BY DEF IInv, GateInv, Passed, ReviewInv, AppliedIsReviewed
<1> QED
  BY <1>1, PlanInvariant, PTL

(* A plan that may still run, be approved or be applied has its inputs.    *)
THEOREM PlanInputsKept == Spec => []InputsKept
<1>1. IInv => InputsKept
  BY DEF IInv, TypeOK, RetireInv, InputsKept, InFlight
<1> QED
  BY <1>1, PlanInvariant, PTL

(* An approval behind the persisted gate is final.                         *)
THEOREM PlanGateIsFinal == Spec => GateIsFinal
<1> DEFINE Final == row.approval # None /\ kind # "gated" =>
                      row'.approval = row.approval /\ row'.status = row.status
<1>1. ASSUME IInv, [Next]_vars PROVE Final
  <2> SUFFICES ASSUME row.approval # None, kind # "gated"
               PROVE  row'.approval = row.approval /\ row'.status = row.status
    OBVIOUS
  <2>1. row.status = "succeeded" /\ TypeOK
    BY <1>1 DEF IInv, GateInv
  <2>2. ASSUME NEW w \in Workers, ConsumerStep(w) PROVE UNCHANGED row
    BY <1>1, <2>1, <2>2 DEF IInv, FlightInv, InFlight, ConsumerStep, Deliver, Prepares,
       Rejects, Claims, Renews, Completes, Fails, Requeues, RetireInputs, Crash, Loses, plan
  <2>3. ASSUME NEW c \in Clients, ApiStep(c) PROVE UNCHANGED row
    BY <1>1, <2>1, <2>3 DEF IInv, GateInv, ApiStep, ReadApprove, Approves, ReadCancel,
       ReadSettle, Cancels, RetireCancelled, Yields, plan
  <2>4. ASSUME NEW a \in Applies, ApplierStep(a)
        PROVE  row'.approval = row.approval /\ row'.status = row.status
    <3>1. CASE Commits(a)
      BY <1>1, <2>1, <3>1 DEF IInv, GateInv, Passed, Commits
    <3> QED
      BY <2>4, <3>1 DEF ApplierStep, PrepareApply, BeginApply, DeliverApply, Abandons,
         RetireApplied, plan
  <2> QED
    BY <1>1, <2>1, <2>2, <2>3, <2>4, Branches
    DEF GoStale, MarksFailed, BeginDrain, vars, plan
<1>2. IInv /\ [Next]_vars => [Final]_vars
  BY <1>1
<1> QED
  BY <1>2, PlanInvariant, PTL DEF Spec, GateIsFinal

(* No handler that read the row before the execution erases its evidence.  *)
THEOREM PlanEvidenceKept == Spec => EvidenceKept
<1> DEFINE Kept == row.started # 0 => row'.started # 0
<1>1. ASSUME IInv, [Next]_vars PROVE Kept
  <2> SUFFICES ASSUME row.started # 0 PROVE row'.started # 0
    OBVIOUS
  <2>1. TypeOK
    BY <1>1 DEF IInv
  <2>2. ASSUME NEW w \in Workers, ConsumerStep(w) PROVE row'.started # 0
    <3>1. CASE Claims(w)
      <4>1. stamp + 1 # 0
        BY <2>1 DEF TypeOK
      <4> QED
        BY <3>1, <4>1 DEF Claims
    <3>2. CASE Renews(w) \/ Completes(w) \/ Fails(w) \/ Requeues(w)
      BY <1>1, <3>2 DEF IInv, EvidenceInv, Renews, Completes, Fails, Requeues, Rewritten
    <3>3. CASE Rejects(w)
      BY <3>3 DEF Rejects, Rewritten
    <3> QED
      BY <2>2, <3>1, <3>2, <3>3
      DEF ConsumerStep, Deliver, Prepares, RetireInputs, Crash, Loses, plan
  <2>3. ASSUME NEW c \in Clients, ApiStep(c) PROVE row'.started # 0
    <3>1. CASE RetireCancelled(c)
      BY <3>1 DEF RetireCancelled
    <3>2. CASE ~RetireCancelled(c)
      BY <1>1, <2>1, <2>3, <3>2 DEF IInv, EvidenceInv, ApiStep, ReadApprove, Approves,
         ReadCancel, ReadSettle, Cancels, Yields, Rewritten, plan
    <3> QED
      BY <3>1, <3>2
  <2>4. ASSUME NEW a \in Applies, ApplierStep(a) PROVE row'.started # 0
    <3>1. CASE Commits(a)
      BY <1>1, <3>1 DEF IInv, EvidenceInv, Commits
    <3> QED
      BY <2>4, <3>1 DEF ApplierStep, PrepareApply, BeginApply, DeliverApply, Abandons,
         RetireApplied, plan
  <2>5. CASE MarksFailed
    BY <2>5 DEF MarksFailed, Rewritten
  <2>6. CASE GoStale \/ BeginDrain \/ UNCHANGED vars
    BY <2>6 DEF GoStale, BeginDrain, vars, plan
  <2> QED
    BY <1>1, <2>1, <2>2, <2>3, <2>4, <2>5, <2>6, Branches
<1>2. IInv /\ [Next]_vars => [Kept]_vars
  BY <1>1
<1> QED
  BY <1>2, PlanInvariant, PTL DEF Spec, EvidenceKept

(* An owner with a fresh heartbeat is not displaced by a takeover.         *)
THEOREM PlanLiveOwnerKept == Spec => LiveOwnerKept
<1> DEFINE Kept == row.status = "running" /\ fresh => row'.lease \in {row.lease, 0}
<1>1. ASSUME IInv, [Next]_vars PROVE Kept
  <2> SUFFICES ASSUME row.status = "running", fresh PROVE row'.lease \in {row.lease, 0}
    OBVIOUS
  <2>1. TypeOK
    BY <1>1 DEF IInv
  <2>2. ASSUME NEW w \in Workers, ConsumerStep(w) PROVE row'.lease \in {row.lease, 0}
    <3>1. ~Claims(w)
      BY <1>1 DEF IInv, StaleInv, Claims
    <3>2. CASE Rejects(w) \/ Completes(w) \/ Fails(w) \/ Requeues(w)
      <4>1. ASSUME NEW p, NEW status PROVE Rewritten(p, status, 0).lease = 0
        BY DEF Rewritten
      <4>2. CASE Requeues(w)
        BY <4>2 DEF Requeues
      <4> QED
        BY <3>2, <4>1, <4>2 DEF Rejects, Completes, Fails
    <3>3. CASE Renews(w)
      <4>1. row'.lease = row.lease
        BY <3>3 DEF Renews
      <4> QED
        BY <4>1
    <3> QED
      BY <2>2, <3>1, <3>2, <3>3
      DEF ConsumerStep, Deliver, Prepares, RetireInputs, Crash, Loses, plan
  <2>3. ASSUME NEW c \in Clients, ApiStep(c) PROVE row'.lease \in {row.lease, 0}
    <3>1. CASE Cancels(c)
      <4>1. row'.lease = 0
        BY <3>1 DEF Cancels, Rewritten
      <4> QED
        BY <4>1
    <3>2. CASE Approves(c)
      <4>1. row'.lease = row.lease
        BY <3>2 DEF Approves
      <4> QED
        BY <4>1
    <3> QED
      BY <2>3, <3>1, <3>2
      DEF ApiStep, ReadApprove, ReadCancel, ReadSettle, RetireCancelled, Yields, plan
  <2>4. ASSUME NEW a \in Applies, ApplierStep(a) PROVE row'.lease \in {row.lease, 0}
    <3>1. ~Commits(a)
      BY <1>1 DEF IInv, FlightInv, InFlight, Commits
    <3> QED
      BY <2>4, <3>1 DEF ApplierStep, PrepareApply, BeginApply, DeliverApply, Abandons,
         RetireApplied, plan
  <2>5. CASE MarksFailed
    BY <2>5 DEF MarksFailed, Rewritten
  <2>6. CASE GoStale \/ BeginDrain \/ UNCHANGED vars
    BY <2>6 DEF GoStale, BeginDrain, vars, plan
  <2> QED
    BY <1>1, <2>1, <2>2, <2>3, <2>4, <2>5, <2>6, Branches
<1>2. IInv /\ [Next]_vars => [Kept]_vars
  BY <1>1
<1> QED
  BY <1>2, PlanInvariant, PTL DEF Spec, LiveOwnerKept

=============================================================================
