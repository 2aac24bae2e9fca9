--------------------------- MODULE ApplyRunProofs ---------------------------
(***************************************************************************)
(* Safety of the apply pipeline for every set of plans, applies and        *)
(* consumers, every assignment of deliveries to consumers, and every       *)
(* stamp, retry and fault bound.                                           *)
(***************************************************************************)
EXTENDS ApplyRun, TLAPS

-----------------------------------------------------------------------------
(* The inductive invariant.                                                *)

InFlight == {"queued", "running"}

(* A row on record was admitted for a planned plan; until then a call may  *)
(* hold one.                                                               *)
AdmitInv ==
    /\ \A a \in Applies :
         /\ prepared[a] # {} => run[a].status = "none"
         /\ \A held \in prepared[a] : plan[held.plan].planned
         /\ run[a].status # "none" => PlanOf(a) \in Plans /\ plan[PlanOf(a)].planned
    /\ \A p \in Plans : ~plan[p].planned => plan[p].appliedBy = None

(* What a consumer relies on from its earlier steps: nobody took the row,  *)
(* the start, the marker, the StateVersion or the capture away.            *)
Informed(w) ==
    /\ worker[w].pc # "idle" => run[RunOf[w]].status # "none"
    /\ worker[w].pc \in {"read", "claim"} => worker[w].seen.status \in InFlight
    /\ worker[w].pc = "dispatched" => run[RunOf[w]].started # 0
    /\ worker[w].pc = "replay" => plan[PlanOf(RunOf[w])].appliedBy # None
    /\ worker[w].pc = "capture" => RunOf[w] \in Committed
    /\ worker[w].pc = "mark" => RunOf[w] \in captured

WorkInv == \A w \in Workers : Informed(w)

(* No two consumers of a run hold the same token.                          *)
TokenInv ==
    \A v, w \in Workers :
        /\ RunOf[v] = RunOf[w]
        /\ worker[v].token = worker[w].token
        /\ worker[w].token # 0
        => v = w

(* A start is on record before the provider is reached, and stays.         *)
StartInv ==
    \A a \in Applies :
        /\ run[a].status = "running" => run[a].started # 0
        /\ a \in touched => run[a].started # 0
        /\ run[a].status = "cancelled" => run[a].started = 0

(* A StateVersion stands one generation above the base of its plan, and a  *)
(* base is a point of the line of generations.                             *)
BaseInv ==
    /\ \A p \in Plans :
         /\ plan[p].gen <= capsule.gen
         /\ IF plan[p].gen = 0 THEN plan[p].version = None
            ELSE plan[p].version \in Committed
                 /\ generation[plan[p].version] = plan[p].gen
    /\ \A a \in Committed :
         PlanOf(a) \in Plans /\ generation[a] = plan[PlanOf(a)].gen + 1

PendingInv ==
    \A a \in Applies : run[a].billing = "pending" => a \in Committed

(* The apply-once marker names a finished apply of its own plan.           *)
MarkerInv ==
    \A p \in Plans :
        plan[p].appliedBy # None => PlanOf(plan[p].appliedBy) = p

FrozenInv ==
    management = "frozen" =>
        \A a \in Applies :
            run[a].status \in {"none"} \cup Terminal /\ run[a].billing # "pending"

IInv ==
    /\ TypeOK
    /\ AdmitInv
    /\ WorkInv
    /\ TokenInv
    /\ StartInv
    /\ BaseInv
    /\ GenerationChain
    /\ PendingInv
    /\ MarkerInv
    /\ CommitNotTorn
    /\ SucceededIsLedgered
    /\ FrozenInv

-----------------------------------------------------------------------------
(* What a step does to the ledger and the rows, whichever consumer takes   *)
(* it: the fields the invariant speaks of, one by one.                     *)

core == <<management, capsule, plan, run, generation, captured, touched, prepared>>

OtherRows(a) ==
    /\ run' \in [Applies -> RunRow]
    /\ \A b \in Applies \ {a} : run'[b] = run[b]

Row(a, status, started, version, capture) ==
    /\ OtherRows(a)
    /\ run'[a].plan = run[a].plan
    /\ run'[a].status = status
    /\ run'[a].started = started
    /\ run'[a].version = version
    /\ run'[a].billing = capture

Status(a, status) == Row(a, status, run[a].started, run[a].version, run[a].billing)

Admitted(a, p) ==
    /\ OtherRows(a)
    /\ run'[a].plan = p
    /\ run'[a].status = "queued"
    /\ run'[a].started = run[a].started
    /\ run'[a].version = run[a].version
    /\ run'[a].billing = run[a].billing

Admits(a, held) ==
    /\ management = "active"
    /\ held \in prepared[a]
    /\ Admitted(a, held.plan)
    /\ prepared' = [prepared EXCEPT ![a] = {}]
    /\ UNCHANGED <<management, ledger, captured, touched>>

Refuses(a) ==
    /\ prepared' = [prepared EXCEPT ![a] = {}]
    /\ UNCHANGED <<management, ledger, run, captured, touched>>

Cancels(a) ==
    /\ run[a].status = "queued"
    /\ run[a].started = 0
    /\ Status(a, "cancelled")
    /\ UNCHANGED <<admission, ledger, captured, touched>>

Fails(a) ==
    /\ run[a].status \in InFlight
    /\ Status(a, "failed")
    /\ UNCHANGED <<admission, ledger, captured, touched>>

Claims(a) ==
    /\ run[a].status \in InFlight
    /\ Row(a, "running", run'[a].started, run[a].version, run[a].billing)
    /\ run'[a].started # 0
    /\ UNCHANGED <<admission, ledger, captured, touched>>

Beats(a) ==
    /\ run[a].status = "running"
    /\ Status(a, "running")
    /\ touched' \in {touched, touched \cup {a}}
    /\ UNCHANGED <<admission, ledger, captured>>

Touches(a) ==
    /\ run[a].started # 0
    /\ touched' = touched \cup {a}
    /\ UNCHANGED <<admission, ledger, run, captured>>

Requeues(a) ==
    /\ run[a].status = "running"
    /\ Status(a, "queued")
    /\ UNCHANGED <<admission, ledger, captured, touched>>

Replays(a) ==
    LET b == plan[PlanOf(a)].appliedBy
    IN  /\ run[a].status = "running"
        /\ b # None
        /\ run[b].status = "succeeded"
        /\ Row(a, "succeeded", run[a].started, run[b].version, run[a].billing)
        /\ UNCHANGED <<admission, ledger, captured, touched>>

(* The apply-once marker of a plan is written, its base stays.             *)
Marked(p, a) ==
    /\ plan' \in [Plans -> PlanRow]
    /\ \A q \in Plans \ {p} : plan'[q] = plan[q]
    /\ plan'[p].appliedBy = a
    /\ plan'[p].planned = plan[p].planned
    /\ plan'[p].version = plan[p].version
    /\ plan'[p].gen = plan[p].gen

(* The commit of a StateVersion, and of a failure that left none.          *)
Commits(a, status, capture) ==
    LET p == PlanOf(a)
    IN  /\ run[a].status = "running"
        /\ capsule.version = plan[p].version
        /\ Row(a, status, run[a].started, a, capture)
        /\ Marked(p, a)
        /\ capsule' \in CapsuleRow
        /\ capsule'.version = a
        /\ capsule'.gen = plan[p].gen + 1
        /\ generation' \in [Applies -> Nat]
        /\ generation'[a] = plan[p].gen + 1
        /\ \A b \in Applies \ {a} : generation'[b] = generation[b]
        /\ UNCHANGED <<admission, captured, touched>>

CommitsFailure(a) ==
    LET p == PlanOf(a)
    IN  /\ run[a].status = "running"
        /\ capsule.version = plan[p].version
        /\ Status(a, "failed")
        /\ Marked(p, a)
        /\ capsule' \in CapsuleRow
        /\ capsule'.version = capsule.version
        /\ capsule'.gen = capsule.gen
        /\ UNCHANGED <<admission, generation, captured, touched>>

Captures(a) ==
    /\ a \in Committed
    /\ captured' = captured \cup {a}
    /\ UNCHANGED <<admission, ledger, run, touched>>

Marks(a) ==
    /\ run[a].billing = "pending"
    /\ a \in captured
    /\ Row(a, run[a].status, run[a].started, run[a].version, "done")
    /\ run' = [run EXCEPT ![a].billing = "done"]
    /\ UNCHANGED <<admission, ledger, captured, touched>>

RowStep(a) ==
    \/ \E held \in prepared[a] : Admits(a, held)
    \/ Refuses(a) \/ Cancels(a) \/ Fails(a) \/ Claims(a) \/ Beats(a) \/ Touches(a)
    \/ Requeues(a) \/ Replays(a)
    \/ \E status \in {"succeeded", "failed"}, capture \in {run[a].billing, "pending"} :
         Commits(a, status, capture)
    \/ CommitsFailure(a) \/ Captures(a) \/ Marks(a)

CoreStep ==
    \/ UNCHANGED core
    \/ \E p \in Plans : CreatePlan(p)
    \/ \E a \in Applies, p \in Plans : PrepareApply(a, p)
    \/ BeginWorkspaceDraining \/ FreezeWorkspace
    \/ \E a \in Applies : RowStep(a)

(* A fresh stamp is in range, is not 0 and nobody of the run holds it.     *)
LEMMA FreshIsUnused ==
    ASSUME NEW a \in Applies, FreshStamps(a) # {}
    PROVE  Fresh(a) \in (1 .. MaxStamp) \ UsedStamps(a)
  BY DEF Fresh, FreshStamps

(* It is a stamp, and not the absent one.                                  *)
LEMMA FreshIsStamp ==
    ASSUME NEW a \in Applies, FreshStamps(a) # {}
    PROVE  Fresh(a) \in Stamps /\ Fresh(a) # 0 /\ Fresh(a) \in Nat
  BY FreshIsUnused, ApplyConstants DEF Stamps

(* The failure of a row sets these fields and keeps the others.            *)
LEMMA WriteFailure ==
    ASSUME TypeOK, NEW a \in Applies, NEW e \in {"no", "yes"}
    PROVE  run' = [run EXCEPT ![a].status = "failed", ![a].lease = 0,
                             ![a].evidence = e]
             => Status(a, "failed")
<1>1. PICK r \in RunRow : r = run[a]
  BY DEF TypeOK
<1>2. PICK q : q = [r EXCEPT !.status = "failed", !.lease = 0, !.evidence = e]
  OBVIOUS
<1>3. SUFFICES ASSUME run' = [run EXCEPT ![a] = q]
               PROVE  Status(a, "failed")
  BY <1>1, <1>2
<1>4. q = [status |-> "failed", started |-> r.started, beat |-> r.beat, lease |-> 0,
           retries |-> r.retries, plan |-> r.plan, version |-> r.version,
           evidence |-> e, billing |-> r.billing]
  BY <1>2 DEF RunRow
<1>5. q \in RunRow
  BY <1>4, ApplyConstants DEF RunRow, Stamps
<1> QED
  BY <1>1, <1>3, <1>4, <1>5 DEF Status, Row, OtherRows, TypeOK

(* The admission of a row.                                                 *)
LEMMA WriteAdmission ==
    ASSUME TypeOK, NEW a \in Applies, NEW p \in Plans
    PROVE  run' = [run EXCEPT ![a].status = "queued", ![a].plan = p]
             => Admitted(a, p)
<1>1. PICK r \in RunRow : r = run[a]
  BY DEF TypeOK
<1>2. PICK q : q = [r EXCEPT !.status = "queued", !.plan = p]
  OBVIOUS
<1>3. SUFFICES ASSUME run' = [run EXCEPT ![a] = q]
               PROVE  Admitted(a, p)
  BY <1>1, <1>2
<1>4. q = [status |-> "queued", started |-> r.started, beat |-> r.beat,
           lease |-> r.lease, retries |-> r.retries, plan |-> p,
           version |-> r.version, evidence |-> r.evidence, billing |-> r.billing]
  BY <1>2 DEF RunRow
<1>5. q \in RunRow
  BY <1>4, ApplyConstants DEF RunRow, Stamps
<1> QED
  BY <1>1, <1>3, <1>4, <1>5 DEF Admitted, OtherRows, TypeOK

(* The cancellation of a row.                                              *)
LEMMA WriteCancel ==
    ASSUME TypeOK, NEW a \in Applies
    PROVE  run' = [run EXCEPT ![a].status = "cancelled", ![a].lease = 0]
             => Status(a, "cancelled")
<1>1. PICK r \in RunRow : r = run[a]
  BY DEF TypeOK
<1>2. PICK q : q = [r EXCEPT !.status = "cancelled", !.lease = 0]
  OBVIOUS
<1>3. SUFFICES ASSUME run' = [run EXCEPT ![a] = q]
               PROVE  Status(a, "cancelled")
  BY <1>1, <1>2
<1>4. q = [status |-> "cancelled", started |-> r.started, beat |-> r.beat,
           lease |-> 0, retries |-> r.retries, plan |-> r.plan,
           version |-> r.version, evidence |-> r.evidence, billing |-> r.billing]
  BY <1>2 DEF RunRow
<1>5. q \in RunRow
  BY <1>4, ApplyConstants DEF RunRow, Stamps
<1> QED
  BY <1>1, <1>3, <1>4, <1>5 DEF Status, Row, OtherRows, TypeOK

(* The claim of a row: one stamp for its start, heartbeat and token.       *)
LEMMA WriteClaim ==
    ASSUME TypeOK, NEW a \in Applies, NEW s \in Stamps
    PROVE  run' = [run EXCEPT ![a].status = "running", ![a].started = s,
                             ![a].beat = s, ![a].lease = s]
             => Row(a, "running", s, run[a].version, run[a].billing)
<1>1. PICK r \in RunRow : r = run[a]
  BY DEF TypeOK
<1>2. PICK q : q = [r EXCEPT !.status = "running", !.started = s, !.beat = s,
                             !.lease = s]
  OBVIOUS
<1>3. SUFFICES ASSUME run' = [run EXCEPT ![a] = q]
               PROVE  Row(a, "running", s, run[a].version, run[a].billing)
  BY <1>1, <1>2
<1>4. q = [status |-> "running", started |-> s, beat |-> s, lease |-> s,
           retries |-> r.retries, plan |-> r.plan, version |-> r.version,
           evidence |-> r.evidence, billing |-> r.billing]
  BY <1>2 DEF RunRow
<1>5. q \in RunRow
  BY <1>4, ApplyConstants DEF RunRow, Stamps
<1> QED
  BY <1>1, <1>3, <1>4, <1>5 DEF Status, Row, OtherRows, TypeOK

(* A heartbeat.                                                            *)
LEMMA WriteBeat ==
    ASSUME TypeOK, NEW a \in Applies, NEW s \in Stamps
    PROVE  run' = [run EXCEPT ![a].beat = s]
             => Status(a, run[a].status)
<1>1. PICK r \in RunRow : r = run[a]
  BY DEF TypeOK
<1>2. PICK q : q = [r EXCEPT !.beat = s]
  OBVIOUS
<1>3. SUFFICES ASSUME run' = [run EXCEPT ![a] = q]
               PROVE  Status(a, run[a].status)
  BY <1>1, <1>2
<1>4. q = [status |-> r.status, started |-> r.started, beat |-> s,
           lease |-> r.lease, retries |-> r.retries, plan |-> r.plan,
           version |-> r.version, evidence |-> r.evidence, billing |-> r.billing]
  BY <1>2 DEF RunRow
<1>5. q \in RunRow
  BY <1>4, ApplyConstants DEF RunRow, Stamps
<1> QED
  BY <1>1, <1>3, <1>4, <1>5 DEF Status, Row, OtherRows, TypeOK

(* A requeue.                                                              *)
LEMMA WriteQueued ==
    ASSUME TypeOK, NEW a \in Applies
    PROVE  run' = [run EXCEPT ![a].status = "queued", ![a].lease = 0, ![a].beat = 0]
             => Status(a, "queued")
<1>1. PICK r \in RunRow : r = run[a]
  BY DEF TypeOK
<1>2. PICK q : q = [r EXCEPT !.status = "queued", !.lease = 0, !.beat = 0]
  OBVIOUS
<1>3. SUFFICES ASSUME run' = [run EXCEPT ![a] = q]
               PROVE  Status(a, "queued")
  BY <1>1, <1>2
<1>4. q = [status |-> "queued", started |-> r.started, beat |-> 0, lease |-> 0,
           retries |-> r.retries, plan |-> r.plan, version |-> r.version,
           evidence |-> r.evidence, billing |-> r.billing]
  BY <1>2 DEF RunRow
<1>5. q \in RunRow
  BY <1>4, ApplyConstants DEF RunRow, Stamps
<1> QED
  BY <1>1, <1>3, <1>4, <1>5 DEF Status, Row, OtherRows, TypeOK

(* A requeue that counts against the retry limit.                          *)
LEMMA WriteRetry ==
    ASSUME TypeOK, NEW a \in Applies, NEW n \in 0 .. RetryLimit
    PROVE  run' = [run EXCEPT ![a].status = "queued", ![a].lease = 0, ![a].beat = 0,
                             ![a].retries = n]
             => Status(a, "queued")
<1>1. PICK r \in RunRow : r = run[a]
  BY DEF TypeOK
<1>2. PICK q : q = [r EXCEPT !.status = "queued", !.lease = 0, !.beat = 0,
                             !.retries = n]
  OBVIOUS
<1>3. SUFFICES ASSUME run' = [run EXCEPT ![a] = q]
               PROVE  Status(a, "queued")
  BY <1>1, <1>2
<1>4. q = [status |-> "queued", started |-> r.started, beat |-> 0, lease |-> 0,
           retries |-> n, plan |-> r.plan, version |-> r.version,
           evidence |-> r.evidence, billing |-> r.billing]
  BY <1>2 DEF RunRow
<1>5. q \in RunRow
  BY <1>4, ApplyConstants DEF RunRow, Stamps
<1> QED
  BY <1>1, <1>3, <1>4, <1>5 DEF Status, Row, OtherRows, TypeOK

(* A run that takes over the StateVersion of another.                      *)
LEMMA WriteReplay ==
    ASSUME TypeOK, NEW a \in Applies, NEW v \in Applies \cup {None}
    PROVE  run' = [run EXCEPT ![a].status = "succeeded", ![a].lease = 0,
                             ![a].version = v]
             => Row(a, "succeeded", run[a].started, v, run[a].billing)
<1>1. PICK r \in RunRow : r = run[a]
  BY DEF TypeOK
<1>2. PICK q : q = [r EXCEPT !.status = "succeeded", !.lease = 0, !.version = v]
  OBVIOUS
<1>3. SUFFICES ASSUME run' = [run EXCEPT ![a] = q]
               PROVE  Row(a, "succeeded", run[a].started, v, run[a].billing)
  BY <1>1, <1>2
<1>4. q = [status |-> "succeeded", started |-> r.started, beat |-> r.beat,
           lease |-> 0, retries |-> r.retries, plan |-> r.plan, version |-> v,
           evidence |-> r.evidence, billing |-> r.billing]
  BY <1>2 DEF RunRow
<1>5. q \in RunRow
  BY <1>4, ApplyConstants DEF RunRow, Stamps
<1> QED
  BY <1>1, <1>3, <1>4, <1>5 DEF Status, Row, OtherRows, TypeOK

(* The closing of a billing marker.                                        *)
LEMMA WriteCapture ==
    ASSUME TypeOK, NEW a \in Applies
    PROVE  run' = [run EXCEPT ![a].billing = "done"]
             => Row(a, run[a].status, run[a].started, run[a].version, "done")
<1>1. PICK r \in RunRow : r = run[a]
  BY DEF TypeOK
<1>2. PICK q : q = [r EXCEPT !.billing = "done"]
  OBVIOUS
<1>3. SUFFICES ASSUME run' = [run EXCEPT ![a] = q]
               PROVE  Row(a, run[a].status, run[a].started, run[a].version, "done")
  BY <1>1, <1>2
<1>4. q = [status |-> r.status, started |-> r.started, beat |-> r.beat,
           lease |-> r.lease, retries |-> r.retries, plan |-> r.plan,
           version |-> r.version, evidence |-> r.evidence, billing |-> "done"]
  BY <1>2 DEF RunRow
<1>5. q \in RunRow
  BY <1>4, ApplyConstants DEF RunRow, Stamps
<1> QED
  BY <1>1, <1>3, <1>4, <1>5 DEF Status, Row, OtherRows, TypeOK

(* The row of a ledger commit.                                             *)
LEMMA WriteCommit ==
    ASSUME TypeOK, NEW a \in Applies, NEW s \in Terminal,
           NEW v \in Applies \cup {None}, NEW e \in {"none", "no", "yes"},
           NEW b \in {"none", "pending", "done"}
    PROVE  run' = [run EXCEPT ![a].status = s, ![a].lease = 0, ![a].version = v,
                             ![a].evidence = e, ![a].billing = b]
             => Row(a, s, run[a].started, v, b)
<1>1. PICK r \in RunRow : r = run[a]
  BY DEF TypeOK
<1>2. PICK q : q = [r EXCEPT !.status = s, !.lease = 0, !.version = v,
                             !.evidence = e, !.billing = b]
  OBVIOUS
<1>3. SUFFICES ASSUME run' = [run EXCEPT ![a] = q]
               PROVE  Row(a, s, run[a].started, v, b)
  BY <1>1, <1>2
<1>4. q = [status |-> s, started |-> r.started, beat |-> r.beat, lease |-> 0,
           retries |-> r.retries, plan |-> r.plan, version |-> v, evidence |-> e,
           billing |-> b]
  BY <1>2 DEF RunRow
<1>5. q \in RunRow
  BY <1>4, ApplyConstants DEF RunRow, Stamps, Terminal
<1> QED
  BY <1>1, <1>3, <1>4, <1>5 DEF Status, Row, OtherRows, TypeOK

(* The refused or the performed write of a failure nobody claimed.         *)
LEMMA UnclaimedFailure ==
    ASSUME TypeOK, NEW a \in Applies, NEW seen, seen.status \in InFlight,
           PersistUnclaimedFailure(a, seen),
           UNCHANGED <<admission, ledger, captured, touched>>
    PROVE  UNCHANGED core \/ Fails(a)
<1>1. CASE run' = run
  BY <1>1 DEF core, admission, ledger
<1>2. CASE /\ run[a].status \in InFlight
           /\ run' = [run EXCEPT ![a].status = "failed", ![a].lease = 0,
                                 ![a].evidence = "no"]
  BY <1>2, WriteFailure DEF Fails
<1> QED
  BY <1>1, <1>2 DEF PersistUnclaimedFailure

(* The calls of the API take one of these branches.                        *)
LEMMA ApiBranches ==
    ASSUME TypeOK, NEW a \in Applies, Api(a)
    PROVE  CoreStep
<1>1. ASSUME BeginApplyRun(a) PROVE RowStep(a)
  <2>1. PICK held \in prepared[a] :
          run' = IF management = "active" /\ capsule = held.capsule
                 THEN [run EXCEPT ![a].status = "queued", ![a].plan = held.plan]
                 ELSE run
    BY <1>1 DEF BeginApplyRun
  <2>2. PICK p \in Plans : p = held.plan
    BY DEF TypeOK
  <2>3. CASE run' = run
    BY <1>1, <2>3 DEF BeginApplyRun, RowStep, Refuses, ledger, billing
  <2>4. CASE /\ management = "active"
             /\ run' = [run EXCEPT ![a].status = "queued", ![a].plan = p]
    <3>1. Admitted(a, held.plan)
      BY <2>2, <2>4, WriteAdmission
    <3> QED
      BY <1>1, <2>4, <3>1 DEF BeginApplyRun, RowStep, Admits, ledger, billing
  <2> QED
    BY <2>1, <2>2, <2>3, <2>4
<1>2. ASSUME CancelApply(a) PROVE RowStep(a)
  <2>1. Status(a, "cancelled")
    BY <1>2, WriteCancel DEF CancelApply
  <2> QED
    BY <1>2, <2>1 DEF CancelApply, RowStep, Cancels, billing, admission, ledger
<1>3. ASSUME MarkRunFailed(a) PROVE UNCHANGED core \/ RowStep(a)
  <2>1. run[a].status \in InFlight /\ UNCHANGED <<admission, ledger, captured, touched>>
    BY <1>3 DEF MarkRunFailed, InFlight, billing
  <2> QED
    BY <1>3, <2>1, UnclaimedFailure DEF MarkRunFailed, RowStep
<1> QED
  BY <1>1, <1>2, <1>3 DEF Api, CoreStep

(* A tick that renewed the heartbeat, whatever the provider did meanwhile. *)
LEMMA RenewedBranch ==
    ASSUME TypeOK, NEW a \in Applies, run[a].status = "running",
           FreshStamps(a) # {}, Beat(a),
           touched' \in {touched, touched \cup {a}},
           UNCHANGED <<admission, ledger, captured>>
    PROVE  RowStep(a)
<1>1. Status(a, "running")
  BY FreshIsStamp, WriteBeat DEF Beat
<1> QED
  BY <1>1 DEF RowStep, Beats

(* A provider that worked for a consumer whose tick failed, or that died.  *)
LEMMA TouchedBranch ==
    ASSUME NEW a \in Applies, run[a].started # 0,
           touched' \in {touched, touched \cup {a}},
           UNCHANGED <<admission, ledger, run, captured>>
    PROVE  UNCHANGED core \/ RowStep(a)
  BY DEF RowStep, Touches, core, admission, ledger

(* The write of the apply-once marker.                                     *)
LEMMA WriteMarker ==
    ASSUME TypeOK, NEW a \in Applies, NEW p \in Plans
    PROVE  plan' = [plan EXCEPT ![p].appliedBy = a] => Marked(p, a)
<1>1. PICK r \in PlanRow : r = plan[p]
  BY DEF TypeOK
<1>2. PICK q : q = [planned |-> r.planned, version |-> r.version, gen |-> r.gen,
                    appliedBy |-> a]
  OBVIOUS
<1>3. q = [r EXCEPT !.appliedBy = a]
  BY <1>2 DEF PlanRow
<1>4. SUFFICES ASSUME plan' = [plan EXCEPT ![p] = q] PROVE Marked(p, a)
  BY <1>1, <1>3
<1>5. q \in PlanRow
  BY <1>2 DEF PlanRow
<1> QED
  BY <1>1, <1>2, <1>4, <1>5 DEF Marked, TypeOK

(* The ledger commit, with a StateVersion or without one.                  *)
LEMMA CommitBranch ==
    ASSUME TypeOK, AdmitInv, NEW w \in Workers, Owns(w), GuardHolds(w), CommitRunState(w),
           UNCHANGED <<admission, captured, touched>>
    PROVE  RowStep(RunOf[w])
<1> DEFINE a == RunOf[w]
           p == PlanOf(a)
           o == worker[w].outcome
<1>1. a \in Applies /\ p \in Plans /\ run[a] \in RunRow /\ run[a].status = "running"
  BY ApplyConstants DEF TypeOK, AdmitInv, Owns
<1>2. capsule.version = plan[p].version
  BY DEF GuardHolds
<1>3. capsule \in CapsuleRow /\ plan[p] \in PlanRow /\ plan[p].gen \in Nat
  BY <1>1 DEF TypeOK, PlanRow
<1>4. PICK s, e, b :
        /\ s = (IF o = "ok" THEN "succeeded" ELSE "failed")
        /\ e = (IF o = "ok" THEN run[a].evidence ELSE "yes")
        /\ b = (IF o \in {"ok", "lifecycle"} THEN "pending" ELSE run[a].billing)
  OBVIOUS
<1>5. /\ s \in {"succeeded", "failed"}
      /\ e \in {"none", "no", "yes"}
      /\ b \in {run[a].billing, "pending"}
      /\ b \in {"none", "pending", "done"}
  BY <1>1, <1>4 DEF RunRow
<1>6. CASE o # "unpersisted"
  <2>1. run' = [run EXCEPT ![a].status = s, ![a].lease = 0, ![a].version = a,
                           ![a].evidence = e, ![a].billing = b]
    BY <1>4, <1>6 DEF CommitRunState
  <2>2. Row(a, s, run[a].started, a, b)
    BY <1>1, <1>5, <2>1, WriteCommit DEF Terminal
  <2>3. /\ plan' = [plan EXCEPT ![p].appliedBy = a]
        /\ capsule' = [version |-> a, gen |-> plan[p].gen + 1,
                       status |-> IF o = "ok" THEN "active" ELSE "error"]
        /\ generation' = [generation EXCEPT ![a] = plan[p].gen + 1]
    BY <1>6 DEF CommitRunState
  <2>4. capsule' \in CapsuleRow /\ capsule'.version = a /\ capsule'.gen = plan[p].gen + 1
    BY <1>1, <1>3, <2>3 DEF CapsuleRow
  <2>5. Marked(p, a)
    BY <1>1, <2>3, WriteMarker
  <2>6. /\ generation' \in [Applies -> Nat]
        /\ generation'[a] = plan[p].gen + 1
        /\ \A c \in Applies \ {a} : generation'[c] = generation[c]
    BY <1>1, <1>3, <2>3 DEF TypeOK
  <2>7. Commits(a, s, b)
    BY <1>1, <1>2, <2>2, <2>4, <2>5, <2>6 DEF Commits
  <2> QED
    BY <1>5, <2>7 DEF RowStep
<1>7. CASE o = "unpersisted"
  <2>1. run' = [run EXCEPT ![a].status = "failed", ![a].lease = 0,
                  ![a].version = run[a].version, ![a].evidence = "yes",
                  ![a].billing = run[a].billing]
    BY <1>7 DEF CommitRunState
  <2>2. Status(a, "failed")
    BY <1>1, <2>1, WriteCommit DEF Terminal, RunRow, Status
  <2>3. /\ plan' = [plan EXCEPT ![p].appliedBy = a]
        /\ capsule' = [version |-> capsule.version, gen |-> capsule.gen, status |-> "error"]
        /\ generation' = generation
    BY <1>7 DEF CommitRunState
  <2>4. /\ capsule' \in CapsuleRow
        /\ capsule'.version = capsule.version
        /\ capsule'.gen = capsule.gen
    BY <1>3, <2>3 DEF CapsuleRow
  <2>5. Marked(p, a)
    BY <1>1, <2>3, WriteMarker
  <2>6. CommitsFailure(a)
    BY <1>1, <1>2, <2>2, <2>3, <2>4, <2>5 DEF CommitsFailure
  <2> QED
    BY <2>6 DEF RowStep
<1> QED
  BY <1>6, <1>7

(* A consumer that only moves on, takes or gives up the lease, or settles  *)
(* with the billing host.                                                  *)
Waits(w) ==
    \/ Deliver(w) \/ DeliverPending(w) \/ AcquireLease(w) \/ CheckPreconditions(w)
    \/ PreflightFails(w) \/ CommitLeaseLost(w) \/ CommitConflict(w) \/ CaptureDeferred(w)
    \/ SettleFailedMutation(w) \/ ReleaseBilling(w) \/ Exit(w)

(* It changes neither the ledger nor a row.                                *)
LEMMA WaitBranch ==
    ASSUME NEW w \in Workers, Waits(w) PROVE UNCHANGED core
  BY DEF Waits, Deliver, DeliverPending, AcquireLease, CheckPreconditions, PreflightFails,
         CommitLeaseLost, CommitConflict, CaptureDeferred, SettleFailedMutation,
         ReleaseBilling, Exit, core, admission, ledger, billing

(* The steps of a consumer that hold the row by its token.                 *)
LEMMA FencedBranches ==
    ASSUME TypeOK, AdmitInv, WorkInv, NEW w \in Workers,
           \/ RequeueAfterAmbiguous(w) \/ CompleteReplay(w) \/ FailApplyRun(w)
           \/ RequeueAfterInfrastructureError(w)
    PROVE  UNCHANGED core \/ RowStep(RunOf[w])
<1> DEFINE a == RunOf[w]
<1>1. a \in Applies /\ run[a] \in RunRow
  BY ApplyConstants DEF TypeOK
<1>2. UNCHANGED <<admission, ledger, billing, touched>>
  BY DEF RequeueAfterAmbiguous, CompleteReplay, FailApplyRun,
         RequeueAfterInfrastructureError
<1>3. CASE run' = run
  BY <1>2, <1>3 DEF core, admission, ledger, billing
<1>4. Owns(w) => run[a].status = "running"
  BY DEF Owns
<1>5. ASSUME RequeueAfterAmbiguous(w), run' # run PROVE RowStep(a)
  <2>1. Owns(w) /\ run' = [run EXCEPT ![a].status = "queued", ![a].lease = 0,
                                      ![a].beat = 0]
    BY <1>5 DEF RequeueAfterAmbiguous
  <2>2. Status(a, "queued")
    BY <1>1, <2>1, WriteQueued
  <2> QED
    BY <1>2, <1>4, <2>1, <2>2 DEF RowStep, Requeues, billing
<1>6. ASSUME RequeueAfterInfrastructureError(w), run' # run PROVE RowStep(a)
  <2>1. PICK n : n = run[a].retries + 1
    OBVIOUS
  <2>2. /\ Owns(w)
        /\ run[a].retries < RetryLimit
        /\ run' = [run EXCEPT ![a].status = "queued", ![a].lease = 0,
                              ![a].beat = 0, ![a].retries = n]
    BY <1>6, <2>1 DEF RequeueAfterInfrastructureError
  <2>3. run[a].retries \in 0 .. RetryLimit
    BY <1>1 DEF RunRow
  <2>4. n \in 0 .. RetryLimit
    BY <2>1, <2>2, <2>3, ApplyConstants
  <2>5. Status(a, "queued")
    BY <1>1, <2>2, <2>4, WriteRetry
  <2> QED
    BY <1>2, <1>4, <2>2, <2>5 DEF RowStep, Requeues, billing
<1>7. ASSUME FailApplyRun(w), run' # run PROVE RowStep(a)
  <2>1. PICK e \in {"no", "yes"} : e = (IF worker[w].dispatched THEN "yes" ELSE "no")
    OBVIOUS
  <2>2. Owns(w) /\ run' = [run EXCEPT ![a].status = "failed", ![a].lease = 0,
                                      ![a].evidence = e]
    BY <1>7, <2>1 DEF FailApplyRun
  <2>3. Status(a, "failed")
    BY <1>1, <2>2, WriteFailure
  <2> QED
    BY <1>2, <1>4, <2>2, <2>3 DEF RowStep, Fails, InFlight, billing
<1>8. ASSUME CompleteReplay(w), run' # run PROVE RowStep(a)
  <2> DEFINE b == plan[PlanOf(a)].appliedBy
  <2>1. /\ Owns(w)
        /\ worker[w].pc = "replay"
        /\ \/ /\ run[b].status = "succeeded"
              /\ run' = [run EXCEPT ![a].status = "succeeded", ![a].lease = 0,
                                    ![a].version = run[b].version]
           \/ run' = [run EXCEPT ![a].status = "failed", ![a].lease = 0,
                                 ![a].evidence = "no"]
    BY <1>8 DEF CompleteReplay
  <2>2. PlanOf(a) \in Plans /\ b # None
    BY <1>1, <1>4, <2>1 DEF AdmitInv, WorkInv, Informed
  <2>3. b \in Applies /\ run[b].version \in Applies \cup {None}
    BY <2>2 DEF TypeOK, PlanRow, RunRow
  <2>4. CASE run' = [run EXCEPT ![a].status = "failed", ![a].lease = 0,
                                ![a].evidence = "no"]
    <3>1. Status(a, "failed")
      BY <1>1, <2>4, WriteFailure
    <3> QED
      BY <1>2, <1>4, <2>1, <3>1 DEF RowStep, Fails, InFlight, billing
  <2>5. CASE /\ run[b].status = "succeeded"
             /\ run' = [run EXCEPT ![a].status = "succeeded", ![a].lease = 0,
                                   ![a].version = run[b].version]
    <3>1. Row(a, "succeeded", run[a].started, run[b].version, run[a].billing)
      BY <1>1, <2>3, <2>5, WriteReplay
    <3> QED
      BY <1>2, <1>4, <2>1, <2>2, <2>5, <3>1 DEF RowStep, Replays, billing
  <2> QED
    BY <2>1, <2>4, <2>5
<1> QED
  BY <1>3, <1>5, <1>6, <1>7, <1>8

(* The steps that read a stamp or work under the claim.                    *)
LEMMA RunningBranches ==
    ASSUME TypeOK, WorkInv, NEW w \in Workers,
           \/ RenewalFails(w) \/ DispatchApply(w) \/ RenewRun(w) \/ RunnerReturns(w)
           \/ RunnerThrows(w) \/ RunLifecycle(w) \/ Crash(w)
    PROVE  UNCHANGED core \/ RowStep(RunOf[w])
<1> DEFINE a == RunOf[w]
<1>1. a \in Applies
  BY ApplyConstants
<1>2. UNCHANGED <<admission, ledger, billing>> /\ touched' \in {touched, touched \cup {a}}
  BY DEF RenewalFails, DispatchApply, RenewRun, RunnerReturns, RunnerThrows,
         RunLifecycle, Crash
<1>3. CASE Renewed(w)
  BY <1>1, <1>2, <1>3, RenewedBranch DEF Renewed, Owns, billing
<1>4. CASE UNCHANGED <<run, touched>>
  BY <1>2, <1>4 DEF core, admission, ledger, billing
<1>5. CASE Crash(w)
  <2>1. UNCHANGED run
    BY <1>5 DEF Crash
  <2>2. CASE worker[w].pc = "dispatched"
    BY <1>1, <1>2, <2>1, <2>2, TouchedBranch DEF WorkInv, Informed, billing
  <2>3. CASE worker[w].pc # "dispatched"
    BY <1>4, <1>5, <2>1, <2>3 DEF Crash
  <2> QED
    BY <2>2, <2>3
<1>6. CASE RenewalFails(w)
  <2>1. CASE UNCHANGED run
    <3>1. CASE worker[w].pc = "dispatched"
      BY <1>1, <1>2, <2>1, <3>1, TouchedBranch DEF WorkInv, Informed, billing
    <3>2. CASE worker[w].pc # "dispatched"
      BY <1>4, <1>6, <2>1, <3>2 DEF RenewalFails
    <3> QED
      BY <3>1, <3>2
  <2>2. CASE Owns(w) /\ FreshStamps(a) # {} /\ Beat(a)
    BY <1>1, <1>2, <2>2, RenewedBranch DEF Owns, billing
  <2> QED
    BY <1>6, <2>1, <2>2 DEF RenewalFails
<1> QED
  BY <1>3, <1>5, <1>6 DEF DispatchApply, RenewRun, RunnerReturns, RunnerThrows, RunLifecycle

(* The steps before the claim, the commit and the settlement.              *)
LEMMA ConsumerBranches ==
    ASSUME TypeOK, AdmitInv, WorkInv, NEW w \in Workers, Consumer(w) \/ Trouble(w)
    PROVE  UNCHANGED core \/ RowStep(RunOf[w])
<1> DEFINE a == RunOf[w]
<1>1. a \in Applies
  BY ApplyConstants
<1>2. ASSUME FailUnclaimedApplyRun(w) PROVE UNCHANGED core \/ RowStep(a)
  <2>1. /\ worker[w].seen.status \in InFlight
        /\ PersistUnclaimedFailure(a, worker[w].seen)
        /\ UNCHANGED <<admission, ledger, captured, touched>>
    BY <1>2 DEF FailUnclaimedApplyRun, WorkInv, Informed, billing
  <2> QED
    BY <1>1, <2>1, UnclaimedFailure DEF RowStep
<1>3. ASSUME Claim(w) PROVE UNCHANGED core \/ RowStep(a)
  <2>1. UNCHANGED <<admission, ledger, captured, touched>>
    BY <1>3 DEF Claim, billing
  <2>2. CASE run' = run
    BY <2>1, <2>2 DEF core, admission, ledger
  <2>3. PICK s : s = Fresh(a)
    OBVIOUS
  <2>4. CASE /\ ClaimMatches(a, worker[w].seen)
             /\ worker[w].pc = "claim"
             /\ FreshStamps(a) # {}
             /\ run' = [run EXCEPT ![a].status = "running", ![a].started = s,
                                   ![a].beat = s, ![a].lease = s]
    <3>1. run[a].status \in InFlight
      BY <2>4 DEF ClaimMatches, WorkInv, Informed
    <3>2. s \in Stamps /\ s # 0
      BY <1>1, <2>3, <2>4, FreshIsStamp
    <3>3. Row(a, "running", s, run[a].version, run[a].billing)
      BY <1>1, <2>4, <3>2, WriteClaim
    <3>4. Claims(a)
      BY <2>1, <3>1, <3>2, <3>3 DEF Claims, Row
    <3> QED
      BY <3>4 DEF RowStep
  <2> QED
    BY <1>3, <2>2, <2>3, <2>4 DEF Claim, NewLeaseToken
<1>4. ASSUME CommitLedger(w) PROVE RowStep(a)
  BY <1>4, CommitBranch DEF CommitLedger, billing
<1>5. ASSUME CommitAmbiguous(w) PROVE UNCHANGED core \/ RowStep(a)
  <2>1. UNCHANGED <<admission, captured, touched>>
    BY <1>5 DEF CommitAmbiguous, billing
  <2>2. CASE Owns(w) /\ GuardHolds(w) /\ CommitRunState(w)
    BY <2>1, <2>2, CommitBranch
  <2>3. CASE UNCHANGED <<ledger, run>>
    BY <2>1, <2>3 DEF core, admission, ledger
  <2> QED
    BY <1>5, <2>2, <2>3 DEF CommitAmbiguous
<1>6. ASSUME CaptureBilling(w) PROVE RowStep(a)
  BY <1>1, <1>6 DEF CaptureBilling, RowStep, Captures, WorkInv, Informed
<1>7. ASSUME MarkCaptured(w) PROVE UNCHANGED core \/ RowStep(a)
  <2>1. UNCHANGED <<admission, ledger, captured, touched>> /\ a \in captured
    BY <1>7 DEF MarkCaptured, WorkInv, Informed, billing
  <2>2. CASE run' = run
    BY <2>1, <2>2 DEF core, admission, ledger
  <2>3. CASE /\ run[a].billing = "pending"
             /\ run' = [run EXCEPT ![a].billing = "done"]
    <3>1. Row(a, run[a].status, run[a].started, run[a].version, "done")
      BY <1>1, <2>3, WriteCapture
    <3>2. Marks(a)
      BY <2>1, <2>3, <3>1 DEF Marks
    <3> QED
      BY <3>2 DEF RowStep
  <2> QED
    BY <1>7, <2>2, <2>3 DEF MarkCaptured
<1> QED
  BY <1>2, <1>3, <1>4, <1>5, <1>6, <1>7, WaitBranch, FencedBranches, RunningBranches
  DEF Consumer, Trouble, Waits

(* Every step of the specification takes one of the branches.              *)
LEMMA Branches ==
    ASSUME TypeOK, AdmitInv, WorkInv, [Next]_vars
    PROVE  CoreStep
<1>1. CASE UNCHANGED vars
  BY <1>1 DEF vars, core, CoreStep
<1>2. CASE ExpireLease
  BY <1>2 DEF ExpireLease, core, CoreStep, admission, ledger, billing
<1>3. ASSUME NEW w \in Workers, Consumer(w) \/ Trouble(w) PROVE CoreStep
  <2>1. RunOf[w] \in Applies
    BY ApplyConstants
  <2> QED
    BY <1>3, <2>1, ConsumerBranches DEF CoreStep
<1> QED
  BY <1>1, <1>2, <1>3, ApiBranches DEF Next, CoreStep

-----------------------------------------------------------------------------
(* The invariant, part by part.                                            *)

CoreType ==
    /\ management \in {"active", "draining", "frozen"}
    /\ capsule \in CapsuleRow
    /\ plan \in [Plans -> PlanRow]
    /\ run \in [Applies -> RunRow]
    /\ generation \in [Applies -> Nat]
    /\ captured \subseteq Applies
    /\ touched \subseteq Applies
    /\ prepared \in [Applies -> SUBSET [plan: Plans, capsule: CapsuleRow]]

(* The shapes of the ledger and of the rows.                               *)
LEMMA CoreTyped ==
    ASSUME TypeOK, AdmitInv, CoreStep
    PROVE  CoreType'
<1>1. CASE UNCHANGED core \/ BeginWorkspaceDraining \/ FreezeWorkspace
  BY <1>1
  DEF core, BeginWorkspaceDraining, billing, ledger, FreezeWorkspace, CoreType,
      TypeOK
<1>2. ASSUME NEW p \in Plans, CreatePlan(p)
      PROVE  CoreType'
  <2>1. plan'[p] \in PlanRow
    BY <1>2 DEF CreatePlan, TypeOK, PlanRow, CapsuleRow
  <2> QED
    BY <1>2, <2>1 DEF CreatePlan, billing, CoreType, TypeOK
<1>3. ASSUME NEW a \in Applies, NEW p \in Plans, PrepareApply(a, p)
      PROVE  CoreType'
  BY <1>3
  DEF PrepareApply, billing, ledger, CoreType, TypeOK
<1>4. ASSUME NEW a \in Applies, NEW held \in prepared[a], Admits(a, held)
      PROVE  CoreType'
  BY <1>4
  DEF Admits, Admitted, OtherRows, ledger, CoreType, TypeOK
<1>5. ASSUME NEW a \in Applies, Refuses(a) \/ Touches(a) \/ Captures(a)
      PROVE  CoreType'
  BY <1>5
  DEF Refuses, ledger, Touches, admission, Captures, CoreType, TypeOK
<1>6. ASSUME NEW a \in Applies, Cancels(a) \/ Fails(a) \/ Claims(a) \/ Beats(a) \/ Requeues(a)
      PROVE  CoreType'
  BY <1>6
  DEF Cancels, Status, Row, OtherRows, admission, ledger, Fails, Claims, Beats,
      Requeues, CoreType, TypeOK
<1>7. ASSUME NEW a \in Applies, Replays(a)
      PROVE  CoreType'
  BY <1>7
  DEF Replays, Row, OtherRows, admission, ledger, CoreType, TypeOK
<1>8. ASSUME NEW a \in Applies, NEW s \in {"succeeded", "failed"},
             NEW b \in {run[a].billing, "pending"}, Commits(a, s, b)
      PROVE  CoreType'
  BY <1>8
  DEF Commits, Marked, Row, OtherRows, admission, CoreType, TypeOK
<1>9. ASSUME NEW a \in Applies, CommitsFailure(a)
      PROVE  CoreType'
  BY <1>9
  DEF CommitsFailure, Marked, Status, Row, OtherRows, admission, CoreType, TypeOK
<1>10. ASSUME NEW a \in Applies, Marks(a)
      PROVE  CoreType'
  BY <1>10
  DEF Marks, Row, OtherRows, admission, ledger, CoreType, TypeOK
<1> QED
  BY <1>1, <1>2, <1>3, <1>4, <1>5, <1>6, <1>7, <1>8, <1>9, <1>10
  DEF CoreStep, RowStep

(* What a step never takes back: an admission with its plan, a start, a    *)
(* StateVersion, an apply-once marker, a capture.                          *)
Lasting ==
    /\ \A b \in Applies :
         /\ run[b].status # "none" => run'[b].status # "none" /\ run'[b].plan = run[b].plan
         /\ run[b].started # 0 => run'[b].started # 0
         /\ generation[b] # 0 => generation'[b] # 0
    /\ \A q \in Plans :
         /\ plan[q].planned => plan'[q].planned
         /\ plan[q].appliedBy # None => plan'[q].appliedBy # None
    /\ captured \subseteq captured'

(* No step takes any of these back.                                        *)
LEMMA StepIsLasting ==
    ASSUME TypeOK, AdmitInv, CoreStep
    PROVE  Lasting
<1>1. /\ run \in [Applies -> RunRow]
      /\ plan \in [Plans -> PlanRow]
      /\ generation \in [Applies -> Nat]
      /\ None \notin Applies
  BY ApplyConstants DEF TypeOK
<1>2. CASE UNCHANGED core \/ BeginWorkspaceDraining \/ FreezeWorkspace
  BY <1>2, <1>1
  DEF core, BeginWorkspaceDraining, billing, ledger, FreezeWorkspace, Lasting
<1>3. ASSUME NEW p \in Plans, CreatePlan(p)
      PROVE  Lasting
  <2>1. /\ \A q \in Plans \ {p} : plan'[q] = plan[q]
        /\ plan'[p].planned
        /\ plan[p].appliedBy = None
    BY <1>1, <1>3 DEF CreatePlan, AdmitInv
  <2> QED
    BY <2>1, <1>3 DEF CreatePlan, billing, Lasting
<1>4. ASSUME NEW a \in Applies, NEW p \in Plans, PrepareApply(a, p)
      PROVE  Lasting
  BY <1>4, <1>1
  DEF PrepareApply, billing, ledger, Lasting
<1>5. ASSUME NEW a \in Applies, NEW held \in prepared[a], Admits(a, held)
      PROVE  Lasting
  <2>1. run[a].status = "none"
    BY <1>5 DEF AdmitInv
  <2> QED
    BY <1>1, <2>1, <1>5 DEF Admits, Admitted, OtherRows, ledger, Lasting
<1>6. ASSUME NEW a \in Applies, Refuses(a) \/ Touches(a) \/ Captures(a)
      PROVE  Lasting
  BY <1>6, <1>1
  DEF Refuses, ledger, Touches, admission, Captures, Lasting
<1>7. ASSUME NEW a \in Applies, Cancels(a) \/ Fails(a) \/ Claims(a) \/ Beats(a) \/ Requeues(a)
      PROVE  Lasting
  BY <1>7, <1>1
  DEF Cancels, Status, Row, OtherRows, admission, ledger, Fails, Claims, Beats,
      Requeues, Lasting
<1>8. ASSUME NEW a \in Applies, Replays(a)
      PROVE  Lasting
  BY <1>8, <1>1
  DEF Replays, Row, OtherRows, admission, ledger, Lasting
<1>9. ASSUME NEW a \in Applies, NEW s \in {"succeeded", "failed"},
             NEW b \in {run[a].billing, "pending"}, Commits(a, s, b)
      PROVE  Lasting
  <2>1. PlanOf(a) \in Plans /\ plan[PlanOf(a)].gen + 1 # 0
    BY <1>1, <1>9 DEF Commits, AdmitInv, PlanRow
  <2> QED
    BY <1>1, <2>1, <1>9 DEF Commits, Marked, Row, OtherRows, admission, Lasting
<1>10. ASSUME NEW a \in Applies, CommitsFailure(a)
      PROVE  Lasting
  BY <1>10, <1>1
  DEF CommitsFailure, Marked, Status, Row, OtherRows, admission, Lasting
<1>11. ASSUME NEW a \in Applies, Marks(a)
      PROVE  Lasting
  BY <1>11, <1>1
  DEF Marks, Row, OtherRows, admission, ledger, Lasting
<1> QED
  BY <1>2, <1>3, <1>4, <1>5, <1>6, <1>7, <1>8, <1>9, <1>10, <1>11
  DEF CoreStep, RowStep

(* The StateVersion guard pins the whole base: the Capsule stands at the   *)
(* generation the plan was planned over, and no apply of that plan has     *)
(* committed.                                                              *)
LEMMA GuardPinsBase ==
    ASSUME TypeOK, AdmitInv, BaseInv, GenerationChain, CommitNotTorn,
           NEW a \in Applies, run[a].status = "running",
           capsule.version = plan[PlanOf(a)].version
    PROVE  /\ PlanOf(a) \in Plans
           /\ plan[PlanOf(a)].gen \in Nat
           /\ capsule.gen = plan[PlanOf(a)].gen
           /\ a \notin Committed
           /\ \A b \in Committed : PlanOf(b) # PlanOf(a)
<1> DEFINE p == PlanOf(a)
<1>1. p \in Plans /\ plan[p].gen \in Nat /\ capsule.gen \in Nat
  BY DEF AdmitInv, TypeOK, PlanRow, CapsuleRow
<1>2. None \notin Committed
  BY ApplyConstants DEF Committed
<1>3. capsule.gen = plan[p].gen
  BY <1>1, <1>2 DEF BaseInv, GenerationChain
<1>4. a \notin Committed
  BY DEF CommitNotTorn
<1>5. ASSUME NEW b \in Committed, PlanOf(b) = p PROVE FALSE
  <2>1. generation[b] = capsule.gen + 1
    BY <1>3, <1>5 DEF BaseInv
  <2>2. generation[b] \in 1 .. capsule.gen
    BY DEF GenerationChain
  <2> QED
    BY <1>1, <2>1, <2>2
<1> QED
  BY <1>1, <1>3, <1>4, <1>5

(* An admission holds a planned plan, and its row stays with it.           *)
LEMMA AdmitStep ==
    ASSUME TypeOK, AdmitInv, CoreStep
    PROVE  AdmitInv'
<1>1. /\ run \in [Applies -> RunRow]
      /\ plan \in [Plans -> PlanRow]
      /\ generation \in [Applies -> Nat]
      /\ prepared \in [Applies -> SUBSET [plan: Plans, capsule: CapsuleRow]]
      /\ None \notin Applies
      /\ \A q \in Plans : plan[q].appliedBy \in Applies \cup {None}
  BY ApplyConstants DEF TypeOK, PlanRow
<1>2. CASE UNCHANGED core \/ BeginWorkspaceDraining \/ FreezeWorkspace
  BY <1>2, <1>1
  DEF core, BeginWorkspaceDraining, billing, ledger, FreezeWorkspace, AdmitInv,
      PlanOf, InFlight
<1>3. ASSUME NEW p \in Plans, CreatePlan(p)
      PROVE  AdmitInv'
  BY <1>3, <1>1
  DEF CreatePlan, billing, AdmitInv, PlanOf, InFlight
<1>4. ASSUME NEW a \in Applies, NEW p \in Plans, PrepareApply(a, p)
      PROVE  AdmitInv'
  BY <1>4, <1>1
  DEF PrepareApply, billing, ledger, AdmitInv, PlanOf, InFlight
<1>5. ASSUME NEW a \in Applies, NEW held \in prepared[a], Admits(a, held)
      PROVE  AdmitInv'
  BY <1>5, <1>1
  DEF Admits, Admitted, OtherRows, ledger, AdmitInv, PlanOf, InFlight
<1>6. ASSUME NEW a \in Applies, Refuses(a) \/ Touches(a) \/ Captures(a)
      PROVE  AdmitInv'
  BY <1>6, <1>1
  DEF Refuses, ledger, Touches, admission, Captures, AdmitInv, PlanOf, InFlight
<1>7. ASSUME NEW a \in Applies, Cancels(a) \/ Fails(a) \/ Claims(a) \/ Beats(a) \/ Requeues(a)
      PROVE  AdmitInv'
  BY <1>7, <1>1
  DEF Cancels, Status, Row, OtherRows, admission, ledger, Fails, Claims, Beats,
      Requeues, AdmitInv, PlanOf, InFlight
<1>8. ASSUME NEW a \in Applies, Replays(a)
      PROVE  AdmitInv'
  BY <1>8, <1>1
  DEF Replays, Row, OtherRows, admission, ledger, AdmitInv, PlanOf, InFlight
<1>9. ASSUME NEW a \in Applies, NEW s \in {"succeeded", "failed"},
             NEW b \in {run[a].billing, "pending"}, Commits(a, s, b)
      PROVE  AdmitInv'
  BY <1>9, <1>1
  DEF Commits, Marked, Row, OtherRows, admission, AdmitInv, PlanOf, InFlight
<1>10. ASSUME NEW a \in Applies, CommitsFailure(a)
      PROVE  AdmitInv'
  BY <1>10, <1>1
  DEF CommitsFailure, Marked, Status, Row, OtherRows, admission, AdmitInv, PlanOf,
      InFlight
<1>11. ASSUME NEW a \in Applies, Marks(a)
      PROVE  AdmitInv'
  BY <1>11, <1>1
  DEF Marks, Row, OtherRows, admission, ledger, AdmitInv, PlanOf, InFlight
<1> QED
  BY <1>2, <1>3, <1>4, <1>5, <1>6, <1>7, <1>8, <1>9, <1>10, <1>11
  DEF CoreStep, RowStep

(* The start of a run is never lost.                                       *)
LEMMA StartStep ==
    ASSUME TypeOK, AdmitInv, StartInv, CoreStep
    PROVE  StartInv'
<1>1. /\ run \in [Applies -> RunRow]
      /\ plan \in [Plans -> PlanRow]
      /\ generation \in [Applies -> Nat]
      /\ prepared \in [Applies -> SUBSET [plan: Plans, capsule: CapsuleRow]]
      /\ None \notin Applies
      /\ \A q \in Plans : plan[q].appliedBy \in Applies \cup {None}
  BY ApplyConstants DEF TypeOK, PlanRow
<1>2. CASE UNCHANGED core \/ BeginWorkspaceDraining \/ FreezeWorkspace
  BY <1>2, <1>1
  DEF core, BeginWorkspaceDraining, billing, ledger, FreezeWorkspace, StartInv
<1>3. ASSUME NEW p \in Plans, CreatePlan(p)
      PROVE  StartInv'
  BY <1>3, <1>1
  DEF CreatePlan, billing, StartInv
<1>4. ASSUME NEW a \in Applies, NEW p \in Plans, PrepareApply(a, p)
      PROVE  StartInv'
  BY <1>4, <1>1
  DEF PrepareApply, billing, ledger, StartInv
<1>5. ASSUME NEW a \in Applies, NEW held \in prepared[a], Admits(a, held)
      PROVE  StartInv'
  BY <1>5, <1>1
  DEF Admits, Admitted, OtherRows, ledger, StartInv
<1>6. ASSUME NEW a \in Applies, Refuses(a) \/ Touches(a) \/ Captures(a)
      PROVE  StartInv'
  BY <1>6, <1>1
  DEF Refuses, ledger, Touches, admission, Captures, StartInv
<1>7. ASSUME NEW a \in Applies, Cancels(a) \/ Fails(a) \/ Claims(a) \/ Beats(a) \/ Requeues(a)
      PROVE  StartInv'
  BY <1>7, <1>1
  DEF Cancels, Status, Row, OtherRows, admission, ledger, Fails, Claims, Beats,
      Requeues, StartInv
<1>8. ASSUME NEW a \in Applies, Replays(a)
      PROVE  StartInv'
  BY <1>8, <1>1
  DEF Replays, Row, OtherRows, admission, ledger, StartInv
<1>9. ASSUME NEW a \in Applies, NEW s \in {"succeeded", "failed"},
             NEW b \in {run[a].billing, "pending"}, Commits(a, s, b)
      PROVE  StartInv'
  BY <1>9, <1>1
  DEF Commits, Marked, Row, OtherRows, admission, StartInv
<1>10. ASSUME NEW a \in Applies, CommitsFailure(a)
      PROVE  StartInv'
  BY <1>10, <1>1
  DEF CommitsFailure, Marked, Status, Row, OtherRows, admission, StartInv
<1>11. ASSUME NEW a \in Applies, Marks(a)
      PROVE  StartInv'
  BY <1>11, <1>1
  DEF Marks, Row, OtherRows, admission, ledger, StartInv
<1> QED
  BY <1>2, <1>3, <1>4, <1>5, <1>6, <1>7, <1>8, <1>9, <1>10, <1>11
  DEF CoreStep, RowStep

(* A pending capture has its StateVersion.                                 *)
LEMMA PendingStep ==
    ASSUME TypeOK, AdmitInv, PendingInv, CoreStep
    PROVE  PendingInv'
<1>1. /\ run \in [Applies -> RunRow]
      /\ plan \in [Plans -> PlanRow]
      /\ generation \in [Applies -> Nat]
      /\ prepared \in [Applies -> SUBSET [plan: Plans, capsule: CapsuleRow]]
      /\ None \notin Applies
      /\ \A q \in Plans : plan[q].appliedBy \in Applies \cup {None}
  BY ApplyConstants DEF TypeOK, PlanRow
<1>2. CASE UNCHANGED core \/ BeginWorkspaceDraining \/ FreezeWorkspace
  BY <1>2, <1>1
  DEF core, BeginWorkspaceDraining, billing, ledger, FreezeWorkspace, PendingInv,
      Committed
<1>3. ASSUME NEW p \in Plans, CreatePlan(p)
      PROVE  PendingInv'
  BY <1>3, <1>1
  DEF CreatePlan, billing, PendingInv, Committed
<1>4. ASSUME NEW a \in Applies, NEW p \in Plans, PrepareApply(a, p)
      PROVE  PendingInv'
  BY <1>4, <1>1
  DEF PrepareApply, billing, ledger, PendingInv, Committed
<1>5. ASSUME NEW a \in Applies, NEW held \in prepared[a], Admits(a, held)
      PROVE  PendingInv'
  BY <1>5, <1>1
  DEF Admits, Admitted, OtherRows, ledger, PendingInv, Committed
<1>6. ASSUME NEW a \in Applies, Refuses(a) \/ Touches(a) \/ Captures(a)
      PROVE  PendingInv'
  BY <1>6, <1>1
  DEF Refuses, ledger, Touches, admission, Captures, PendingInv, Committed
<1>7. ASSUME NEW a \in Applies, Cancels(a) \/ Fails(a) \/ Claims(a) \/ Beats(a) \/ Requeues(a)
      PROVE  PendingInv'
  BY <1>7, <1>1
  DEF Cancels, Status, Row, OtherRows, admission, ledger, Fails, Claims, Beats,
      Requeues, PendingInv, Committed
<1>8. ASSUME NEW a \in Applies, Replays(a)
      PROVE  PendingInv'
  BY <1>8, <1>1
  DEF Replays, Row, OtherRows, admission, ledger, PendingInv, Committed
<1>9. ASSUME NEW a \in Applies, NEW s \in {"succeeded", "failed"},
             NEW b \in {run[a].billing, "pending"}, Commits(a, s, b)
      PROVE  PendingInv'
  <2>1. PlanOf(a) \in Plans /\ plan[PlanOf(a)].gen + 1 # 0
    BY <1>1, <1>9 DEF Commits, AdmitInv, PlanRow
  <2> QED
    BY <1>1, <2>1, <1>9
    DEF Commits, Marked, Row, OtherRows, admission, PendingInv, Committed
<1>10. ASSUME NEW a \in Applies, CommitsFailure(a)
      PROVE  PendingInv'
  BY <1>10, <1>1
  DEF CommitsFailure, Marked, Status, Row, OtherRows, admission, PendingInv,
      Committed
<1>11. ASSUME NEW a \in Applies, Marks(a)
      PROVE  PendingInv'
  BY <1>11, <1>1
  DEF Marks, Row, OtherRows, admission, ledger, PendingInv, Committed
<1> QED
  BY <1>2, <1>3, <1>4, <1>5, <1>6, <1>7, <1>8, <1>9, <1>10, <1>11
  DEF CoreStep, RowStep

(* The marker of a plan names one of its own applies.                      *)
LEMMA MarkerStays ==
    ASSUME TypeOK, AdmitInv, CommitNotTorn, MarkerInv, CoreStep
    PROVE  MarkerInv'
<1>1. /\ run \in [Applies -> RunRow]
      /\ plan \in [Plans -> PlanRow]
      /\ generation \in [Applies -> Nat]
      /\ prepared \in [Applies -> SUBSET [plan: Plans, capsule: CapsuleRow]]
      /\ None \notin Applies
      /\ \A q \in Plans : plan[q].appliedBy \in Applies \cup {None}
  BY ApplyConstants DEF TypeOK, PlanRow
<1>2. CASE UNCHANGED core \/ BeginWorkspaceDraining \/ FreezeWorkspace
  BY <1>2, <1>1
  DEF core, BeginWorkspaceDraining, billing, ledger, FreezeWorkspace, MarkerInv,
      PlanOf
<1>3. ASSUME NEW p \in Plans, CreatePlan(p)
      PROVE  MarkerInv'
  BY <1>3, <1>1
  DEF CreatePlan, billing, MarkerInv, PlanOf
<1>4. ASSUME NEW a \in Applies, NEW p \in Plans, PrepareApply(a, p)
      PROVE  MarkerInv'
  BY <1>4, <1>1
  DEF PrepareApply, billing, ledger, MarkerInv, PlanOf
<1>5. ASSUME NEW a \in Applies, NEW held \in prepared[a], Admits(a, held)
      PROVE  MarkerInv'
  <2>1. run[a].status = "none"
    BY <1>5 DEF AdmitInv
  <2>2. \A q \in Plans : plan[q].appliedBy # a
    BY <1>1, <2>1, ApplyConstants DEF CommitNotTorn, Terminal
  <2> QED
    BY <1>1, <2>2, <1>5 DEF Admits, Admitted, OtherRows, ledger, MarkerInv, PlanOf
<1>6. ASSUME NEW a \in Applies, Refuses(a) \/ Touches(a) \/ Captures(a)
      PROVE  MarkerInv'
  BY <1>6, <1>1
  DEF Refuses, ledger, Touches, admission, Captures, MarkerInv, PlanOf
<1>7. ASSUME NEW a \in Applies, Cancels(a) \/ Fails(a) \/ Claims(a) \/ Beats(a) \/ Requeues(a)
      PROVE  MarkerInv'
  BY <1>7, <1>1
  DEF Cancels, Status, Row, OtherRows, admission, ledger, Fails, Claims, Beats,
      Requeues, MarkerInv, PlanOf
<1>8. ASSUME NEW a \in Applies, Replays(a)
      PROVE  MarkerInv'
  BY <1>8, <1>1
  DEF Replays, Row, OtherRows, admission, ledger, MarkerInv, PlanOf
<1>9. ASSUME NEW a \in Applies, NEW s \in {"succeeded", "failed"},
             NEW b \in {run[a].billing, "pending"}, Commits(a, s, b)
      PROVE  MarkerInv'
  BY <1>9, <1>1
  DEF Commits, Marked, Row, OtherRows, admission, MarkerInv, PlanOf
<1>10. ASSUME NEW a \in Applies, CommitsFailure(a)
      PROVE  MarkerInv'
  BY <1>10, <1>1
  DEF CommitsFailure, Marked, Status, Row, OtherRows, admission, MarkerInv, PlanOf
<1>11. ASSUME NEW a \in Applies, Marks(a)
      PROVE  MarkerInv'
  BY <1>11, <1>1
  DEF Marks, Row, OtherRows, admission, ledger, MarkerInv, PlanOf
<1> QED
  BY <1>2, <1>3, <1>4, <1>5, <1>6, <1>7, <1>8, <1>9, <1>10, <1>11
  DEF CoreStep, RowStep

(* A frozen Workspace has no run in flight and no capture to close.        *)
LEMMA FrozenStays ==
    ASSUME TypeOK, AdmitInv, PendingInv, CommitNotTorn, FrozenInv, CoreStep
    PROVE  FrozenInv'
<1>1. /\ run \in [Applies -> RunRow]
      /\ plan \in [Plans -> PlanRow]
      /\ generation \in [Applies -> Nat]
      /\ prepared \in [Applies -> SUBSET [plan: Plans, capsule: CapsuleRow]]
      /\ None \notin Applies
      /\ \A q \in Plans : plan[q].appliedBy \in Applies \cup {None}
  BY ApplyConstants DEF TypeOK, PlanRow
<1>2. CASE UNCHANGED core \/ BeginWorkspaceDraining
  BY <1>2, <1>1
  DEF core, BeginWorkspaceDraining, billing, ledger, FrozenInv, InFlight, Terminal,
      RunBlocks
<1>3. ASSUME NEW p \in Plans, CreatePlan(p)
      PROVE  FrozenInv'
  BY <1>3, <1>1
  DEF CreatePlan, billing, FrozenInv, InFlight, Terminal, RunBlocks
<1>4. ASSUME NEW a \in Applies, NEW p \in Plans, PrepareApply(a, p)
      PROVE  FrozenInv'
  BY <1>4, <1>1
  DEF PrepareApply, billing, ledger, FrozenInv, InFlight, Terminal, RunBlocks
<1>5. CASE FreezeWorkspace
  <2>1. \A a \in Applies : run[a].billing = "pending" => run[a].status # "none"
    BY DEF PendingInv, CommitNotTorn
  <2> QED
    BY <1>1, <2>1, <1>5 DEF FreezeWorkspace, FrozenInv, RunBlocks, Terminal
<1>6. ASSUME NEW a \in Applies, NEW held \in prepared[a], Admits(a, held)
      PROVE  FrozenInv'
  BY <1>6, <1>1
  DEF Admits, Admitted, OtherRows, ledger, FrozenInv, InFlight, Terminal, RunBlocks
<1>7. ASSUME NEW a \in Applies, Refuses(a) \/ Touches(a) \/ Captures(a)
      PROVE  FrozenInv'
  BY <1>7, <1>1
  DEF Refuses, ledger, Touches, admission, Captures, FrozenInv, InFlight, Terminal,
      RunBlocks
<1>8. ASSUME NEW a \in Applies, Cancels(a) \/ Fails(a) \/ Claims(a) \/ Beats(a) \/ Requeues(a)
      PROVE  FrozenInv'
  BY <1>8, <1>1
  DEF Cancels, Status, Row, OtherRows, admission, ledger, Fails, Claims, Beats,
      Requeues, FrozenInv, InFlight, Terminal, RunBlocks
<1>9. ASSUME NEW a \in Applies, Replays(a)
      PROVE  FrozenInv'
  BY <1>9, <1>1
  DEF Replays, Row, OtherRows, admission, ledger, FrozenInv, InFlight, Terminal,
      RunBlocks
<1>10. ASSUME NEW a \in Applies, NEW s \in {"succeeded", "failed"},
             NEW b \in {run[a].billing, "pending"}, Commits(a, s, b)
      PROVE  FrozenInv'
  BY <1>10, <1>1
  DEF Commits, Marked, Row, OtherRows, admission, FrozenInv, InFlight, Terminal,
      RunBlocks
<1>11. ASSUME NEW a \in Applies, CommitsFailure(a)
      PROVE  FrozenInv'
  BY <1>11, <1>1
  DEF CommitsFailure, Marked, Status, Row, OtherRows, admission, FrozenInv,
      InFlight, Terminal, RunBlocks
<1>12. ASSUME NEW a \in Applies, Marks(a)
      PROVE  FrozenInv'
  BY <1>12, <1>1
  DEF Marks, Row, OtherRows, admission, ledger, FrozenInv, InFlight, Terminal,
      RunBlocks
<1> QED
  BY <1>2, <1>3, <1>4, <1>5, <1>6, <1>7, <1>8, <1>9, <1>10, <1>11, <1>12
  DEF CoreStep, RowStep

(* A run that is not over has no StateVersion, and no plan names it.       *)
LEMMA LiveIsUnnamed ==
    ASSUME TypeOK, CommitNotTorn, NEW a \in Applies, run[a].status \notin Terminal
    PROVE  /\ a \notin Committed
           /\ a \notin captured
           /\ run[a].billing # "done"
           /\ \A q \in Plans : plan[q].appliedBy # a
  BY ApplyConstants DEF CommitNotTorn, Terminal

(* A base is a point of the line, and a StateVersion stands one above it.  *)
LEMMA BaseStep ==
    ASSUME TypeOK, AdmitInv, GenerationChain, CommitNotTorn, BaseInv, CoreStep
    PROVE  BaseInv'
<1>1. /\ run \in [Applies -> RunRow]
      /\ plan \in [Plans -> PlanRow]
      /\ generation \in [Applies -> Nat]
      /\ prepared \in [Applies -> SUBSET [plan: Plans, capsule: CapsuleRow]]
      /\ None \notin Applies
      /\ \A q \in Plans : plan[q].appliedBy \in Applies \cup {None}
  BY ApplyConstants DEF TypeOK, PlanRow
<1>2. CASE UNCHANGED core \/ BeginWorkspaceDraining \/ FreezeWorkspace
  BY <1>2, <1>1
  DEF core, BeginWorkspaceDraining, billing, ledger, FreezeWorkspace, BaseInv,
      Committed, PlanOf
<1>3. ASSUME NEW p \in Plans, CreatePlan(p)
      PROVE  BaseInv'
  <2>1. \A a \in Committed : PlanOf(a) # p
    BY <1>3 DEF CreatePlan, AdmitInv, CommitNotTorn, Committed
  <2>2. plan'[p].gen = capsule.gen /\ plan'[p].version = capsule.version
    BY <1>1, <1>3 DEF CreatePlan
  <2>3. \A q \in Plans \ {p} : plan'[q] = plan[q]
    BY <1>1, <1>3 DEF CreatePlan
  <2>4. UNCHANGED <<capsule, run, generation>> /\ capsule.gen \in Nat
    BY <1>3 DEF CreatePlan, TypeOK, CapsuleRow
  <2> QED
    BY <1>1, <2>1, <2>2, <2>3, <2>4 DEF BaseInv, GenerationChain, Committed, PlanOf
<1>4. ASSUME NEW a \in Applies, NEW p \in Plans, PrepareApply(a, p)
      PROVE  BaseInv'
  BY <1>4, <1>1
  DEF PrepareApply, billing, ledger, BaseInv, Committed, PlanOf
<1>5. ASSUME NEW a \in Applies, NEW held \in prepared[a], Admits(a, held)
      PROVE  BaseInv'
  <2>1. run[a].status = "none"
    BY <1>5 DEF AdmitInv
  <2>2. a \notin Committed
    BY <2>1, LiveIsUnnamed DEF Terminal
  <2> QED
    BY <1>1, <2>2, <1>5 DEF Admits, Admitted, OtherRows, ledger, BaseInv, Committed, PlanOf
<1>6. ASSUME NEW a \in Applies, Refuses(a) \/ Touches(a) \/ Captures(a)
      PROVE  BaseInv'
  BY <1>6, <1>1
  DEF Refuses, ledger, Touches, admission, Captures, BaseInv, Committed, PlanOf
<1>7. ASSUME NEW a \in Applies, Cancels(a) \/ Fails(a) \/ Claims(a) \/ Beats(a) \/ Requeues(a)
      PROVE  BaseInv'
  BY <1>7, <1>1
  DEF Cancels, Status, Row, OtherRows, admission, ledger, Fails, Claims, Beats,
      Requeues, BaseInv, Committed, PlanOf
<1>8. ASSUME NEW a \in Applies, Replays(a)
      PROVE  BaseInv'
  BY <1>8, <1>1
  DEF Replays, Row, OtherRows, admission, ledger, BaseInv, Committed, PlanOf
<1>9. ASSUME NEW a \in Applies, NEW s \in {"succeeded", "failed"},
             NEW b \in {run[a].billing, "pending"}, Commits(a, s, b)
      PROVE  BaseInv'
  <2> DEFINE p == PlanOf(a)
  <2>1. /\ p \in Plans
        /\ plan[p].gen \in Nat
        /\ capsule.gen = plan[p].gen
        /\ a \notin Committed
    BY <1>9, GuardPinsBase DEF Commits
  <2>2. /\ \A q \in Plans : plan'[q].gen = plan[q].gen /\ plan'[q].version = plan[q].version
        /\ \A c \in Applies : run'[c].plan = run[c].plan
        /\ \A c \in Applies \ {a} : generation'[c] = generation[c]
        /\ generation'[a] = plan[p].gen + 1
        /\ capsule'.gen = plan[p].gen + 1
    BY <1>9, <2>1 DEF Commits, Marked, Row, OtherRows
  <2>3. \A q \in Plans : plan[q].gen \in Nat
    BY DEF TypeOK, PlanRow
  <2>4. Committed' = Committed \cup {a}
    BY <2>1, <2>2 DEF Committed
  <2>5. ASSUME NEW q \in Plans
        PROVE  /\ plan'[q].gen <= capsule'.gen
               /\ IF plan'[q].gen = 0 THEN plan'[q].version = None
                  ELSE /\ plan'[q].version \in Committed'
                       /\ generation'[plan'[q].version] = plan'[q].gen
    BY <2>1, <2>2, <2>3, <2>4 DEF BaseInv, Committed
  <2>6. ASSUME NEW c \in Committed'
        PROVE  PlanOf(c)' \in Plans /\ generation'[c] = plan'[PlanOf(c)'].gen + 1
    BY <2>1, <2>2, <2>4 DEF BaseInv, Committed, PlanOf
  <2> QED
    BY <2>5, <2>6 DEF BaseInv
<1>10. ASSUME NEW a \in Applies, CommitsFailure(a)
      PROVE  BaseInv'
  <2>1. PlanOf(a) \in Plans
    BY <1>10 DEF CommitsFailure, AdmitInv
  <2>2. /\ \A q \in Plans : plan'[q].gen = plan[q].gen /\ plan'[q].version = plan[q].version
        /\ \A c \in Applies : run'[c].plan = run[c].plan
        /\ generation' = generation
        /\ capsule'.gen = capsule.gen
    BY <1>10, <2>1 DEF CommitsFailure, Marked, Status, Row, OtherRows
  <2> QED
    BY <1>1, <2>2 DEF BaseInv, Committed, PlanOf
<1>11. ASSUME NEW a \in Applies, Marks(a)
      PROVE  BaseInv'
  BY <1>11, <1>1
  DEF Marks, Row, OtherRows, admission, ledger, BaseInv, Committed, PlanOf
<1> QED
  BY <1>2, <1>3, <1>4, <1>5, <1>6, <1>7, <1>8, <1>9, <1>10, <1>11
  DEF CoreStep, RowStep

(* A commit extends the line by one.                                       *)
LEMMA ChainStep ==
    ASSUME TypeOK, AdmitInv, BaseInv, CommitNotTorn, GenerationChain, CoreStep
    PROVE  GenerationChain'
<1>1. /\ run \in [Applies -> RunRow]
      /\ plan \in [Plans -> PlanRow]
      /\ generation \in [Applies -> Nat]
      /\ prepared \in [Applies -> SUBSET [plan: Plans, capsule: CapsuleRow]]
      /\ None \notin Applies
      /\ \A q \in Plans : plan[q].appliedBy \in Applies \cup {None}
  BY ApplyConstants DEF TypeOK, PlanRow
<1>2. CASE UNCHANGED core \/ BeginWorkspaceDraining \/ FreezeWorkspace
  BY <1>2, <1>1
  DEF core, BeginWorkspaceDraining, billing, ledger, FreezeWorkspace,
      GenerationChain, Committed
<1>3. ASSUME NEW p \in Plans, CreatePlan(p)
      PROVE  GenerationChain'
  BY <1>3, <1>1
  DEF CreatePlan, billing, GenerationChain, Committed
<1>4. ASSUME NEW a \in Applies, NEW p \in Plans, PrepareApply(a, p)
      PROVE  GenerationChain'
  BY <1>4, <1>1
  DEF PrepareApply, billing, ledger, GenerationChain, Committed
<1>5. ASSUME NEW a \in Applies, NEW held \in prepared[a], Admits(a, held)
      PROVE  GenerationChain'
  BY <1>5, <1>1
  DEF Admits, Admitted, OtherRows, ledger, GenerationChain, Committed
<1>6. ASSUME NEW a \in Applies, Refuses(a) \/ Touches(a) \/ Captures(a)
      PROVE  GenerationChain'
  BY <1>6, <1>1
  DEF Refuses, ledger, Touches, admission, Captures, GenerationChain, Committed
<1>7. ASSUME NEW a \in Applies, Cancels(a) \/ Fails(a) \/ Claims(a) \/ Beats(a) \/ Requeues(a)
      PROVE  GenerationChain'
  BY <1>7, <1>1
  DEF Cancels, Status, Row, OtherRows, admission, ledger, Fails, Claims, Beats,
      Requeues, GenerationChain, Committed
<1>8. ASSUME NEW a \in Applies, Replays(a)
      PROVE  GenerationChain'
  BY <1>8, <1>1
  DEF Replays, Row, OtherRows, admission, ledger, GenerationChain, Committed
<1>9. ASSUME NEW a \in Applies, NEW s \in {"succeeded", "failed"},
             NEW b \in {run[a].billing, "pending"}, Commits(a, s, b)
      PROVE  GenerationChain'
  <2> DEFINE g == capsule.gen
  <2>1. g \in Nat /\ g = plan[PlanOf(a)].gen /\ a \notin Committed
    BY <1>9, GuardPinsBase DEF Commits
  <2>2. /\ \A c \in Applies \ {a} : generation'[c] = generation[c]
        /\ generation'[a] = g + 1
        /\ capsule'.gen = g + 1
        /\ capsule'.version = a
    BY <1>9, <2>1 DEF Commits
  <2>3. Committed' = Committed \cup {a} /\ Committed \subseteq Applies \ {a}
    BY <2>1, <2>2 DEF Committed
  <2>4. \A c \in Committed : generation'[c] = generation[c] /\ generation[c] \in 1 .. g
    BY <2>2, <2>3 DEF GenerationChain
  <2>5. ASSUME NEW n \in 1 .. (g + 1) PROVE \E c \in Committed' : generation'[c] = n
    <3>1. CASE n = g + 1
      BY <2>2, <2>3, <3>1
    <3>2. CASE n \in 1 .. g
      <4>1. PICK c \in Committed : generation[c] = n
        BY <3>2 DEF GenerationChain
      <4> QED
        BY <2>3, <2>4, <4>1
    <3> QED
      BY <2>1, <3>1, <3>2
  <2>6. \A c \in Committed' : generation'[c] \in 1 .. (g + 1)
    BY <2>1, <2>2, <2>3, <2>4
  <2>7. {generation'[c] : c \in Committed'} = 1 .. capsule'.gen
    BY <2>2, <2>5, <2>6
  <2>8. \A c, d \in Committed' : generation'[c] = generation'[d] => c = d
    BY <2>1, <2>2, <2>3, <2>4 DEF GenerationChain
  <2> QED
    BY <2>1, <2>2, <2>3, <2>7, <2>8 DEF GenerationChain
<1>10. ASSUME NEW a \in Applies, CommitsFailure(a)
      PROVE  GenerationChain'
  BY <1>10, <1>1
  DEF CommitsFailure, Marked, Status, Row, OtherRows, admission, GenerationChain,
      Committed
<1>11. ASSUME NEW a \in Applies, Marks(a)
      PROVE  GenerationChain'
  BY <1>11, <1>1
  DEF Marks, Row, OtherRows, admission, ledger, GenerationChain, Committed
<1> QED
  BY <1>2, <1>3, <1>4, <1>5, <1>6, <1>7, <1>8, <1>9, <1>10, <1>11
  DEF CoreStep, RowStep

(* The parts of a commit stay together.                                    *)
LEMMA NotTornStep ==
    ASSUME TypeOK, AdmitInv, BaseInv, GenerationChain, PendingInv, CommitNotTorn,
           CoreStep
    PROVE  CommitNotTorn'
<1>1. /\ run \in [Applies -> RunRow]
      /\ plan \in [Plans -> PlanRow]
      /\ generation \in [Applies -> Nat]
      /\ prepared \in [Applies -> SUBSET [plan: Plans, capsule: CapsuleRow]]
      /\ None \notin Applies
      /\ \A q \in Plans : plan[q].appliedBy \in Applies \cup {None}
  BY ApplyConstants DEF TypeOK, PlanRow
<1>2. CASE UNCHANGED core \/ BeginWorkspaceDraining \/ FreezeWorkspace
  BY <1>2, <1>1
  DEF core, BeginWorkspaceDraining, billing, ledger, FreezeWorkspace, CommitNotTorn,
      Committed, PlanOf
<1>3. ASSUME NEW p \in Plans, CreatePlan(p)
      PROVE  CommitNotTorn'
  <2>1. \A a \in Committed : PlanOf(a) \in Plans \ {p}
    BY <1>3 DEF CreatePlan, AdmitInv, CommitNotTorn, Committed
  <2>2. plan'[p].appliedBy = None /\ \A q \in Plans \ {p} : plan'[q] = plan[q]
    BY <1>1, <1>3 DEF CreatePlan
  <2> QED
    BY <1>1, <2>1, <2>2, <1>3 DEF CreatePlan, billing, CommitNotTorn, Committed, PlanOf
<1>4. ASSUME NEW a \in Applies, NEW p \in Plans, PrepareApply(a, p)
      PROVE  CommitNotTorn'
  BY <1>4, <1>1
  DEF PrepareApply, billing, ledger, CommitNotTorn, Committed, PlanOf
<1>5. ASSUME NEW a \in Applies, NEW held \in prepared[a], Admits(a, held)
      PROVE  CommitNotTorn'
  <2>1. run[a].status = "none"
    BY <1>5 DEF AdmitInv
  <2>2. a \notin Committed /\ run[a].billing # "done" /\ \A q \in Plans : plan[q].appliedBy # a
    BY <2>1, LiveIsUnnamed DEF Terminal
  <2> QED
    BY <1>1, <2>2, <1>5
    DEF Admits, Admitted, OtherRows, ledger, CommitNotTorn, Committed, PlanOf
<1>6. ASSUME NEW a \in Applies, Refuses(a) \/ Touches(a) \/ Captures(a)
      PROVE  CommitNotTorn'
  BY <1>6, <1>1
  DEF Refuses, ledger, Touches, admission, Captures, CommitNotTorn, Committed,
      PlanOf
<1>7. ASSUME NEW a \in Applies, Cancels(a) \/ Fails(a) \/ Claims(a) \/ Beats(a) \/ Requeues(a)
      PROVE  CommitNotTorn'
  <2>1. run[a].status \notin Terminal
    BY <1>7 DEF Cancels, Fails, Claims, Beats, Requeues, InFlight, Terminal
  <2>2. a \notin Committed /\ run[a].billing # "done" /\ \A q \in Plans : plan[q].appliedBy # a
    BY <2>1, LiveIsUnnamed
  <2>3. /\ \A b \in Applies \ {a} : run'[b] = run[b]
        /\ run'[a].billing = run[a].billing
        /\ UNCHANGED <<plan, generation, captured>>
    BY <1>7 DEF Cancels, Fails, Claims, Beats, Requeues, Status, Row, OtherRows, ledger
  <2> QED
    BY <1>1, <2>2, <2>3 DEF CommitNotTorn, Committed, PlanOf
<1>8. ASSUME NEW a \in Applies, Replays(a)
      PROVE  CommitNotTorn'
  <2>1. a \notin Committed /\ run[a].billing # "done" /\ \A q \in Plans : plan[q].appliedBy # a
    BY <1>8, LiveIsUnnamed DEF Replays, Terminal
  <2>2. /\ \A b \in Applies \ {a} : run'[b] = run[b]
        /\ run'[a].billing = run[a].billing
        /\ UNCHANGED <<plan, generation, captured>>
    BY <1>8 DEF Replays, Row, OtherRows, ledger
  <2> QED
    BY <1>1, <2>1, <2>2 DEF CommitNotTorn, Committed, PlanOf
<1>9. ASSUME NEW a \in Applies, NEW s \in {"succeeded", "failed"},
             NEW b \in {run[a].billing, "pending"}, Commits(a, s, b)
      PROVE  CommitNotTorn'
  <2> DEFINE p == PlanOf(a)
  <2>1. /\ p \in Plans
        /\ plan[p].gen \in Nat
        /\ a \notin Committed
        /\ \A c \in Committed : PlanOf(c) # p
    BY <1>9, GuardPinsBase DEF Commits
  <2>2. run[a].billing # "done" /\ a \notin captured /\ \A q \in Plans : plan[q].appliedBy # a
    BY <1>9, LiveIsUnnamed DEF Commits, Terminal
  <2>3. /\ \A c \in Applies \ {a} : run'[c] = run[c] /\ generation'[c] = generation[c]
        /\ \A q \in Plans \ {p} : plan'[q] = plan[q]
        /\ plan'[p].appliedBy = a
        /\ run'[a].plan = p
        /\ run'[a].status \in {"succeeded", "failed"}
        /\ run'[a].version = a
        /\ run'[a].billing # "done"
        /\ generation'[a] = plan[p].gen + 1
        /\ captured' = captured
    BY <1>9, <2>2 DEF Commits, Marked, Row, OtherRows, PlanOf
  <2>4. Committed' = Committed \cup {a} /\ Committed \subseteq Applies \ {a}
    BY <2>1, <2>3 DEF Committed
  <2>5. \A c \in Committed : PlanOf(c) \in Plans \ {p} /\ PlanOf(c)' = PlanOf(c)
    BY <2>1, <2>3, <2>4 DEF BaseInv, PlanOf
  <2>6. ASSUME NEW c \in Committed'
        PROVE  /\ run'[c].status \in {"succeeded", "failed"}
               /\ run'[c].version = c
               /\ plan'[PlanOf(c)'].appliedBy = c
    <3>1. CASE c = a
      BY <2>3, <3>1 DEF PlanOf
    <3>2. CASE c \in Committed
      BY <2>3, <2>4, <2>5, <3>2 DEF CommitNotTorn
    <3> QED
      BY <2>4, <3>1, <3>2
  <2>7. ASSUME NEW q \in Plans, plan'[q].appliedBy # None
        PROVE  run'[plan'[q].appliedBy].status \in Terminal
    <3>1. CASE q = p
      BY <2>3, <3>1 DEF Terminal
    <3>2. CASE q # p
      BY <1>1, <2>2, <2>3, <2>7, <3>2 DEF CommitNotTorn
    <3> QED
      BY <3>1, <3>2
  <2>8. /\ captured' \subseteq Committed'
        /\ \A c \in Applies : run'[c].billing = "done" => c \in captured'
    BY <2>3, <2>4 DEF CommitNotTorn
  <2> QED
    BY <2>6, <2>7, <2>8 DEF CommitNotTorn
<1>10. ASSUME NEW a \in Applies, CommitsFailure(a)
      PROVE  CommitNotTorn'
  <2> DEFINE p == PlanOf(a)
  <2>1. p \in Plans /\ a \notin Committed /\ run[a].billing # "done"
    BY <1>10, LiveIsUnnamed DEF CommitsFailure, AdmitInv, Terminal
  <2>2. \A c \in Committed : PlanOf(c) # p
    BY <1>10, GuardPinsBase DEF CommitsFailure
  <2>3. /\ \A c \in Applies \ {a} : run'[c] = run[c]
        /\ \A q \in Plans \ {p} : plan'[q] = plan[q]
        /\ plan'[p].appliedBy = a
        /\ run'[a].status = "failed"
        /\ run'[a].billing # "done"
        /\ UNCHANGED <<generation, captured>>
    BY <1>10, <2>1 DEF CommitsFailure, Marked, Status, Row, OtherRows
  <2>4. Committed' = Committed /\ Committed \subseteq Applies \ {a}
    BY <2>1, <2>3 DEF Committed
  <2>5. \A c \in Committed : PlanOf(c) \in Plans \ {p} /\ PlanOf(c)' = PlanOf(c)
    BY <2>2, <2>3, <2>4 DEF BaseInv, PlanOf
  <2>6. \A q \in Plans : plan[q].appliedBy # a
    BY <1>10, LiveIsUnnamed DEF CommitsFailure, Terminal
  <2> QED
    BY <1>1, <2>1, <2>3, <2>4, <2>5, <2>6 DEF CommitNotTorn, Terminal
<1>11. ASSUME NEW a \in Applies, Marks(a)
      PROVE  CommitNotTorn'
  BY <1>11, <1>1
  DEF Marks, Row, OtherRows, admission, ledger, CommitNotTorn, Committed, PlanOf
<1> QED
  BY <1>2, <1>3, <1>4, <1>5, <1>6, <1>7, <1>8, <1>9, <1>10, <1>11
  DEF CoreStep, RowStep

(* The StateVersion a succeeded run names stays.                           *)
LEMMA LedgeredStep ==
    ASSUME TypeOK, AdmitInv, MarkerInv, CommitNotTorn, SucceededIsLedgered,
           CoreStep
    PROVE  SucceededIsLedgered'
<1>1. /\ run \in [Applies -> RunRow]
      /\ plan \in [Plans -> PlanRow]
      /\ generation \in [Applies -> Nat]
      /\ prepared \in [Applies -> SUBSET [plan: Plans, capsule: CapsuleRow]]
      /\ None \notin Applies
      /\ \A q \in Plans : plan[q].appliedBy \in Applies \cup {None}
  BY ApplyConstants DEF TypeOK, PlanRow
<1>2. \A a, b \in Applies :
        run[a].status # "succeeded" /\ run[b].status = "succeeded" =>
          run[b].version # a /\ run[b].version \in Applies
  BY DEF SucceededIsLedgered, Committed
<1>3. CASE UNCHANGED core \/ BeginWorkspaceDraining \/ FreezeWorkspace
  BY <1>3, <1>1, <1>2
  DEF core, BeginWorkspaceDraining, billing, ledger, FreezeWorkspace,
      SucceededIsLedgered, Committed, PlanOf
<1>4. ASSUME NEW p \in Plans, CreatePlan(p)
      PROVE  SucceededIsLedgered'
  BY <1>4, <1>1, <1>2
  DEF CreatePlan, billing, SucceededIsLedgered, Committed, PlanOf
<1>5. ASSUME NEW a \in Applies, NEW p \in Plans, PrepareApply(a, p)
      PROVE  SucceededIsLedgered'
  BY <1>5, <1>1, <1>2
  DEF PrepareApply, billing, ledger, SucceededIsLedgered, Committed, PlanOf
<1>6. ASSUME NEW a \in Applies, NEW held \in prepared[a], Admits(a, held)
      PROVE  SucceededIsLedgered'
  <2>1. run[a].status = "none"
    BY <1>6 DEF AdmitInv
  <2>2. /\ \A b \in Applies \ {a} : run'[b] = run[b]
        /\ run'[a].status = "queued"
        /\ generation' = generation
    BY <1>6 DEF Admits, Admitted, OtherRows, ledger
  <2> QED
    BY <1>1, <1>2, <2>1, <2>2 DEF SucceededIsLedgered, Committed, PlanOf
<1>7. ASSUME NEW a \in Applies, Refuses(a) \/ Touches(a) \/ Captures(a)
      PROVE  SucceededIsLedgered'
  BY <1>7, <1>1, <1>2
  DEF Refuses, ledger, Touches, admission, Captures, SucceededIsLedgered, Committed,
      PlanOf
<1>8. ASSUME NEW a \in Applies, Cancels(a) \/ Fails(a) \/ Claims(a) \/ Beats(a) \/ Requeues(a)
      PROVE  SucceededIsLedgered'
  <2>1. /\ run[a].status # "succeeded"
        /\ run'[a].status # "succeeded"
        /\ \A b \in Applies \ {a} : run'[b] = run[b]
        /\ generation' = generation
    BY <1>8
    DEF Cancels, Fails, Claims, Beats, Requeues, Status, Row, OtherRows, ledger, InFlight
  <2> QED
    BY <1>1, <1>2, <2>1 DEF SucceededIsLedgered, Committed, PlanOf
<1>9. ASSUME NEW a \in Applies, Replays(a)
      PROVE  SucceededIsLedgered'
  <2> DEFINE c == plan[PlanOf(a)].appliedBy
  <2>1. PlanOf(a) \in Plans /\ c \in Applies /\ PlanOf(c) = PlanOf(a)
    BY <1>1, <1>9 DEF Replays, AdmitInv, MarkerInv
  <2>2. /\ run[c].version \in Committed
        /\ PlanOf(run[c].version) = PlanOf(a)
        /\ run[run[c].version].status = "succeeded"
    BY <2>1, <1>9 DEF Replays, SucceededIsLedgered
  <2>3. /\ run[a].status # "succeeded"
        /\ run'[a].version = run[c].version
        /\ run'[a].plan = run[a].plan
        /\ \A b \in Applies \ {a} : run'[b] = run[b]
        /\ generation' = generation
    BY <1>9 DEF Replays, Row, OtherRows, ledger
  <2> QED
    BY <1>1, <1>2, <2>2, <2>3 DEF SucceededIsLedgered, Committed, PlanOf
<1>10. ASSUME NEW a \in Applies, NEW s \in {"succeeded", "failed"},
             NEW b \in {run[a].billing, "pending"}, Commits(a, s, b)
      PROVE  SucceededIsLedgered'
  <2>1. PlanOf(a) \in Plans /\ plan[PlanOf(a)].gen + 1 # 0
    BY <1>1, <1>10 DEF Commits, AdmitInv, PlanRow
  <2>2. /\ run[a].status # "succeeded"
        /\ run'[a].version = a
        /\ run'[a].plan = run[a].plan
        /\ generation'[a] # 0
        /\ \A c \in Applies \ {a} : run'[c] = run[c] /\ generation'[c] = generation[c]
    BY <2>1, <1>10 DEF Commits, Row, OtherRows
  <2> QED
    BY <1>1, <1>2, <2>2 DEF SucceededIsLedgered, Committed, PlanOf
<1>11. ASSUME NEW a \in Applies, CommitsFailure(a)
      PROVE  SucceededIsLedgered'
  <2>1. /\ run[a].status # "succeeded"
        /\ run'[a].status # "succeeded"
        /\ \A b \in Applies \ {a} : run'[b] = run[b]
        /\ generation' = generation
    BY <1>11 DEF CommitsFailure, Status, Row, OtherRows
  <2> QED
    BY <1>1, <1>2, <2>1 DEF SucceededIsLedgered, Committed, PlanOf
<1>12. ASSUME NEW a \in Applies, Marks(a)
      PROVE  SucceededIsLedgered'
  BY <1>12, <1>1, <1>2
  DEF Marks, Row, OtherRows, admission, ledger, SucceededIsLedgered, Committed,
      PlanOf
<1> QED
  BY <1>3, <1>4, <1>5, <1>6, <1>7, <1>8, <1>9, <1>10, <1>11, <1>12
  DEF CoreStep, RowStep

-----------------------------------------------------------------------------
(* What a step does to the consumer that takes it.                         *)

Phases ==
    {"idle", "read", "claim", "check", "dispatch", "dispatched", "lifecycle",
     "commit", "ambiguous", "capture", "mark", "settle", "replay", "retry",
     "release", "fail", "exit"}

(* The phases that rely on nothing but an admitted run.                    *)
Plain == {"check", "dispatch", "lifecycle", "commit", "ambiguous", "settle", "retry",
          "release", "fail", "exit"}

Moved(w, pc, seen, token) ==
    /\ worker' \in [Workers -> WorkerState]
    /\ \A v \in Workers \ {w} : worker'[v] = worker[v]
    /\ worker'[w].pc = pc
    /\ worker'[w].seen = seen
    /\ worker'[w].token = token

Goes(w, pc) == Moved(w, pc, worker[w].seen, worker[w].token)

Leaves(w) == Moved(w, "idle", NoSnapshot, 0)

(* A consumer leaves, or moves with what its next phase relies on.         *)
Moves(w) ==
    LET a == RunOf[w]
        now == worker[w].pc
    IN  \/ Leaves(w)
        \/ now # "idle" /\ \E pc \in Plain : Goes(w, pc)
        \/ /\ run[a].status \in InFlight
           /\ \E seen \in Snapshot : seen.status \in InFlight
                                     /\ Moved(w, "read", seen, worker[w].token)
        \/ now = "read" /\ Goes(w, "claim")
        \/ now # "idle" /\ plan[PlanOf(a)].appliedBy # None /\ Goes(w, "replay")
        \/ now # "idle" /\ run[a].status = "running" /\ Goes(w, "dispatched")
        \/ run[a].status # "none" /\ generation'[a] # 0 /\ Goes(w, "capture")
        \/ now # "idle" /\ a \in captured' /\ Goes(w, "mark")

Claimed(w) ==
    /\ worker[w].pc = "claim"
    /\ FreshStamps(RunOf[w]) # {}
    /\ \E pc \in Plain, token \in {0, Fresh(RunOf[w])} : Moved(w, pc, NoSnapshot, token)

(* A consumer that only moves on keeps its token and what it read.         *)
LEMMA GoMoves ==
    ASSUME TypeOK, NEW w \in Workers, NEW pc \in Phases
    PROVE  worker' = [worker EXCEPT ![w].pc = pc]
             => Goes(w, pc)
<1>1. PICK r \in WorkerState : r = worker[w]
  BY DEF TypeOK
<1>2. PICK q : q = [r EXCEPT !.pc = pc]
  OBVIOUS
<1>3. SUFFICES ASSUME worker' = [worker EXCEPT ![w] = q]
               PROVE  Goes(w, pc)
  BY <1>1, <1>2
<1>4. q = [pc |-> pc, seen |-> r.seen, token |-> r.token, planned |-> r.planned,
           dispatched |-> r.dispatched, outcome |-> r.outcome]
  BY <1>2 DEF WorkerState
<1>5. q \in WorkerState
  BY <1>4 DEF WorkerState, Phases
<1> QED
  BY <1>1, <1>3, <1>4, <1>5 DEF Moved, Goes, TypeOK

(* What a delivery, a claim and the steps under the claim remember.        *)
LEMMA DeliverMoves ==
    ASSUME TypeOK, NEW w \in Workers, NEW seen \in Snapshot
    PROVE  worker' = [worker EXCEPT ![w].pc = "read", ![w].seen =
                             seen]
             => Moved(w, "read", seen, worker[w].token)
<1>1. PICK r \in WorkerState : r = worker[w]
  BY DEF TypeOK
<1>2. PICK q : q = [r EXCEPT !.pc = "read", !.seen = seen]
  OBVIOUS
<1>3. SUFFICES ASSUME worker' = [worker EXCEPT ![w] = q]
               PROVE  Moved(w, "read", seen, worker[w].token)
  BY <1>1, <1>2
<1>4. q = [pc |-> "read", seen |-> seen, token |-> r.token, planned |-> r.planned,
           dispatched |-> r.dispatched, outcome |-> r.outcome]
  BY <1>2 DEF WorkerState
<1>5. q \in WorkerState
  BY <1>4 DEF WorkerState, Phases
<1> QED
  BY <1>1, <1>3, <1>4, <1>5 DEF Moved, Goes, TypeOK

(* A claim.                                                                *)
LEMMA ClaimMoves ==
    ASSUME TypeOK, NEW w \in Workers, NEW pc \in Phases, NEW token \in Stamps, NEW
           seen \in Snapshot
    PROVE  worker' = [worker EXCEPT ![w].pc = pc, ![w].seen = seen,
                             ![w].token = token]
             => Moved(w, pc, seen, token)
<1>1. PICK r \in WorkerState : r = worker[w]
  BY DEF TypeOK
<1>2. PICK q : q = [r EXCEPT !.pc = pc, !.seen = seen, !.token = token]
  OBVIOUS
<1>3. SUFFICES ASSUME worker' = [worker EXCEPT ![w] = q]
               PROVE  Moved(w, pc, seen, token)
  BY <1>1, <1>2
<1>4. q = [pc |-> pc, seen |-> seen, token |-> token, planned |-> r.planned,
           dispatched |-> r.dispatched, outcome |-> r.outcome]
  BY <1>2 DEF WorkerState
<1>5. q \in WorkerState
  BY <1>4 DEF WorkerState, Phases
<1> QED
  BY <1>1, <1>3, <1>4, <1>5 DEF Moved, Goes, TypeOK

(* The Capsule status the commit will compare.                             *)
LEMMA CheckMoves ==
    ASSUME TypeOK, NEW w \in Workers, NEW s \in {"active", "error"}
    PROVE  worker' = [worker EXCEPT ![w].pc = "dispatch",
                             ![w].planned = s]
             => Goes(w, "dispatch")
<1>1. PICK r \in WorkerState : r = worker[w]
  BY DEF TypeOK
<1>2. PICK q : q = [r EXCEPT !.pc = "dispatch", !.planned = s]
  OBVIOUS
<1>3. SUFFICES ASSUME worker' = [worker EXCEPT ![w] = q]
               PROVE  Goes(w, "dispatch")
  BY <1>1, <1>2
<1>4. q = [pc |-> "dispatch", seen |-> r.seen, token |-> r.token, planned |-> s,
           dispatched |-> r.dispatched, outcome |-> r.outcome]
  BY <1>2 DEF WorkerState
<1>5. q \in WorkerState
  BY <1>4 DEF WorkerState, Phases
<1> QED
  BY <1>1, <1>3, <1>4, <1>5 DEF Moved, Goes, TypeOK

(* A dispatch.                                                             *)
LEMMA DispatchMoves ==
    ASSUME TypeOK, NEW w \in Workers
    PROVE  worker' = [worker EXCEPT ![w].pc = "dispatched",
                             ![w].dispatched = TRUE]
             => Goes(w, "dispatched")
<1>1. PICK r \in WorkerState : r = worker[w]
  BY DEF TypeOK
<1>2. PICK q : q = [r EXCEPT !.pc = "dispatched", !.dispatched = TRUE]
  OBVIOUS
<1>3. SUFFICES ASSUME worker' = [worker EXCEPT ![w] = q]
               PROVE  Goes(w, "dispatched")
  BY <1>1, <1>2
<1>4. q = [pc |-> "dispatched", seen |-> r.seen, token |-> r.token, planned |->
           r.planned, dispatched |-> TRUE, outcome |-> r.outcome]
  BY <1>2 DEF WorkerState
<1>5. q \in WorkerState
  BY <1>4 DEF WorkerState, Phases
<1> QED
  BY <1>1, <1>3, <1>4, <1>5 DEF Moved, Goes, TypeOK

(* The outcome of the runner.                                              *)
LEMMA ReturnMoves ==
    ASSUME TypeOK, NEW w \in Workers, NEW pc \in Phases, NEW o \in {"ok",
           "lifecycle", "persisted", "unpersisted"}
    PROVE  worker' = [worker EXCEPT ![w].outcome = o, ![w].pc = pc]
             => Goes(w, pc)
<1>1. PICK r \in WorkerState : r = worker[w]
  BY DEF TypeOK
<1>2. PICK q : q = [r EXCEPT !.outcome = o, !.pc = pc]
  OBVIOUS
<1>3. SUFFICES ASSUME worker' = [worker EXCEPT ![w] = q]
               PROVE  Goes(w, pc)
  BY <1>1, <1>2
<1>4. q = [pc |-> pc, seen |-> r.seen, token |-> r.token, planned |-> r.planned,
           dispatched |-> r.dispatched, outcome |-> o]
  BY <1>2 DEF WorkerState
<1>5. q \in WorkerState
  BY <1>4 DEF WorkerState, Phases
<1> QED
  BY <1>1, <1>3, <1>4, <1>5 DEF Moved, Goes, TypeOK

(* The outcome of the post-apply actions.                                  *)
LEMMA LifecycleMoves ==
    ASSUME TypeOK, NEW w \in Workers, NEW pc \in Phases, NEW o \in {"ok",
           "lifecycle", "persisted", "unpersisted"}
    PROVE  worker' = [worker EXCEPT ![w].pc = pc, ![w].outcome = o]
             => Goes(w, pc)
<1>1. PICK r \in WorkerState : r = worker[w]
  BY DEF TypeOK
<1>2. PICK q : q = [r EXCEPT !.pc = pc, !.outcome = o]
  OBVIOUS
<1>3. SUFFICES ASSUME worker' = [worker EXCEPT ![w] = q]
               PROVE  Goes(w, pc)
  BY <1>1, <1>2
<1>4. q = [pc |-> pc, seen |-> r.seen, token |-> r.token, planned |-> r.planned,
           dispatched |-> r.dispatched, outcome |-> o]
  BY <1>2 DEF WorkerState
<1>5. q \in WorkerState
  BY <1>4 DEF WorkerState, Phases
<1> QED
  BY <1>1, <1>3, <1>4, <1>5 DEF Moved, Goes, TypeOK

(* A consumer that ends forgets everything.                                *)
LEMMA IdleMoves ==
    ASSUME TypeOK, NEW w \in Workers, worker' = [worker EXCEPT ![w] = Idle]
    PROVE  Leaves(w)
<1>1. Idle \in WorkerState
  BY ApplyConstants DEF Idle, NoSnapshot, WorkerState, Snapshot, Stamps
<1>2. worker'[w] = Idle
  BY DEF TypeOK
<1>3. /\ worker' \in [Workers -> WorkerState]
      /\ \A v \in Workers \ {w} : worker'[v] = worker[v]
  BY <1>1 DEF TypeOK
<1> QED
  BY <1>2, <1>3 DEF Leaves, Moved, Idle

(* Every step of a consumer moves it in one of these ways.                 *)
LEMMA WorkerBranches ==
    ASSUME TypeOK, AdmitInv, PendingInv, CommitNotTorn,
           NEW w \in Workers, Consumer(w) \/ Trouble(w)
    PROVE  Moves(w) \/ Claimed(w) \/ UNCHANGED worker
<1> DEFINE a == RunOf[w]
           now == worker[w].pc
<1>1. a \in Applies
  BY ApplyConstants
<1>2. \A pc \in Phases : Go(w, pc) => Goes(w, pc)
  BY GoMoves DEF Go
<1>3. /\ Plain \subseteq Phases
      /\ {"claim", "replay", "dispatched", "capture", "mark"} \subseteq Phases
  BY DEF Plain, Phases
<1>4. ASSUME now # "idle", NEW pc \in Plain, Goes(w, pc) PROVE Moves(w)
  BY <1>4 DEF Moves
<1>5. ASSUME \/ PreflightFails(w) \/ RenewalFails(w) \/ RunnerThrows(w) \/ CommitLeaseLost(w)
             \/ CommitConflict(w) \/ MarkCaptured(w) \/ SettleFailedMutation(w)
             \/ CompleteReplay(w) \/ RequeueAfterInfrastructureError(w)
             \/ ReleaseBilling(w) \/ FailApplyRun(w) \/ CommitAmbiguous(w)
             \/ CaptureDeferred(w)
      PROVE  Moves(w)
  <2>1. now # "idle" /\ \E pc \in Plain : Go(w, pc)
    BY <1>5 DEF PreflightFails, RenewalFails, RunnerThrows, CommitLeaseLost, CommitConflict,
       MarkCaptured, SettleFailedMutation, CompleteReplay, RequeueAfterInfrastructureError,
       ReleaseBilling, FailApplyRun, CommitAmbiguous, CaptureDeferred, Plain
  <2> QED
    BY <1>2, <1>3, <1>4, <2>1
<1>6. ASSUME FailUnclaimedApplyRun(w) \/ Exit(w) \/ Crash(w) PROVE Moves(w)
  BY <1>6, IdleMoves DEF FailUnclaimedApplyRun, Exit, Crash, Moves
<1>7. ASSUME Deliver(w) PROVE Moves(w)
  <2>1. PICK seen : seen = [status |-> run[a].status, started |-> run[a].started,
                            beat |-> run[a].beat]
    OBVIOUS
  <2>2. run[a].status \in InFlight
    BY <1>7 DEF Deliver, InFlight
  <2>3. seen \in Snapshot /\ seen.status \in InFlight
    BY <1>1, <2>1, <2>2 DEF TypeOK, RunRow, Snapshot, InFlight
  <2>4. worker' = [worker EXCEPT ![w].pc = "read", ![w].seen = seen]
    BY <1>7, <2>1 DEF Deliver
  <2>5. Moved(w, "read", seen, worker[w].token)
    BY <2>3, <2>4, DeliverMoves
  <2> QED
    BY <2>2, <2>3, <2>5 DEF Moves
<1>8. ASSUME DeliverPending(w) PROVE Moves(w)
  <2>1. /\ run[a].status # "none"
        /\ generation'[a] # 0
    BY <1>1, <1>8 DEF DeliverPending, PendingInv, Committed, ledger
  <2>2. Goes(w, "capture")
    BY <1>2, <1>3, <1>8 DEF DeliverPending
  <2> QED
    BY <2>1, <2>2 DEF Moves
<1>9. ASSUME AcquireLease(w) PROVE Moves(w)
  <2>1. CASE worker' = [worker EXCEPT ![w] = Idle]
    BY <2>1, IdleMoves DEF Moves
  <2>2. CASE Go(w, "claim")
    BY <1>2, <1>3, <1>9, <2>2 DEF AcquireLease, Moves
  <2> QED
    BY <1>9, <2>1, <2>2 DEF AcquireLease
<1>10. ASSUME Claim(w) PROVE Claimed(w)
  <2>1. PICK pc \in {"check", "exit"}, token \in {0, Fresh(a)}, seen \in {NoSnapshot} :
          worker' = [worker EXCEPT ![w].pc = pc, ![w].seen = seen, ![w].token = token]
    BY <1>10 DEF Claim, NewLeaseToken
  <2>2. worker[w].pc = "claim" /\ FreshStamps(a) # {}
    BY <1>10 DEF Claim
  <2>3. pc \in Phases /\ pc \in Plain
    BY <2>1 DEF Phases, Plain
  <2>4. 0 \in Stamps /\ Fresh(a) \in Stamps
    BY <1>1, <2>2, FreshIsStamp, ApplyConstants DEF Stamps
  <2>5. seen \in Snapshot
    BY <2>1, <2>4 DEF NoSnapshot, Snapshot
  <2>6. Moved(w, pc, seen, token)
    BY <2>1, <2>3, <2>4, <2>5, ClaimMoves
  <2> QED
    BY <2>1, <2>2, <2>3, <2>6 DEF Claimed
<1>11. ASSUME CheckPreconditions(w) PROVE Moves(w)
  <2>1. now # "idle"
    BY <1>11 DEF CheckPreconditions
  <2>2. CASE plan[PlanOf(a)].appliedBy # None /\ Go(w, "replay")
    BY <1>2, <1>3, <2>1, <2>2 DEF Moves
  <2>3. CASE Go(w, "release")
    BY <1>2, <1>3, <1>4, <2>1, <2>3 DEF Plain
  <2>4. CASE worker' = [worker EXCEPT ![w].pc = "dispatch", ![w].planned = capsule.status]
    <3>1. PICK s \in {"active", "error"} : s = capsule.status
      BY DEF TypeOK, CapsuleRow
    <3>2. Goes(w, "dispatch")
      BY <2>4, <3>1, CheckMoves
    <3> QED
      BY <1>4, <2>1, <3>2 DEF Plain
  <2> QED
    BY <1>11, <2>2, <2>3, <2>4 DEF CheckPreconditions
<1>12. ASSUME DispatchApply(w) PROVE Moves(w)
  <2>1. now # "idle" /\ run[a].status = "running"
    BY <1>12 DEF DispatchApply, Renewed, Owns
  <2>2. Goes(w, "dispatched")
    BY <1>12, DispatchMoves DEF DispatchApply
  <2> QED
    BY <2>1, <2>2 DEF Moves
<1>13. ASSUME RunnerReturns(w) \/ RunLifecycle(w) PROVE Moves(w)
  <2>1. PICK o \in {"ok", "lifecycle", "persisted", "unpersisted"},
             pc \in {"lifecycle", "commit"} :
          \/ worker' = [worker EXCEPT ![w].outcome = o, ![w].pc = pc]
          \/ worker' = [worker EXCEPT ![w].pc = pc, ![w].outcome = o]
    BY <1>13 DEF RunnerReturns, RunLifecycle
  <2>2. now # "idle" /\ pc \in Plain /\ pc \in Phases
    BY <1>13, <2>1 DEF RunnerReturns, RunLifecycle, Plain, Phases
  <2>3. Goes(w, pc)
    BY <2>1, <2>2, ReturnMoves, LifecycleMoves
  <2> QED
    BY <1>4, <2>2, <2>3
<1>14. ASSUME CommitLedger(w) PROVE Moves(w)
  <2>1. now # "idle" /\ run[a].status = "running" /\ Go(w, AfterCommit(w)) /\ CommitRunState(w)
    BY <1>14 DEF CommitLedger, Owns
  <2>2. CASE AfterCommit(w) = "settle"
    BY <1>2, <1>3, <1>4, <2>1, <2>2 DEF Plain
  <2>3. CASE AfterCommit(w) = "capture"
    <3>1. worker[w].outcome # "unpersisted"
      BY <2>3 DEF AfterCommit
    <3>2. PlanOf(a) \in Plans /\ plan[PlanOf(a)].gen \in Nat
      BY <1>1, <2>1 DEF AdmitInv, TypeOK, PlanRow
    <3>3. generation' = [generation EXCEPT ![a] = plan[PlanOf(a)].gen + 1]
      BY <2>1, <3>1 DEF CommitRunState
    <3>4. generation'[a] = plan[PlanOf(a)].gen + 1
      BY <1>1, <3>3 DEF TypeOK
    <3>5. Goes(w, "capture")
      BY <1>2, <1>3, <2>1, <2>3
    <3> QED
      BY <2>1, <3>2, <3>4, <3>5 DEF Moves
  <2> QED
    BY <2>2, <2>3 DEF AfterCommit
<1>15. ASSUME RequeueAfterAmbiguous(w) PROVE Moves(w)
  <2>1. now # "idle" /\ UNCHANGED generation
    BY <1>15 DEF RequeueAfterAmbiguous, ledger
  <2>2. CASE Go(w, "exit")
    BY <1>2, <1>3, <1>4, <2>1, <2>2 DEF Plain
  <2>3. CASE run[a].status \in Terminal /\ run[a].billing = "pending" /\ Go(w, "capture")
    <3>1. run[a].status # "none" /\ generation'[a] # 0
      BY <1>1, <2>1, <2>3 DEF PendingInv, Committed, Terminal
    <3>2. Goes(w, "capture")
      BY <1>2, <1>3, <2>3
    <3> QED
      BY <3>1, <3>2 DEF Moves
  <2> QED
    BY <1>15, <2>2, <2>3 DEF RequeueAfterAmbiguous
<1>16. ASSUME CaptureBilling(w) PROVE Moves(w)
  BY <1>2, <1>3, <1>16 DEF CaptureBilling, Moves
<1>17. ASSUME RenewRun(w) PROVE UNCHANGED worker
  BY <1>17 DEF RenewRun
<1> QED
  BY <1>5, <1>6, <1>7, <1>8, <1>9, <1>10, <1>11, <1>12, <1>13, <1>14, <1>15, <1>16, <1>17
  DEF Consumer, Trouble

(* A step of the API, of the management or of the clock moves nobody.      *)
LEMMA WorkerStep ==
    ASSUME TypeOK, AdmitInv, PendingInv, CommitNotTorn, [Next]_vars
    PROVE  \/ UNCHANGED worker
           \/ \E w \in Workers : Moves(w) \/ Claimed(w)
<1>1. ASSUME NEW p \in Plans, CreatePlan(p) PROVE UNCHANGED worker
  BY <1>1 DEF CreatePlan
<1>2. ASSUME NEW a \in Applies, Api(a) PROVE UNCHANGED worker
  BY <1>2 DEF Api, PrepareApply, BeginApplyRun, CancelApply, MarkRunFailed
<1>3. CASE BeginWorkspaceDraining \/ FreezeWorkspace \/ ExpireLease \/ UNCHANGED vars
  BY <1>3 DEF BeginWorkspaceDraining, FreezeWorkspace, ExpireLease, vars
<1> QED
  BY <1>1, <1>2, <1>3, WorkerBranches DEF Next

(* What a consumer relies on outlasts the steps of the others.             *)
LEMMA StaysInformed ==
    ASSUME AdmitInv, Lasting, NEW v \in Workers, Informed(v),
           worker'[v].pc = worker[v].pc, worker'[v].seen = worker[v].seen
    PROVE  Informed(v)'
<1>1. RunOf[v] \in Applies
  BY ApplyConstants
<1>2. worker[v].pc # "idle" =>
        /\ run'[RunOf[v]].status # "none"
        /\ PlanOf(RunOf[v])' = PlanOf(RunOf[v])
        /\ PlanOf(RunOf[v]) \in Plans
  BY <1>1 DEF Lasting, Informed, AdmitInv, PlanOf
<1> QED
  BY <1>1, <1>2 DEF Lasting, Informed, Committed

(* What a consumer relies on holds when it moves, and stays.               *)
LEMMA WorkStep ==
    ASSUME IInv, [Next]_vars PROVE WorkInv'
<1>1. Lasting
  BY Branches, StepIsLasting DEF IInv
<1>2. ASSUME NEW v \in Workers, worker'[v] = worker[v] PROVE Informed(v)'
  BY <1>1, <1>2, StaysInformed DEF IInv, WorkInv
<1>3. ASSUME NEW w \in Workers, Claimed(w) \/ Moves(w) PROVE Informed(w)'
  <2> DEFINE a == RunOf[w]
  <2>1. a \in Applies
    BY ApplyConstants
  <2>2. CASE worker'[w].pc = "idle"
    BY <2>2 DEF Informed
  <2>3. run[a].status # "none" => run'[a].status # "none" /\ PlanOf(a)' = PlanOf(a)
    BY <1>1, <2>1 DEF Lasting, PlanOf
  <2>4. worker[w].pc # "idle" => run[a].status # "none"
    BY DEF IInv, WorkInv, Informed
  <2>5. CASE worker[w].pc # "idle" /\ worker'[w].pc \in Plain
    BY <2>3, <2>4, <2>5 DEF Informed, Plain
  <2>6. CASE /\ run[a].status \in InFlight
             /\ worker'[w].pc = "read"
             /\ worker'[w].seen.status \in InFlight
    BY <2>3, <2>6 DEF Informed, InFlight
  <2>7. CASE worker[w].pc = "read" /\ Goes(w, "claim")
    BY <2>3, <2>4, <2>7 DEF Informed, Goes, Moved, IInv, WorkInv
  <2>8. CASE /\ worker[w].pc # "idle"
             /\ plan[PlanOf(a)].appliedBy # None
             /\ worker'[w].pc = "replay"
    <3>1. PlanOf(a) \in Plans
      BY <2>1, <2>4, <2>8 DEF IInv, AdmitInv
    <3> QED
      BY <1>1, <2>3, <2>4, <2>8, <3>1 DEF Informed, Lasting
  <2>9. CASE /\ worker[w].pc # "idle"
             /\ run[a].status = "running"
             /\ worker'[w].pc = "dispatched"
    <3>1. run'[a].started # 0
      BY <1>1, <2>1, <2>9 DEF IInv, StartInv, Lasting
    <3> QED
      BY <2>3, <2>9, <3>1 DEF Informed
  <2>10. CASE /\ run[a].status # "none"
              /\ generation'[a] # 0
              /\ worker'[w].pc = "capture"
    BY <2>1, <2>3, <2>10 DEF Informed, Committed
  <2>11. CASE /\ worker[w].pc # "idle"
              /\ a \in captured'
              /\ worker'[w].pc = "mark"
    BY <2>3, <2>4, <2>11 DEF Informed
  <2>12. CASE Claimed(w)
    BY <2>5, <2>12 DEF Claimed, Moved
  <2>13. CASE Moves(w)
    BY <2>2, <2>5, <2>6, <2>7, <2>8, <2>9, <2>10, <2>11, <2>13
    DEF Moves, Leaves, Goes, Moved
  <2> QED
    BY <1>3, <2>12, <2>13
<1>4. ASSUME NEW w \in Workers, Claimed(w) \/ Moves(w), NEW v \in Workers, v # w
      PROVE  worker'[v] = worker[v]
  BY <1>4 DEF Claimed, Moves, Leaves, Goes, Moved
<1>5. UNCHANGED worker \/ \E w \in Workers : Moves(w) \/ Claimed(w)
  BY WorkerStep DEF IInv
<1> QED
  BY <1>2, <1>3, <1>4, <1>5 DEF WorkInv

(* A token is new when it is taken and never handed on.                    *)
LEMMA TokenStep ==
    ASSUME IInv, [Next]_vars PROVE TokenInv'
<1>1. TypeOK /\ TokenInv
  BY DEF IInv
<1>2. CASE UNCHANGED worker
  BY <1>1, <1>2 DEF TokenInv
<1>3. ASSUME NEW w \in Workers, Claimed(w) \/ Moves(w) PROVE TokenInv'
  <2>1. \A v \in Workers \ {w} : worker'[v] = worker[v]
    BY <1>3 DEF Claimed, Moves, Leaves, Goes, Moved
  <2>2. CASE worker'[w].token \in {0, worker[w].token}
    BY <1>1, <2>1, <2>2 DEF TokenInv
  <2>3. CASE Claimed(w) /\ worker'[w].token = Fresh(RunOf[w])
    <3>1. RunOf[w] \in Applies
      BY ApplyConstants
    <3>2. Fresh(RunOf[w]) \notin UsedStamps(RunOf[w])
      BY <2>3, <3>1, FreshIsUnused DEF Claimed
    <3>3. \A v \in Workers : RunOf[v] = RunOf[w] => worker[v].token # Fresh(RunOf[w])
      BY <3>2 DEF UsedStamps
    <3> QED
      BY <1>1, <2>1, <2>3, <3>3 DEF TokenInv
  <2> QED
    BY <1>3, <2>2, <2>3 DEF Claimed, Moves, Leaves, Goes, Moved
<1> QED
  BY <1>2, <1>3, WorkerStep DEF IInv

(* The fault count, the lease and the releases.                            *)
Margin(w) ==
    /\ faults' = faults \/ Fault
    /\ lock' \in {lock, None, w}
    /\ \/ released' = released
       \/ /\ worker[w].pc # "idle"
          /\ released' = released \cup {PlanOf(RunOf[w])}

(* Only a fault counts as one, and only settlement releases.               *)
LEMMA ConsumerMargin ==
    ASSUME NEW w \in Workers, Consumer(w) \/ Trouble(w)
    PROVE  Margin(w)
<1>1. CASE Deliver(w) \/ DeliverPending(w) \/ FailUnclaimedApplyRun(w)
  BY <1>1 DEF Deliver, DeliverPending, FailUnclaimedApplyRun, Margin, billing
<1>2. CASE AcquireLease(w) \/ Exit(w) \/ Crash(w)
  BY <1>2 DEF AcquireLease, Exit, Crash, Margin, billing
<1>3. CASE Claim(w) \/ CheckPreconditions(w) \/ PreflightFails(w) \/ RenewalFails(w)
  BY <1>3 DEF Claim, CheckPreconditions, PreflightFails, RenewalFails, Margin, billing
<1>4. CASE DispatchApply(w) \/ RenewRun(w) \/ RunnerReturns(w) \/ RunnerThrows(w)
           \/ RunLifecycle(w)
  BY <1>4 DEF DispatchApply, RenewRun, RunnerReturns, RunnerThrows, RunLifecycle, Margin,
              billing
<1>5. CASE CommitLedger(w) \/ CommitLeaseLost(w) \/ CommitConflict(w) \/ CommitAmbiguous(w)
  BY <1>5 DEF CommitLedger, CommitLeaseLost, CommitConflict, CommitAmbiguous, Margin, billing
<1>6. CASE RequeueAfterAmbiguous(w) \/ CompleteReplay(w)
           \/ RequeueAfterInfrastructureError(w) \/ FailApplyRun(w)
  BY <1>6 DEF RequeueAfterAmbiguous, CompleteReplay, RequeueAfterInfrastructureError,
              FailApplyRun, Margin, billing
<1>7. CASE CaptureBilling(w) \/ CaptureDeferred(w) \/ MarkCaptured(w)
  BY <1>7 DEF CaptureBilling, CaptureDeferred, MarkCaptured, Margin, billing
<1>8. CASE SettleFailedMutation(w) \/ ReleaseBilling(w)
  BY <1>8 DEF SettleFailedMutation, ReleaseBilling, Margin
<1> QED
  BY <1>1, <1>2, <1>3, <1>4, <1>5, <1>6, <1>7, <1>8 DEF Consumer, Trouble

(* The shapes of the state.                                                *)
LEMMA TypeStep ==
    ASSUME IInv, [Next]_vars PROVE TypeOK'
<1>1. TypeOK /\ AdmitInv /\ WorkInv
  BY DEF IInv
<1>2. CoreType'
  BY <1>1, Branches, CoreTyped
<1>3. worker' \in [Workers -> WorkerState]
  <2>1. UNCHANGED worker \/ \E w \in Workers : Moves(w) \/ Claimed(w)
    BY WorkerStep DEF IInv
  <2> QED
    BY <1>1, <2>1 DEF Moves, Claimed, Leaves, Goes, Moved, TypeOK
<1>4. \/ UNCHANGED <<faults, lock, released>>
      \/ lock' = None /\ released' = released /\ (faults' = faults \/ Fault)
      \/ \E w \in Workers : Margin(w)
  <2>1. ASSUME NEW p \in Plans, CreatePlan(p) PROVE UNCHANGED <<faults, lock, released>>
    BY <2>1 DEF CreatePlan, billing
  <2>2. ASSUME NEW a \in Applies, Api(a) PROVE UNCHANGED <<faults, lock, released>>
    BY <2>2 DEF Api, PrepareApply, BeginApplyRun, CancelApply, MarkRunFailed, billing
  <2>3. CASE BeginWorkspaceDraining \/ FreezeWorkspace \/ UNCHANGED vars
    BY <2>3 DEF BeginWorkspaceDraining, FreezeWorkspace, vars, billing
  <2>4. CASE ExpireLease
    BY <2>4 DEF ExpireLease, billing
  <2> QED
    BY <2>1, <2>2, <2>3, <2>4, ConsumerMargin DEF Next
<1>5. faults' \in 0 .. MaxFaults
  <2>1. faults' = faults \/ Fault
    BY <1>4 DEF Margin
  <2>2. faults \in 0 .. MaxFaults
    BY <1>1 DEF TypeOK
  <2> QED
    BY <2>1, <2>2, ApplyConstants DEF Fault
<1>6. lock' \in Workers \cup {None}
  BY <1>1, <1>4 DEF Margin, TypeOK
<1>7. released' \subseteq Plans
  <2>1. ASSUME NEW w \in Workers, worker[w].pc # "idle" PROVE PlanOf(RunOf[w]) \in Plans
    BY <1>1, <2>1, ApplyConstants DEF WorkInv, Informed, AdmitInv
  <2> QED
    BY <1>1, <1>4, <2>1 DEF Margin, TypeOK
<1> QED
  BY <1>2, <1>3, <1>5, <1>6, <1>7 DEF CoreType, TypeOK

-----------------------------------------------------------------------------
(* The theorems.                                                           *)

(* The inductive invariant holds in the initial state.                     *)
LEMMA InitInvariant == Init => IInv
<1> SUFFICES ASSUME Init PROVE IInv
  OBVIOUS
<1>1. NoRun \in RunRow /\ Idle \in WorkerState /\ Committed = {}
  BY ApplyConstants
  DEF Init, NoRun, RunRow, Idle, NoSnapshot, WorkerState, Snapshot, Stamps, Committed
<1>2. TypeOK
  BY <1>1, ApplyConstants DEF Init, TypeOK, CapsuleRow, PlanRow
<1>3. \A a \in Applies : run[a].status = "none" /\ run[a].billing = "none"
  BY DEF Init, NoRun
<1>4. AdmitInv /\ StartInv /\ PendingInv /\ MarkerInv /\ FrozenInv
  BY <1>3 DEF Init, AdmitInv, StartInv, PendingInv, MarkerInv, FrozenInv
<1>5. WorkInv /\ TokenInv
  BY DEF Init, Idle, WorkInv, Informed, TokenInv
<1>6. BaseInv /\ GenerationChain
  BY <1>1 DEF Init, BaseInv, GenerationChain
<1>7. CommitNotTorn /\ SucceededIsLedgered
  BY <1>1, <1>3 DEF Init, CommitNotTorn, SucceededIsLedgered
<1> QED
  BY <1>2, <1>4, <1>5, <1>6, <1>7 DEF IInv

(* Every step preserves the inductive invariant.                           *)
LEMMA NextInvariant == IInv /\ [Next]_vars => IInv'
<1> SUFFICES ASSUME IInv, [Next]_vars PROVE IInv'
  OBVIOUS
<1>1. CoreStep
  BY Branches DEF IInv
<1> QED
  BY <1>1, TypeStep, AdmitStep, WorkStep, TokenStep, StartStep, BaseStep, ChainStep,
     PendingStep, MarkerStays, NotTornStep, LedgeredStep, FrozenStays
  DEF IInv

(* The inductive invariant of the apply pipeline.                          *)
THEOREM Invariance == Spec => []IInv
  BY InitInvariant, NextInvariant, PTL DEF Spec

(* The stored rows keep their shape, no run is retried past the limit and  *)
(* no stamp passes its bound.                                              *)
THEOREM TypeCorrect == Spec => []TypeOK
  BY Invariance, PTL DEF IInv

(* At most one consumer of a run passes the fence of claimRunRunning.      *)
THEOREM OneOwnerHolds == Spec => []OneOwner
<1>1. IInv => OneOwner
  BY DEF IInv, TokenInv, OneOwner, Owns
<1> QED
  BY <1>1, Invariance, PTL

(* cancelRun and the drain cancel only what never reached a provider.      *)
THEOREM CancelledNeverRanHolds == Spec => []CancelledNeverRan
<1>1. IInv => CancelledNeverRan
  BY DEF IInv, StartInv, CancelledNeverRan
<1> QED
  BY <1>1, Invariance, PTL

(* commitRunState is never torn, and usage is captured for what it         *)
(* committed only.                                                         *)
THEOREM CommitNotTornHolds == Spec => []CommitNotTorn
  BY Invariance, PTL DEF IInv

(* The StateVersion guard of the Capsule patch keeps one line of           *)
(* generations.                                                            *)
THEOREM GenerationChainHolds == Spec => []GenerationChain
  BY Invariance, PTL DEF IInv

(* One reviewed plan is committed as a StateVersion at most once: two of   *)
(* its applies would stand at the same generation.                         *)
THEOREM ApplyOnceHolds == Spec => []ApplyOnce
<1>1. IInv => ApplyOnce
  BY DEF IInv, BaseInv, GenerationChain, ApplyOnce
<1> QED
  BY <1>1, Invariance, PTL

(* A succeeded run, replayed or not, names a StateVersion of its plan.     *)
THEOREM SucceededIsLedgeredHolds == Spec => []SucceededIsLedgered
  BY Invariance, PTL DEF IInv

(* No consumer, call or sweep rewrites a terminal run: but for the billing *)
(* marker, a write starts from a run in flight.                            *)
THEOREM TerminalStaysHolds == Spec => TerminalStays
<1>1. IInv /\ [Next]_vars => [TerminalStep]_vars
  <2> SUFFICES ASSUME IInv, [Next]_vars, NEW a \in Applies, run[a].status \in Terminal
               PROVE  [run'[a] EXCEPT !.billing = run[a].billing] = run[a]
    BY DEF TerminalStep
  <2>1. PICK r \in RunRow : r = run[a]
    BY DEF IInv, TypeOK
  <2>2. CASE run'[a] = run[a]
    BY <2>1, <2>2 DEF RunRow
  <2>3. CASE run'[a] = [r EXCEPT !.billing = "done"]
    BY <2>1, <2>3 DEF RunRow
  <2>4. CoreStep
    BY Branches DEF IInv
  <2>5. CASE run' = run
    BY <2>2, <2>5
  <2>6. ASSUME NEW b \in Applies, RowStep(b) PROVE run'[a] = run[a] \/ Marks(b)
    <3>1. CASE b # a
      BY <2>6, <3>1 DEF RowStep, Admits, Admitted, Refuses, Cancels, Fails, Claims, Beats,
         Touches, Requeues, Replays, Commits, CommitsFailure, Captures, Status, Row, OtherRows
    <3>2. CASE b = a
      <4>1. \A held \in prepared[a] : FALSE
        BY DEF IInv, AdmitInv, Terminal
      <4> QED
        BY <2>6, <3>2, <4>1 DEF RowStep, Refuses, Cancels, Fails, Claims, Beats, Touches,
           Requeues, Replays, Commits, CommitsFailure, Captures, InFlight, Terminal
    <3> QED
      BY <3>1, <3>2
  <2>7. ASSUME NEW b \in Applies, Marks(b)
        PROVE  run'[a] = run[a] \/ run'[a] = [r EXCEPT !.billing = "done"]
    <3>1. run' = [run EXCEPT ![b].billing = "done"]
      BY <2>7 DEF Marks
    <3> QED
      BY <2>1, <3>1 DEF IInv, TypeOK
  <2> QED
    BY <2>2, <2>3, <2>4, <2>5, <2>6, <2>7
    DEF CoreStep, core, CreatePlan, PrepareApply, BeginWorkspaceDraining, FreezeWorkspace
<1> QED
  BY <1>1, Invariance, PTL DEF Spec, TerminalStays

(* Nothing moves in a Workspace that completed its drain.                  *)
THEOREM FrozenIsQuietHolds == Spec => FrozenIsQuiet
<1>1. IInv /\ [Next]_vars => [FrozenStep]_vars
  <2> SUFFICES ASSUME IInv, [Next]_vars, management = "frozen"
               PROVE  UNCHANGED <<management, ledger, run>>
    BY DEF FrozenStep
  <2>1. CoreStep
    BY Branches DEF IInv
  <2>2. ASSUME NEW a \in Applies, RowStep(a) PROVE UNCHANGED <<management, ledger, run>>
    <3>1. run[a].status \notin InFlight /\ run[a].billing # "pending"
      BY DEF IInv, FrozenInv, InFlight, Terminal
    <3> QED
      BY <2>2, <3>1 DEF RowStep, Admits, Refuses, Cancels, Fails, Claims, Beats, Touches,
         Requeues, Replays, Commits, CommitsFailure, Captures, Marks, InFlight, admission
  <2> QED
    BY <2>1, <2>2 DEF CoreStep, core, CreatePlan, PrepareApply, BeginWorkspaceDraining,
       FreezeWorkspace, ledger
<1> QED
  BY <1>1, Invariance, PTL DEF Spec, FrozenIsQuiet
=============================================================================
