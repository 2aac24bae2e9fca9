--------------------------- MODULE InterfaceIntent --------------------------
(***************************************************************************)
(* The durable obligations that turn a committed Apply into Interfaces,    *)
(* for one Capsule: the intent rows, one per state generation, the         *)
(* drainers that claim, fence, write and settle them, the operator's retry *)
(* of a dead letter, and the runs of the Capsule's lifecycle that commit   *)
(* the intents, supersede them and mark the Interface rows.                *)
(*                                                                         *)
(* A drainer holds two leases, the intent's and the Capsule's, and either  *)
(* may lapse while it still works.  Every write to an Interface row is     *)
(* therefore one statement that also requires the intent, its lease and    *)
(* cursor and the Capsule's lineage to be current.                         *)
(*                                                                         *)
(* The stored lease token is the drainer: a drainer works on one claim at  *)
(* a time, so a token it used before is never in use.  Times are kept as   *)
(* two facts per row, whether the lease is live and whether a retry is     *)
(* due.  A work item is one Interface; items that are Bindings are not     *)
(* distinguished.                                                          *)
(***************************************************************************)
EXTENDS Naturals, FiniteSets

CONSTANTS
    Drainers,    \* invocations of drain and drainIntent
    None,        \* an absent token
    TotalItems,  \* work items of a declaration
    ItemBudget,  \* maxItemsPerClaim
    MaxGen,      \* bound on the state generations committed
    MaxRuns,     \* bound on the lifecycle runs
    MaxRebinds,  \* bound on the changes of the InstallConfig
    MaxRetries,  \* bound on the operator's retries of dead letters
    MaxFaults    \* bound on crashes, lapsed leases, errors and deadlines

ASSUME IntentConstants ==
    /\ None \notin Drainers
    /\ {TotalItems, ItemBudget, MaxGen} \subseteq Nat \ {0}
    /\ {MaxRuns, MaxRebinds, MaxRetries, MaxFaults} \subseteq Nat

VARIABLES
    capsule,   \* lineage of the Capsule and its runtime safety
    intent,    \* the intent row of each generation
    iface,     \* the Interface row of each work item
    lease,     \* holder of the Capsule lease
    drainer,   \* what each drainer remembers
    run,       \* the lifecycle run in progress and its observer
    broken,    \* generations whose lineage was ever not the current one
    verified,  \* items seen Resolved, of each generation
    missed,    \* whether an observer was ever lost
    count      \* runs, rebinds, retries and faults so far

vars == <<capsule, intent, iface, lease, drainer, run, broken, verified,
          missed, count>>

Items == 1 .. TotalItems
Generations == 1 .. MaxGen

-----------------------------------------------------------------------------
Capsule ==
    [gen: 0 .. MaxGen, config: {"A", "B"}, alive: BOOLEAN,
     safety: {"safe", "terminating", "unknown", "retired"}]

Intent ==
    [status: {"absent", "pending", "completed", "dead_letter"},
     next: 0 .. TotalItems, token: Drainers \cup {None}, live: BOOLEAN,
     due: BOOLEAN, config: {"A", "B"},
     receipt: {"none", "materialized", "retired", "superseded", "dead",
               "refused"}]

Absent == [status |-> "absent", next |-> 0, token |-> None, live |-> FALSE,
           due |-> FALSE, config |-> "A", receipt |-> "none"]

(* Unsafe is phase Unknown with the reason RunLedgerUnsafe, Unknown with   *)
(* any other reason; NotReady has the reason CapsuleRetired.  gen is the   *)
(* generation whose Output a Resolved row was resolved from.               *)
Row ==
    [phase: {"absent", "Pending", "Resolved", "Terminating", "Unknown",
             "Unsafe", "NotReady", "Retired"},
     gen: 0 .. MaxGen]

Phase(p) == [phase |-> p, gen |-> 0]

(* refused is the dead letter of a create that the fence turned down.      *)
Outcomes == {"none", "materialized", "retry", "dead", "refused", "deadline",
             "retired", "superseded"}

Drainer ==
    [pc: {"idle", "read", "acquire", "reread", "fence", "renew", "lineage",
          "target", "create", "resolve", "settle", "release"},
     gen: 0 .. MaxGen, cur: 0 .. TotalItems, done: 0 .. ItemBudget,
     then: {"target", "create", "resolve", "settle"}, out: Outcomes,
     row: Row, new: Row]

Idle == [pc |-> "idle", gen |-> 0, cur |-> 0, done |-> 0, then |-> "target",
         out |-> "none", row |-> Phase("absent"), new |-> Phase("absent")]

Run ==
    [op: {"none", "apply", "destroy", "restore"},
     pc: {"idle", "queued", "running", "list", "observe"},
     mark: {"none", "Terminating", "Unknown", "Retired", "reconcile"},
     left: SUBSET Items, then: {"queued", "running", "idle"},
     prior: {"safe", "unknown"}]

NoRun == [op |-> "none", pc |-> "idle", mark |-> "none", left |-> {},
          then |-> "idle", prior |-> "safe"]

Init ==
    /\ capsule = [gen |-> 0, config |-> "A", alive |-> TRUE, safety |-> "safe"]
    /\ intent = [g \in Generations |-> Absent]
    /\ iface = [k \in Items |-> Phase("absent")]
    /\ lease = None
    /\ drainer = [d \in Drainers |-> Idle]
    /\ run = NoRun
    /\ broken = {}
    /\ verified = [g \in Generations |-> {}]
    /\ missed = FALSE
    /\ count = [runs |-> 0, rebinds |-> 0, retries |-> 0, faults |-> 0]

-----------------------------------------------------------------------------
(* lineageDisposition of the intent of generation g for a Capsule c.       *)
Disposition(g, c) ==
    CASE ~c.alive -> "retired"
      [] c.alive /\ (c.config # intent[g].config \/ c.gen # g) -> "superseded"
      [] OTHER -> "none"

(* What a reconcile resolves a row to, the lifecycle guard first.          *)
Resolution ==
    CASE capsule.safety = "terminating" -> Phase("Terminating")
      [] capsule.safety = "unknown" -> Phase("Unsafe")
      [] capsule.safety = "retired" \/ ~capsule.alive -> Phase("NotReady")
      [] OTHER -> [phase |-> "Resolved", gen |-> capsule.gen]

(* Mutant of Result: a row held back by the run ledger counts as done.     *)
ResultTrustsUnsafe(row) ==
    CASE row.phase \in {"Resolved", "Unsafe"} -> "materialized"
      [] row.phase = "Terminating" -> "retry"
      [] OTHER -> "dead"

(* The result materializeItem reports for the row it ends with.            *)
Result(row) ==
    CASE row.phase = "Resolved" -> "materialized"
      [] row.phase \in {"Terminating", "Unsafe"} -> "retry"
      [] OTHER -> "dead"

(* Remembers that an item was seen resolved from the claim's generation.   *)
Verify(s, row) ==
    IF row = [phase |-> "Resolved", gen |-> s.gen]
      THEN [verified EXCEPT ![s.gen] = @ \cup {s.cur + 1}]
      ELSE verified

(* The lease and cursor condition of renew and settle, and of the fence.   *)
Claimed(d) ==
    LET g == drainer[d].gen
    IN  /\ intent[g].status = "pending"
        /\ intent[g].token = d
        /\ intent[g].live
        /\ intent[g].next = drainer[d].cur

(* Mutants of Authority: the lease alone, and the lineage alone.           *)
AuthorityOfLease(d) == Claimed(d)

AuthorityOfLineage(d) == Disposition(drainer[d].gen, capsule) = "none"

Authority(d) == Claimed(d) /\ Disposition(drainer[d].gen, capsule) = "none"

Become(d, new) == drainer' = [drainer EXCEPT ![d] = new]

Fence(d, new) == Become(d, [new EXCEPT !.pc = "fence"])

Fault == /\ count.faults < MaxFaults
         /\ count' = [count EXCEPT !.faults = @ + 1]

-----------------------------------------------------------------------------
(* The drainers.                                                           *)

(* Mutant of Claim: an expired lease is not taken over.                    *)
ClaimUnowned(d) ==
    /\ drainer[d].pc = "idle"
    /\ \E g \in Generations :
         /\ intent[g].status = "pending"
         /\ intent[g].due
         /\ intent[g].token = None
         /\ intent' = [intent EXCEPT ![g].token = d, ![g].live = TRUE]
         /\ Become(d, [Idle EXCEPT !.pc = "read", !.gen = g,
                                   !.cur = intent[g].next])
    /\ UNCHANGED <<capsule, iface, lease, run, broken, verified, missed, count>>

(* claimCapsuleInterfaceMaterializationIntent: a pending row that is due   *)
(* and whose lease is absent or expired.                                   *)
Claim(d) ==
    /\ drainer[d].pc = "idle"
    /\ \E g \in Generations :
         /\ intent[g].status = "pending"
         /\ intent[g].due
         /\ ~intent[g].live
         /\ intent' = [intent EXCEPT ![g].token = d, ![g].live = TRUE]
         /\ Become(d, [Idle EXCEPT !.pc = "read", !.gen = g,
                                   !.cur = intent[g].next])
    /\ UNCHANGED <<capsule, iface, lease, run, broken, verified, missed, count>>

(* Both reads of the Capsule: before the Capsule lease and under it.       *)
ReadLineage(d) ==
    LET s == drainer[d]
        disposition == Disposition(s.gen, capsule)
    IN  /\ s.pc \in {"read", "reread"}
        /\ \/ /\ disposition # "none"
              /\ Become(d, [s EXCEPT !.pc = "settle", !.out = disposition])
           \/ /\ disposition = "none" /\ s.pc = "read"
              /\ Become(d, [s EXCEPT !.pc = "acquire"])
           \/ /\ disposition = "none" /\ s.pc = "reread"
              /\ Fence(d, [s EXCEPT !.then = "target"])
        /\ UNCHANGED <<capsule, intent, iface, lease, run, broken, verified,
                       missed, count>>

(* withCapsuleLease: one attempt, and a busy lease is a retry.             *)
Acquire(d) ==
    /\ drainer[d].pc = "acquire"
    /\ \/ /\ lease = None
          /\ lease' = d
          /\ Become(d, [drainer[d] EXCEPT !.pc = "reread"])
       \/ /\ lease # None
          /\ UNCHANGED lease
          /\ Become(d, [drainer[d] EXCEPT !.pc = "settle", !.out = "retry"])
    /\ UNCHANGED <<capsule, intent, iface, run, broken, verified, missed, count>>

(* Mutant of AssertCurrent: the lineage is not read again.                 *)
AssertLeases(d) ==
    LET s == drainer[d]
        Pass(ok, pc) == IF ok THEN [s EXCEPT !.pc = pc]
                        ELSE [s EXCEPT !.pc = "release", !.out = "none"]
    IN  /\ \/ s.pc = "fence" /\ Become(d, Pass(lease = d, "renew"))
           \/ s.pc = "renew" /\ Become(d, Pass(Claimed(d), s.then))
        /\ UNCHANGED <<capsule, intent, iface, lease, run, broken, verified,
                       missed, count>>

(* assertCurrent: renew the Capsule lease, renew the intent's lease at the *)
(* cursor, read the lineage.  A claimant that lost one writes nothing.     *)
AssertCurrent(d) ==
    LET s == drainer[d]
        Pass(ok, pc) == IF ok THEN [s EXCEPT !.pc = pc]
                        ELSE [s EXCEPT !.pc = "release", !.out = "none"]
    IN  /\ \/ s.pc = "fence" /\ Become(d, Pass(lease = d, "renew"))
           \/ s.pc = "renew" /\ Become(d, Pass(Claimed(d), "lineage"))
           \/ /\ s.pc = "lineage"
              /\ Become(d, Pass(Disposition(s.gen, capsule) = "none", s.then))
        /\ UNCHANGED <<capsule, intent, iface, lease, run, broken, verified,
                       missed, count>>

(* assertCurrent past the time budget: the lease is given back first, and  *)
(* the row is then settled for a retry.                                    *)
Deadline(d) ==
    /\ drainer[d].pc \in {"fence", "renew", "lineage"}
    /\ Fault
    /\ Become(d, [drainer[d] EXCEPT !.pc = "release", !.out = "deadline"])
    /\ UNCHANGED <<capsule, intent, iface, lease, run, broken, verified, missed>>

(* materializeItem reads the row of its item: a missing one is created, an *)
(* Unknown or Terminating one is left alone, any other is reconciled with  *)
(* what the Capsule publishes.                                             *)
Target(d) ==
    LET s == drainer[d]
        row == iface[s.cur + 1]
        settled == row.phase \in {"Terminating", "Unknown", "Unsafe", "Retired"}
    IN  /\ s.pc = "target"
        /\ \/ /\ row.phase = "absent"
              /\ Fence(d, [s EXCEPT !.then = "create"])
           \/ /\ settled \/ row = Resolution
              /\ row.phase # "absent"
              /\ Fence(d, [s EXCEPT !.then = "settle", !.out = Result(row)])
           \/ /\ ~settled /\ row.phase # "absent" /\ row # Resolution
              /\ Fence(d, [s EXCEPT !.then = "resolve", !.row = row,
                                    !.new = Resolution])
        /\ verified' = Verify(s, row)
        /\ UNCHANGED <<capsule, intent, iface, lease, run, broken, missed, count>>

(* The fenced insert.  A row already there is taken over; a refusal reads  *)
(* back no row and is reported as a declaration conflict.                  *)
Create(d) ==
    LET s == drainer[d]
        k == s.cur + 1
    IN  /\ s.pc = "create"
        /\ \/ /\ Authority(d) /\ iface[k].phase = "absent"
              /\ iface' = [iface EXCEPT ![k] = Phase("Pending")]
              /\ Become(d, [s EXCEPT !.pc = "target"])
           \/ /\ iface[k].phase # "absent"
              /\ UNCHANGED iface
              /\ Become(d, [s EXCEPT !.pc = "target"])
           \/ /\ ~Authority(d) /\ iface[k].phase = "absent"
              /\ UNCHANGED iface
              /\ Fence(d, [s EXCEPT !.then = "settle", !.out = "refused"])
        /\ UNCHANGED <<capsule, intent, lease, run, broken, verified, missed,
                       count>>

(* The fenced compare-and-set of a reconcile, read again after a loss and  *)
(* given up with a conflict after a number of losses.                      *)
Resolve(d) ==
    LET s == drainer[d]
        k == s.cur + 1
        wins == Authority(d) /\ iface[k] = s.row
        over == [s EXCEPT !.row = Phase("absent"), !.new = Phase("absent")]
    IN  /\ s.pc = "resolve"
        /\ \/ /\ wins
              /\ iface' = [iface EXCEPT ![k] = s.new]
              /\ verified' = Verify(s, s.new)
              /\ Fence(d, [over EXCEPT !.then = "settle", !.out = Result(s.new)])
           \/ /\ ~wins
              /\ UNCHANGED <<iface, verified>>
              /\ \/ Become(d, [over EXCEPT !.pc = "target"])
                 \/ Fence(d, [over EXCEPT !.then = "settle", !.out = "retry"])
        /\ UNCHANGED <<capsule, intent, lease, run, broken, missed, count>>

(* An error of the store or of the target is settled for a retry, by the   *)
(* target's caller after one more look at the fence.                       *)
StoreFails(d) ==
    LET s == drainer[d]
    IN  /\ Fault
        /\ \/ /\ s.pc \in {"read", "acquire"}
              /\ Become(d, [s EXCEPT !.pc = "settle", !.out = "retry"])
           \/ /\ s.pc = "reread"
              /\ Become(d, [s EXCEPT !.pc = "release", !.out = "deadline"])
           \/ /\ s.pc \in {"target", "create", "resolve"}
              /\ Fence(d, [s EXCEPT !.then = "settle", !.out = "retry"])
        /\ UNCHANGED <<capsule, intent, iface, lease, run, broken, verified,
                       missed>>

(* settleCapsuleInterfaceMaterializationIntent for the outcomes that end a *)
(* claim.                                                                  *)
Ended(old, out) ==
    LET free == [old EXCEPT !.token = None, !.live = FALSE]
    IN  CASE out = "materialized" ->
               [free EXCEPT !.status = "completed", !.receipt = out,
                            !.next = TotalItems]
          [] out \in {"retired", "superseded"} ->
               [free EXCEPT !.status = "completed", !.receipt = out]
          [] out \in {"retry", "deadline"} -> [free EXCEPT !.due = FALSE]
          [] out \in {"dead", "refused"} ->
               [free EXCEPT !.status = "dead_letter", !.receipt = out]

(* After an item the claim goes on with the next, or is given back when    *)
(* the item budget or the time budget (a fault here) is used up.           *)
Settle(d) ==
    LET s == drainer[d]
        g == s.gen
        last == s.out # "materialized" \/ s.cur + 1 = TotalItems
        after == IF s.out = "deadline" THEN Idle
                 ELSE [s EXCEPT !.pc = "release", !.out = "none"]
        step == [intent[g] EXCEPT !.next = s.cur + 1]
    IN  /\ s.pc = "settle"
        /\ \/ /\ ~Claimed(d)
              /\ Become(d, after)
              /\ UNCHANGED <<intent, count>>
           \/ /\ Claimed(d) /\ last
              /\ intent' = [intent EXCEPT ![g] = Ended(@, s.out)]
              /\ Become(d, after)
              /\ UNCHANGED count
           \/ /\ Claimed(d) /\ ~last /\ s.done + 1 < ItemBudget
              /\ intent' = [intent EXCEPT ![g] = step]
              /\ Fence(d, [s EXCEPT !.cur = @ + 1, !.done = @ + 1,
                                    !.then = "target", !.out = "none"])
              /\ UNCHANGED count
           \/ /\ Claimed(d) /\ ~last
              /\ IF s.done + 1 < ItemBudget THEN Fault ELSE UNCHANGED count
              /\ intent' = [intent EXCEPT ![g] =
                              [step EXCEPT !.token = None, !.live = FALSE]]
              /\ Become(d, after)
        /\ UNCHANGED <<capsule, iface, lease, run, broken, verified, missed>>

(* The finally of withCapsuleLease: releases only what is still held.      *)
Release(d) ==
    LET s == drainer[d]
    IN  /\ s.pc = "release"
        /\ lease' = IF lease = d THEN None ELSE lease
        /\ Become(d, IF s.out = "deadline" THEN [s EXCEPT !.pc = "settle"] ELSE Idle)
        /\ UNCHANGED <<capsule, intent, iface, run, broken, verified, missed,
                       count>>

Crash(d) ==
    /\ drainer[d].pc # "idle"
    /\ Fault
    /\ Become(d, Idle)
    /\ UNCHANGED <<capsule, intent, iface, lease, run, broken, verified, missed>>

-----------------------------------------------------------------------------
(* Time.                                                                   *)

Works(d, g) == d # None /\ drainer[d].pc # "idle" /\ drainer[d].gen = g

(* A live claimant's lease lapses only when it stalls.                     *)
IntentLeaseExpires(g) ==
    /\ intent[g].live
    /\ IF Works(intent[g].token, g) THEN Fault ELSE UNCHANGED count
    /\ intent' = [intent EXCEPT ![g].live = FALSE]
    /\ UNCHANGED <<capsule, iface, lease, drainer, run, broken, verified, missed>>

InLease(d) == drainer[d].pc \notin {"idle", "read", "acquire"}

CapsuleLeaseExpires ==
    /\ lease # None
    /\ IF lease \in Drainers /\ ~InLease(lease) THEN UNCHANGED count ELSE Fault
    /\ lease' = None
    /\ UNCHANGED <<capsule, intent, iface, drainer, run, broken, verified, missed>>

BackoffElapses(g) ==
    /\ intent[g].status = "pending" /\ ~intent[g].due
    /\ intent' = [intent EXCEPT ![g].due = TRUE]
    /\ UNCHANGED <<capsule, iface, lease, drainer, run, broken, verified, missed,
                   count>>

-----------------------------------------------------------------------------
(* The Capsule's lifecycle: its runs, their observers and the operator.    *)

(* Mutant of Superseded: the claimant keeps its lease.                     *)
SupersededLeased(old) ==
    [old EXCEPT !.status = "completed", !.receipt = "superseded"]

Superseded(old) ==
    [old EXCEPT !.status = "completed", !.receipt = "superseded",
                !.token = None, !.live = FALSE]

(* Generations whose intent a new Capsule row no longer matches.           *)
Broken(c) == broken \cup {g \in Generations : /\ intent[g].status # "absent"
                                              /\ Disposition(g, c) # "none"}

(* A queued destroy makes the runtime unsafe and marks the Interfaces      *)
(* before it has the lease; a restore does so once it runs.                *)
StartRun(op) ==
    /\ run.pc = "idle"
    /\ capsule.alive
    /\ count.runs < MaxRuns
    /\ count' = [count EXCEPT !.runs = @ + 1]
    /\ LET prior == IF capsule.safety = "safe" THEN "safe" ELSE "unknown"
           queued == [NoRun EXCEPT !.op = op, !.pc = "queued", !.prior = prior]
       IN  IF op = "destroy"
             THEN /\ capsule' = [capsule EXCEPT !.safety = "terminating"]
                  /\ run' = [queued EXCEPT !.pc = "list", !.mark = "Terminating",
                                           !.then = "queued"]
             ELSE /\ capsule' = [capsule EXCEPT !.safety =
                                   IF op = "restore" THEN "unknown" ELSE @]
                  /\ run' = queued
    /\ UNCHANGED <<intent, iface, lease, drainer, broken, verified, missed>>

AcquireRun ==
    /\ run.pc = "queued"
    /\ lease = None
    /\ lease' = "run"
    /\ run' = IF run.op = "restore"
                THEN [run EXCEPT !.pc = "list", !.mark = "Unknown",
                                 !.then = "running"]
                ELSE [run EXCEPT !.pc = "running"]
    /\ UNCHANGED <<capsule, intent, iface, drainer, broken, verified, missed,
                   count>>

Observe(mark) ==
    run' = [run EXCEPT !.pc = "list", !.mark = mark, !.then = "idle"]

(* commitRunState of a succeeded apply, with its intent in the same unit.  *)
CommitApply ==
    LET g == capsule.gen + 1
        c == [capsule EXCEPT !.gen = g, !.safety = "safe"]
    IN  /\ run.op = "apply" /\ run.pc = "running"
        /\ g \in Generations
        /\ capsule' = c
        /\ intent' = [intent EXCEPT ![g] =
                        [Absent EXCEPT !.status = "pending", !.due = TRUE,
                                       !.config = capsule.config]]
        /\ broken' = Broken(c)
        /\ lease' = IF lease = "run" THEN None ELSE lease
        /\ run' = NoRun
        /\ UNCHANGED <<iface, drainer, verified, missed, count>>

(* commitRestoredState: with the intent of the generation restored from as *)
(* its source, pending intents are superseded and a replacement is added;  *)
(* a state that never had one is restored without.                         *)
CommitRestore(source) ==
    LET g == capsule.gen + 1
        c == [capsule EXCEPT !.gen = g, !.safety = "safe"]
        had == /\ intent[source].status # "absent"
               /\ intent[source].config = capsule.config
        copy == [Absent EXCEPT !.status = "pending", !.due = TRUE,
                               !.config = capsule.config]
    IN  /\ run.op = "restore" /\ run.pc = "running"
        /\ g \in Generations /\ source < g
        /\ capsule' = c
        /\ intent' = IF ~had THEN intent
                     ELSE [h \in Generations |->
                             CASE h = g -> copy
                               [] intent[h].status = "pending" -> Superseded(intent[h])
                               [] OTHER -> intent[h]]
        /\ broken' = Broken(c)
        /\ Observe("reconcile")
        /\ UNCHANGED <<iface, lease, drainer, verified, missed, count>>

CommitDestroy ==
    LET c == [capsule EXCEPT !.alive = FALSE, !.safety = "retired"]
    IN  /\ run.op = "destroy" /\ run.pc = "running"
        /\ capsule' = c
        /\ broken' = Broken(c)
        /\ Observe("Retired")
        /\ UNCHANGED <<intent, iface, lease, drainer, verified, missed, count>>

(* A failure after the provider was dispatched, with or without a state    *)
(* that could be committed.                                                *)
FailRun(withState) ==
    LET c == [capsule EXCEPT !.gen = IF withState THEN @ + 1 ELSE @,
                             !.safety = "unknown"]
    IN  /\ run.pc = "running"
        /\ withState => run.op # "restore" /\ capsule.gen < MaxGen
        /\ capsule' = c
        /\ broken' = Broken(c)
        /\ Observe("Unknown")
        /\ UNCHANGED <<intent, iface, lease, drainer, verified, missed, count>>

(* A destroy that was cancelled while queued, or that failed before any    *)
(* mutation, gives the runtime back as it was.                             *)
AbandonDestroy ==
    /\ run.op = "destroy" /\ run.pc \in {"queued", "running"}
    /\ capsule' = [capsule EXCEPT !.safety = run.prior]
    /\ Observe("reconcile")
    /\ UNCHANGED <<intent, iface, lease, drainer, broken, verified, missed,
                   count>>

(* An apply that was cancelled or failed before any mutation: its observer *)
(* has nothing to do.                                                      *)
AbandonApply ==
    /\ run.op = "apply" /\ run.pc \in {"queued", "running"}
    /\ run' = NoRun
    /\ lease' = IF lease = "run" THEN None ELSE lease
    /\ UNCHANGED <<capsule, intent, iface, drainer, broken, verified, missed,
                   count>>

(* The observers list the rows once and then take them one by one.         *)
ListRows ==
    /\ run.pc = "list"
    /\ run' = [run EXCEPT !.pc = "observe",
                 !.left = {k \in Items : iface[k].phase \notin {"absent", "Retired"}}]
    /\ UNCHANGED <<capsule, intent, iface, lease, drainer, broken, verified,
                   missed, count>>

ObserveRow(k) ==
    /\ run.pc = "observe"
    /\ k \in run.left
    /\ run' = [run EXCEPT !.left = @ \ {k}]
    /\ iface' = [iface EXCEPT ![k] = IF run.mark = "reconcile" THEN Resolution
                                     ELSE Phase(run.mark)]
    /\ UNCHANGED <<capsule, intent, lease, drainer, broken, verified, missed,
                   count>>

(* An observer's error is logged and dropped.                              *)
EndObserver ==
    /\ run.pc \in {"list", "observe"}
    /\ \/ /\ run.pc = "observe" /\ run.left = {}
          /\ UNCHANGED <<missed, count>>
       \/ Fault /\ missed' = TRUE
    /\ run' = IF run.then = "idle" THEN NoRun
              ELSE [run EXCEPT !.pc = run.then, !.mark = "none", !.left = {}]
    /\ lease' = IF run.then = "idle" /\ lease = "run" THEN None ELSE lease
    /\ UNCHANGED <<capsule, intent, iface, drainer, broken, verified>>

(* The InstallConfig re-adoption retires every unresolved obligation in    *)
(* the commit that changes the lineage; a run in flight or an unsafe       *)
(* runtime keeps it out, an observer of a run that has ended does not.     *)
(* Before its list and after its last row the observer's steps and this    *)
(* one commute.                                                            *)
Rebind ==
    LET c == [capsule EXCEPT !.config = IF @ = "A" THEN "B" ELSE "A"]
    IN  /\ run.pc = "idle" \/ (run.left # {} /\ run.then = "idle")
        /\ capsule.alive /\ capsule.safety = "safe"
        /\ count.rebinds < MaxRebinds
        /\ count' = [count EXCEPT !.rebinds = @ + 1]
        /\ capsule' = c
        /\ intent' = [g \in Generations |->
                        IF intent[g].status \in {"pending", "dead_letter"}
                          THEN Superseded(intent[g]) ELSE intent[g]]
        /\ broken' = Broken(c)
        /\ UNCHANGED <<iface, lease, drainer, run, verified, missed>>

(* Mutant of RetryDeadLetter: whatever became of its lineage.              *)
RetryAnyDeadLetter(g) ==
    /\ intent[g].status = "dead_letter"
    /\ count.retries < MaxRetries
    /\ count' = [count EXCEPT !.retries = @ + 1]
    /\ intent' = [intent EXCEPT ![g].status = "pending", ![g].due = TRUE,
                                ![g].receipt = "none"]
    /\ UNCHANGED <<capsule, iface, lease, drainer, run, broken, verified, missed>>

(* retryCapsuleInterfaceMaterializationIntent: a dead letter of the        *)
(* current lineage is pending again, at its cursor.                        *)
RetryDeadLetter(g) ==
    /\ intent[g].status = "dead_letter"
    /\ Disposition(g, capsule) = "none"
    /\ count.retries < MaxRetries
    /\ count' = [count EXCEPT !.retries = @ + 1]
    /\ intent' = [intent EXCEPT ![g].status = "pending", ![g].due = TRUE,
                                ![g].receipt = "none"]
    /\ UNCHANGED <<capsule, iface, lease, drainer, run, broken, verified, missed>>

-----------------------------------------------------------------------------
Drain(d) ==
    \/ Claim(d) \/ ReadLineage(d) \/ Acquire(d) \/ AssertCurrent(d)
    \/ Target(d) \/ Create(d) \/ Resolve(d) \/ Settle(d) \/ Release(d)

Advance ==
    \/ AcquireRun \/ CommitApply \/ CommitDestroy
    \/ AbandonDestroy \/ AbandonApply
    \/ \E g \in Generations : CommitRestore(g)
    \/ \E b \in BOOLEAN : FailRun(b)
    \/ ListRows \/ EndObserver
    \/ \E k \in Items : ObserveRow(k)

Next ==
    \/ \E d \in Drainers : Drain(d) \/ Deadline(d) \/ StoreFails(d) \/ Crash(d)
    \/ \E g \in Generations :
         IntentLeaseExpires(g) \/ BackoffElapses(g) \/ RetryDeadLetter(g)
    \/ CapsuleLeaseExpires
    \/ \E op \in {"apply", "destroy", "restore"} : StartRun(op)
    \/ Advance
    \/ Rebind

Spec == Init /\ [][Next]_vars

(* The scheduled drain runs again and again, an admitted run proceeds, and *)
(* time passes.                                                            *)
FairSpec ==
    /\ Spec
    /\ \A d \in Drainers : WF_vars(Drain(d))
    /\ \A g \in Generations :
         /\ WF_vars(~Works(intent[g].token, g) /\ IntentLeaseExpires(g))
         /\ WF_vars(BackoffElapses(g))
    /\ WF_vars(lease \in Drainers /\ ~InLease(lease) /\ CapsuleLeaseExpires)
    /\ WF_vars(Advance)

-----------------------------------------------------------------------------
(* The state of the intents, the rows, the leases and the processes has    *)
(* its type, and a lease is live only while its row is pending and owned.  *)
TypeOK ==
    /\ capsule \in Capsule
    /\ intent \in [Generations -> Intent]
    /\ iface \in [Items -> Row]
    /\ lease \in Drainers \cup {None, "run"}
    /\ drainer \in [Drainers -> Drainer]
    /\ run \in Run
    /\ broken \subseteq Generations
    /\ verified \in [Generations -> SUBSET Items]
    /\ missed \in BOOLEAN
    /\ count \in [runs: 0 .. MaxRuns, rebinds: 0 .. MaxRebinds,
                   retries: 0 .. MaxRetries, faults: 0 .. MaxFaults]
    /\ \A g \in Generations :
         intent[g].live => intent[g].status = "pending" /\ intent[g].token # None

(* The cursor and the receipt tell the truth: every item the cursor of an  *)
(* intent passed was seen Resolved from the Output of that very            *)
(* generation, whoever held the claim, and a materialized receipt means    *)
(* all of them were.                                                       *)
CursorIsTrue ==
    \A g \in Generations :
        /\ 1 .. intent[g].next \subseteq verified[g]
        /\ intent[g].receipt = "materialized" => verified[g] = Items

(* An obligation only advances: no late claimant moves a cursor back, a    *)
(* completed intent stays as it is, and a dead letter is reopened only for *)
(* the lineage the Capsule still has.                                      *)
ObligationAdvances ==
    [][\A g \in Generations :
         /\ intent'[g].next >= intent[g].next
         /\ intent[g].status = "completed" => intent'[g] = intent[g]
         /\ intent[g].status = "dead_letter" /\ intent'[g].status = "pending" =>
              g \notin broken']_vars

(* The write fence: whatever leases lapsed, a drainer writes an Interface  *)
(* row only for a lineage that never ceased to be the Capsule's, and what  *)
(* it resolves comes from the Output that is current at the write.         *)
WritesAreCurrent ==
    [][\A d \in Drainers :
         drainer'[d] # drainer[d] /\ iface' # iface =>
           /\ drainer[d].gen \notin broken
           /\ iface'[drainer[d].cur + 1].gen \in {0, capsule.gen}]_vars

(* No Interface outlives its Capsule: once a destroy is over, unless its   *)
(* observer was lost, every row is retired and no drainer adds another.    *)
NothingAfterDestroy ==
    ~capsule.alive /\ run.pc = "idle" /\ ~missed =>
        \A k \in Items : iface[k].phase \in {"absent", "Retired"}

(* A create that the fence refused is never recorded as a conflict of the  *)
(* declaration: the claimant finds out first that it lost its authority.   *)
DeadLetterIsHonest == \A g \in Generations : intent[g].receipt # "refused"

(* Once the lifecycle rests, every obligation is settled although          *)
(* claimants crash, stall and lose leases, unless its next Interface is    *)
(* held back (Terminating, or Unknown for an unsafe run ledger).           *)
IntentSettles ==
    <>[](\A g \in Generations :
           \/ intent[g].status # "pending"
           \/ iface[intent[g].next + 1].phase \in {"Terminating", "Unsafe"})
=============================================================================
