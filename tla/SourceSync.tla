----------------------------- MODULE SourceSync -----------------------------
(***************************************************************************)
(* The lifecycle of one Source that an app owns: SourceSyncRuns and their  *)
(* consumers, the archives they put under the stored-service custody of a  *)
(* host, the settlement that commits a snapshot and marks the Capsule      *)
(* stale, the cleanup of archives nothing names, and the resumable         *)
(* retirement that deletes the archives and then the rows.                 *)
(*                                                                         *)
(* A run allocates its own snapshot id and archive key, so its id stands   *)
(* for all three.  A consumer holds one claim at a time: its id stands for *)
(* the lease token.  The Source has one lane (url, ref, path), and an      *)
(* archive's bytes are the commit they were made of.  A row that was       *)
(* rewritten with the same content counts as unchanged: the conflict that  *)
(* its new time would raise is one of the errors of Throw.  The Workspace  *)
(* is active throughout.                                                   *)
(***************************************************************************)
EXTENDS Integers, FiniteSets

CONSTANTS
    Runs,      \* SourceSyncRun ids
    Workers,   \* consumer invocations
    Retirers,  \* callers of retireOwnedSource: the daily sweep, a DELETE
    Commits,   \* commits the ref may resolve to
    None,      \* an absent id
    MaxFaults  \* bound on crashes, stalls and other runs of the Capsule

ASSUME SourceConstants ==
    /\ None \notin Runs
    /\ None \notin Workers
    /\ None \notin Commits
    /\ MaxFaults \in Nat

VARIABLES
    source,     \* the stored Source
    capsule,    \* the owner Capsule: its status and adopted snapshot
    run,        \* the stored SourceSyncRuns with their lease column
    snapshot,   \* the stored SourceSnapshots: at most one for an id
    latest,     \* what a query for the last fetched snapshot of the lane answers
    others,     \* other runs of the Capsule in flight while the Source retires
    archive,    \* the object under a key: the commit it was made of
    custody,    \* the pending custody intent of a key
    late,       \* history: keys whose put landed after their run was over
    worker,     \* what each consumer remembers
    retirer,    \* what each retirement in progress remembers
    faults      \* faults so far

ledger == <<source, capsule, snapshot, latest, others>>
objects == <<archive, custody, late>>

vars == <<source, capsule, run, snapshot, latest, others, archive, custody,
          late, worker, retirer, faults>>

-----------------------------------------------------------------------------
NoCount == [snapshots |-> 0, runs |-> 0]

SourceRow ==
    [status: {"active", "retiring", "gone"}, seen: Commits \cup {None},
     counted: [snapshots: Nat, runs: Nat]]

CapsuleRow ==
    [status: {"pending", "active", "stale", "destroyed"}, adopted: Runs \cup {None}]

RunRow ==
    [status: {"none", "queued", "running", "succeeded", "failed"},
     lease: Workers \cup {None}, snapshot: Runs \cup {None}]

SnapshotRow == [commit: Commits, ref: Runs]

NoIntent == [state |-> "none", commit |-> None]

Intent ==
    [state: {"none", "prepared", "sent", "landed", "delete"}, commit: Commits \cup {None}]

(* What observeSourceSyncSettlement read before the commit.                *)
Observation ==
    [latest: Runs \cup {None}, reuse: BOOLEAN, source: SourceRow, capsule: CapsuleRow]

WorkerState ==
    [pc: {"idle", "claimed", "dispatched", "prepare", "prepared", "sent", "observe",
          "commit", "fail", "cleanup", "unlink"},
     run: Runs \cup {None}, commit: Commits \cup {None}, ref: Runs \cup {None},
     reuse: SUBSET SnapshotRow, seen: SUBSET Observation, retried: BOOLEAN]

Idle == [pc |-> "idle", run |-> None, commit |-> None, ref |-> None, reuse |-> {},
         seen |-> {}, retried |-> FALSE]

RetirerState ==
    [pc: {"idle", "check", "count", "delete"}, row: SUBSET SourceRow,
     todo: SUBSET Runs]

AtRest == [pc |-> "idle", row |-> {}, todo |-> {}]

Stored == {r \in Runs : run[r].status # "none"}
InFlight == {r \in Runs : run[r].status \in {"queued", "running"}}

(* hasInFlightSourceRunSync counts every run in flight that names the      *)
(* Source or whose Capsule does.                                           *)
Busy == InFlight # {} \/ others > 0

Snapshots == {s \in Runs : snapshot[s] # {}}
Row(s) == CHOOSE row \in snapshot[s] : TRUE

Fault == faults < MaxFaults /\ faults' = faults + 1

Go(w, pc) == worker' = [worker EXCEPT ![w].pc = pc]
Return(w) == worker' = [worker EXCEPT ![w] = Idle]

(* All that a consumer still needs for its next step is its run.           *)
OnlyRun(w, pc) == [worker EXCEPT ![w] = [Idle EXCEPT !.pc = pc, !.run = worker[w].run]]

-----------------------------------------------------------------------------
Init ==
    /\ source = [status |-> "active", seen |-> None, counted |-> NoCount]
    /\ capsule = [status |-> "pending", adopted |-> None]
    /\ run = [r \in Runs |-> [status |-> "none", lease |-> None, snapshot |-> None]]
    /\ snapshot = [s \in Runs |-> {}]
    /\ latest = None
    /\ others = 0
    /\ archive = [r \in Runs |-> None]
    /\ custody = [r \in Runs |-> NoIntent]
    /\ late = {}
    /\ worker = [w \in Workers |-> Idle]
    /\ retirer = [t \in Retirers |-> AtRest]
    /\ faults = 0

-----------------------------------------------------------------------------
(* The control API and the Capsule.                                        *)

(* newId: one that no row has.                                             *)
NewId == CHOOSE r \in Runs \ Stored : TRUE

(* createSync: beginSourceSyncRun repeats every check in the transaction   *)
(* that inserts the row.  It asks for the Capsule's ownership, not for its *)
(* status.                                                                 *)
BeginSync(r) ==
    /\ source.status = "active"
    /\ Stored # Runs /\ r = NewId
    /\ run' = [run EXCEPT ![r].status = "queued"]
    /\ UNCHANGED <<ledger, objects, worker, retirer, faults>>

(* The owner of a running row is alive.                                    *)
OwnerAlive(r) == \E w \in Workers : run[r].lease = w /\ worker[w].run = r

(* A heartbeat is stale when its owner died, or (a fault) stalled.         *)
Stale(r) ==
    /\ run[r].status = "running"
    /\ IF OwnerAlive(r) THEN Fault ELSE UNCHANGED faults

(* Mutant of Failed: the lease column is not cleared.                      *)
FailedLeased(r) == run' = [run EXCEPT ![r].status = "failed"]

Failed(r) ==
    run' = [run EXCEPT ![r] = [status |-> "failed", lease |-> None, snapshot |-> None]]

(* failStaleSyncRun, on the way of a createSync that began while the       *)
(* Source was active.                                                      *)
FailStaleSync(r) ==
    /\ Stale(r)
    /\ Failed(r)
    /\ UNCHANGED <<ledger, objects, worker, retirer>>

(* markRunFailed of the run owner; a sync cannot be cancelled.             *)
MarkRunFailed(r) ==
    /\ run[r].status = "queued"
    /\ Failed(r)
    /\ UNCHANGED <<ledger, objects, worker, retirer, faults>>

(* An apply of a plan that pinned the snapshot commits.                    *)
Adopt(s) ==
    /\ capsule.status # "destroyed"
    /\ s \in Snapshots
    /\ capsule' = [status |-> "active", adopted |-> s]
    /\ UNCHANGED <<source, snapshot, latest, others, run, objects, worker, retirer,
                   faults>>

(* A destroy apply commits, or a Capsule is abandoned before any apply.    *)
Destroy ==
    /\ capsule.status # "destroyed"
    /\ capsule' = [capsule EXCEPT !.status = "destroyed"]
    /\ UNCHANGED <<source, snapshot, latest, others, run, objects, worker, retirer,
                   faults>>

(* A plan, apply or restore of the Capsule begins, or was in flight when   *)
(* the Source was marked; nobody asks before.                              *)
OtherRunBegins ==
    /\ source.status = "retiring"
    /\ Fault
    /\ others' = others + 1
    /\ UNCHANGED <<source, capsule, snapshot, latest, run, objects, worker, retirer>>

OtherRunEnds ==
    /\ others > 0
    /\ others' = others - 1
    /\ UNCHANGED <<source, capsule, snapshot, latest, run, objects, worker, retirer,
                   faults>>

-----------------------------------------------------------------------------
(* A consumer: runQueuedSourceSync.                                        *)

(* The fence of every write of a claim.                                    *)
Owns(w) == run[worker[w].run].status = "running" /\ run[worker[w].run].lease = w

(* A delivery starts an invocation of its own.                             *)
NewInvocation(w) == w = CHOOSE v \in Workers : worker[v].pc = "idle"

(* Mutant of Claim: a running row is left to its owner.                    *)
ClaimQueued(w, r) ==
    /\ worker[w].pc = "idle" /\ NewInvocation(w)
    /\ run[r].status = "queued"
    /\ run' = [run EXCEPT ![r].status = "running", ![r].lease = w]
    /\ worker' = [worker EXCEPT ![w].pc = "claimed", ![w].run = r]
    /\ UNCHANGED <<ledger, objects, retirer, faults>>

(* The compare-and-set repeats the status and the heartbeat that were      *)
(* read, so the read and the claim are one step.                           *)
Claim(w, r) ==
    /\ worker[w].pc = "idle" /\ NewInvocation(w)
    /\ \/ run[r].status = "queued" /\ UNCHANGED faults
       \/ Stale(r)
    /\ run' = [run EXCEPT ![r].status = "running", ![r].lease = w]
    /\ worker' = [worker EXCEPT ![w].pc = "claimed", ![w].run = r]
    /\ UNCHANGED <<ledger, objects, retirer>>

(* The runner is offered the last snapshot of the lane.                    *)
Dispatch(w) ==
    /\ worker[w].pc = "claimed"
    /\ worker' = [worker EXCEPT ![w].pc = "dispatched",
                    ![w].reuse = IF latest = None THEN {} ELSE snapshot[latest]]
    /\ UNCHANGED <<ledger, run, objects, retirer, faults>>

(* It resolves a commit, and returns an archive of its own or the offered  *)
(* one, whose bytes the runner object verifies.                            *)
RunnerReturns(w) ==
    /\ worker[w].pc = "dispatched"
    /\ \E c \in Commits :
         \/ worker' = [worker EXCEPT ![w].pc = "prepare", ![w].commit = c, ![w].reuse = {},
                                     ![w].ref = worker[w].run]
         \/ \E row \in worker[w].reuse :
              /\ row.commit = c
              /\ custody[row.ref] = NoIntent
              /\ archive[row.ref] = c
              /\ worker' = [worker EXCEPT ![w].pc = "observe", ![w].commit = c,
                                          ![w].reuse = {}, ![w].ref = row.ref]
    /\ UNCHANGED <<ledger, run, objects, retirer, faults>>

(* The put of the archive: a custody intent, which another one excludes,   *)
(* under the lease the dispatch carried.                                   *)
PreparePut(w) ==
    /\ worker[w].pc = "prepare"
    /\ Owns(w)
    /\ custody[worker[w].run] = NoIntent
    /\ custody' = [custody EXCEPT ![worker[w].run] =
                     [state |-> "prepared", commit |-> worker[w].commit]]
    /\ Go(w, "prepared")
    /\ UNCHANGED <<ledger, run, archive, late, retirer, faults>>

(* The lease is compared again, then the object store is called.           *)
SendPut(w) ==
    /\ worker[w].pc = "prepared"
    /\ Owns(w)
    /\ custody' = [custody EXCEPT ![worker[w].run].state = "sent"]
    /\ Go(w, "sent")
    /\ UNCHANGED <<ledger, run, archive, late, retirer, faults>>

(* The object store writes, whatever became of the caller.                 *)
PutLands(r) ==
    /\ custody[r].state = "sent"
    /\ archive' = [archive EXCEPT ![r] = custody[r].commit]
    /\ custody' = [custody EXCEPT ![r].state = "landed"]
    /\ late' = IF r \in InFlight THEN late ELSE late \cup {r}
    /\ UNCHANGED <<ledger, run, worker, retirer, faults>>

(* The sender reads its object back and closes the intent.                 *)
ConfirmPut(w) ==
    /\ worker[w].pc = "sent"
    /\ custody[worker[w].run].state = "landed"
    /\ custody' = [custody EXCEPT ![worker[w].run] = NoIntent]
    /\ Go(w, "observe")
    /\ UNCHANGED <<ledger, run, archive, late, retirer, faults>>

(* Any refusal or error: credentials, runner, metadata, revision, custody. *)
(* An intent that was prepared stays pending.                              *)
Throw(w) ==
    /\ worker[w].pc \in {"claimed", "dispatched", "prepare", "prepared", "sent", "observe"}
    /\ worker' = OnlyRun(w, "fail")
    /\ UNCHANGED <<ledger, run, objects, retirer, faults>>

(* commitSourceSyncSuccess up to its last await: the last snapshot of the  *)
(* lane, which is reused if it has this commit and its observations merge, *)
(* the Source and the Capsule.                                             *)
Observe(w) ==
    /\ worker[w].pc = "observe"
    /\ IF Owns(w)
       THEN \E reuse \in BOOLEAN :
              /\ reuse => latest # None /\ Row(latest).commit = worker[w].commit
              /\ worker' = [worker EXCEPT ![w].pc = "commit",
                   ![w].seen = {[latest |-> latest, reuse |-> reuse, source |-> source,
                                 capsule |-> capsule]}]
       ELSE Return(w)
    /\ UNCHANGED <<ledger, run, objects, retirer, faults>>

(* The Capsule is stale when it adopted another commit.                    *)
Settled(c) ==
    IF capsule.status \in {"active", "stale"} /\ Row(capsule.adopted).commit # c
    THEN [capsule EXCEPT !.status = "stale"] ELSE capsule

(* Run, snapshot, Capsule and Source cursor in one unit.  Consumers read   *)
(* their own clocks, so a new snapshot need not be the last of the lane.   *)
CommitSuccess(w, seen) ==
    LET r == worker[w].run
        c == worker[w].commit
    IN /\ run' = [run EXCEPT ![r] = [status |-> "succeeded", lease |-> None,
                                     snapshot |-> IF seen.reuse THEN latest ELSE r]]
       /\ IF seen.reuse THEN UNCHANGED <<snapshot, latest>>
          ELSE /\ snapshot' = [snapshot EXCEPT ![r] = {[commit |-> c, ref |-> worker[w].ref]}]
               /\ latest' \in {r, latest} \ {None}
       /\ capsule' = Settled(c)
       /\ source' = [source EXCEPT !.seen = c]

(* Everything observed is compared again.  A lane that moved is observed   *)
(* once more; any other change fails the run.                              *)
Settle(w) ==
    /\ worker[w].pc = "commit"
    /\ \E seen \in worker[w].seen :
         \/ /\ ~Owns(w)
            /\ Return(w)
            /\ UNCHANGED <<source, capsule, snapshot, latest, run>>
         \/ /\ Owns(w)
            /\ seen.latest # latest \/ seen.source # source \/ seen.capsule # capsule
            /\ worker' = IF seen.latest # latest /\ ~worker[w].retried
                         THEN [worker EXCEPT ![w].pc = "observe", ![w].seen = {},
                                             ![w].retried = TRUE]
                         ELSE OnlyRun(w, "fail")
            /\ UNCHANGED <<source, capsule, snapshot, latest, run>>
         \/ /\ Owns(w)
            /\ seen.latest = latest /\ seen.source = source /\ seen.capsule = capsule
            /\ CommitSuccess(w, seen)
            /\ worker' = IF worker[w].ref = worker[w].run
                         THEN OnlyRun(w, "cleanup")
                         ELSE [worker EXCEPT ![w] = Idle]
    /\ UNCHANGED <<others, objects, retirer, faults>>

(* failSourceSyncRun, under the lease token.                               *)
FailRun(w) ==
    /\ worker[w].pc = "fail"
    /\ IF Owns(w) THEN Failed(worker[w].run) ELSE UNCHANGED run
    /\ Return(w)
    /\ UNCHANGED <<ledger, objects, retirer, faults>>

(* Mutant of Unused: the archive of any succeeded run that was merged.     *)
UnusedMerged(r) == run[r].status = "succeeded" /\ archive[r] # None

(* The run was merged into a snapshot, and no snapshot names its archive.  *)
Unused(r) ==
    /\ run[r].status = "succeeded"
    /\ run[r].snapshot # r
    /\ run[r].snapshot \in Snapshots
    /\ \A s \in Snapshots : Row(s).ref # r
    /\ archive[r] # None

CheckUnused(w) ==
    /\ worker[w].pc = "cleanup"
    /\ IF Unused(worker[w].run) THEN Go(w, "unlink") ELSE Return(w)
    /\ UNCHANGED <<ledger, run, objects, retirer, faults>>

(* A succeeded run delivered again retries the cleanup; one that finds     *)
(* nothing unused changes nothing.                                         *)
Redeliver(w, r) ==
    /\ worker[w].pc = "idle" /\ NewInvocation(w)
    /\ Unused(r)
    /\ worker' = [worker EXCEPT ![w].pc = "unlink", ![w].run = r]
    /\ UNCHANGED <<ledger, run, objects, retirer, faults>>

(* A delete under custody; a caller that dies on the way leaves its intent *)
(* pending, the object gone or not.                                        *)
Deleted(r) ==
    /\ custody[r] = NoIntent
    /\ UNCHANGED late
    /\ \/ /\ archive' = [archive EXCEPT ![r] = None]
          /\ UNCHANGED <<custody, faults>>
       \/ /\ Fault
          /\ custody' = [custody EXCEPT ![r].state = "delete"]
          /\ archive' \in {archive, [archive EXCEPT ![r] = None]}

Unlink(w) ==
    /\ worker[w].pc = "unlink"
    /\ \/ Deleted(worker[w].run)
       \/ custody[worker[w].run] # NoIntent /\ UNCHANGED <<objects, faults>>
    /\ Return(w)
    /\ UNCHANGED <<ledger, run, retirer>>

Crash(w) ==
    /\ worker[w].pc # "idle"
    /\ Fault
    /\ Return(w)
    /\ UNCHANGED <<ledger, run, objects, retirer>>

-----------------------------------------------------------------------------
(* Retirement: retireOwnedSource.                                          *)

Defer(t) == retirer' = [retirer EXCEPT ![t] = AtRest]

(* The durable marker that admits no new sync.  Its write compares the row *)
(* it read, and a lost race continues from the marked row.                 *)
MarkRetiring(t) ==
    /\ retirer[t].pc = "idle"
    /\ source.status # "gone"
    /\ capsule.status = "destroyed"
    /\ source' = [source EXCEPT !.status = "retiring"]
    /\ retirer' = [retirer EXCEPT ![t].pc = "check", ![t].row = {source'}]
    /\ UNCHANGED <<capsule, snapshot, latest, others, run, objects, worker, faults>>

(* hasInFlightSourceRun defers.                                            *)
CheckInFlight(t) ==
    /\ retirer[t].pc = "check"
    /\ IF Busy THEN Defer(t)
       ELSE retirer' = [retirer EXCEPT ![t].pc = "count"]
    /\ UNCHANGED <<ledger, run, objects, worker, faults>>

(* Mutant of ArchiveRefs: the keys that snapshots name.                    *)
ArchiveRefsOfSnapshots == {Row(s).ref : s \in Snapshots}

(* The keys that snapshots and runs name, failed runs included.            *)
ArchiveRefs == {Row(s).ref : s \in Snapshots} \cup Stored

Counted == [snapshots |-> Cardinality(Snapshots), runs |-> Cardinality(Stored)]

(* The page of archive keys; counts that differ are written first.         *)
CountRows(t) ==
    /\ retirer[t].pc = "count"
    /\ \E row \in retirer[t].row :
         IF row.counted = Counted
         THEN /\ retirer' = [retirer EXCEPT ![t].pc = "delete", ![t].todo = ArchiveRefs]
              /\ UNCHANGED source
         ELSE IF row = source
         THEN /\ source' = [source EXCEPT !.counted = Counted]
              /\ retirer' = [retirer EXCEPT ![t] = [pc |-> "delete", row |-> {source'},
                                                    todo |-> ArchiveRefs]]
         ELSE Defer(t) /\ UNCHANGED source
    /\ UNCHANGED <<capsule, snapshot, latest, others, run, objects, worker, faults>>

(* The host admits deletions of a retiring Source without syncs in flight. *)
DeletionAdmitted ==
    source.status = "retiring" /\ capsule.status = "destroyed" /\ InFlight = {}

(* One object of the page; a pending intent refuses its deletion.          *)
DeleteArchive(t) ==
    /\ retirer[t].pc = "delete"
    /\ retirer[t].todo # {}
    /\ IF ~DeletionAdmitted
       THEN Defer(t) /\ UNCHANGED <<objects, faults>>
       ELSE \E r \in retirer[t].todo :
              \/ /\ archive[r] = None
                 /\ retirer' = [retirer EXCEPT ![t].todo = retirer[t].todo \ {r}]
                 /\ UNCHANGED <<objects, faults>>
              \/ /\ archive[r] # None
                 /\ Deleted(r)
                 /\ IF custody' = custody
                    THEN retirer' = [retirer EXCEPT ![t].todo = retirer[t].todo \ {r}]
                    ELSE Defer(t)
              \/ /\ archive[r] # None
                 /\ custody[r] # NoIntent
                 /\ Defer(t)
                 /\ UNCHANGED <<objects, faults>>
    /\ UNCHANGED <<ledger, run, worker>>

(* retireSource: the row, the owner, the runs and the counts once more; it *)
(* removes the snapshots and the Source, and keeps the runs.               *)
RetireSource(t) ==
    /\ retirer[t].pc = "delete"
    /\ retirer[t].todo = {}
    /\ IF
          /\ source \in retirer[t].row
          /\ capsule.status = "destroyed"
          /\ ~Busy
          /\ source.counted = Counted
       THEN /\ source' = [status |-> "gone", seen |-> None, counted |-> NoCount]
            /\ snapshot' = [s \in Runs |-> {}]
            /\ latest' = None
       ELSE UNCHANGED <<source, snapshot, latest>>
    /\ Defer(t)
    /\ UNCHANGED <<capsule, others, run, objects, worker, faults>>

CrashRetirer(t) ==
    /\ retirer[t].pc # "idle"
    /\ Fault
    /\ Defer(t)
    /\ UNCHANGED <<ledger, run, objects, worker>>

-----------------------------------------------------------------------------
Consumer(w) ==
    \/ \E r \in Runs : Claim(w, r)
    \/ Dispatch(w) \/ RunnerReturns(w) \/ PreparePut(w) \/ SendPut(w) \/ ConfirmPut(w)
    \/ Throw(w) \/ Observe(w) \/ Settle(w) \/ FailRun(w) \/ CheckUnused(w) \/ Unlink(w)

Retirement(t) ==
    \/ MarkRetiring(t) \/ CheckInFlight(t) \/ CountRows(t) \/ DeleteArchive(t)
    \/ RetireSource(t)

Api(r) ==
    \/ BeginSync(r) \/ FailStaleSync(r) \/ MarkRunFailed(r) \/ Adopt(r) \/ PutLands(r)

Next ==
    \/ \E r \in Runs : Api(r)
    \/ Destroy \/ OtherRunBegins \/ OtherRunEnds
    \/ \E w \in Workers :
         Consumer(w) \/ Crash(w) \/ \E r \in Runs : Redeliver(w, r)
    \/ \E t \in Retirers : Retirement(t) \/ CrashRetirer(t)

Spec == Init /\ [][Next]_vars

(* A run in flight is delivered until a consumer takes it, a consumer that *)
(* does not die goes on, the daily sweep tries every marked Source again,  *)
(* and the other runs of the Capsule settle.                               *)
FairSpec ==
    /\ Spec
    /\ \A w \in Workers : WF_vars(Consumer(w))
    /\ \A t \in Retirers : WF_vars(Retirement(t))
    /\ WF_vars(OtherRunEnds)

-----------------------------------------------------------------------------
(* Properties.                                                             *)

(* Rows, consumers and retirements keep their types.  The lease column of  *)
(* a SourceSyncRun is set while the run is running and cleared by every    *)
(* write that ends it, and what the query for the last snapshot of the     *)
(* lane answers is stored.                                                 *)
TypeOK ==
    /\ source \in SourceRow
    /\ capsule \in CapsuleRow
    /\ run \in [Runs -> RunRow]
    /\ \A r \in Runs : run[r].status = "running" <=> run[r].lease # None
    /\ snapshot \in [Runs -> {{}} \cup {{row} : row \in SnapshotRow}]
    /\ latest \in Snapshots \cup {None}
    /\ others \in 0 .. faults
    /\ archive \in [Runs -> Commits \cup {None}]
    /\ custody \in [Runs -> Intent]
    /\ late \subseteq Runs
    /\ worker \in [Workers -> WorkerState]
    /\ retirer \in [Retirers -> RetirerState]
    /\ faults \in 0 .. MaxFaults

(* Until its Source retires, a stored snapshot can be read back: whichever *)
(* consumers were taken over, replaced or merged, the object under its key *)
(* holds the commit it names, and no intent on the key is open.            *)
ArchiveKept ==
    source.status = "active" =>
        \A s \in Snapshots :
            archive[Row(s).ref] = Row(s).commit /\ custody[Row(s).ref] = NoIntent

(* A retired Source leaves nothing behind that somebody still works on:    *)
(* its Capsule is destroyed, and no sync and no run of the Capsule is in   *)
(* flight.  An object outlives it only if a consumer that had passed its   *)
(* last fence wrote it after its run had been failed or finished by        *)
(* another.                                                                *)
RetiredIsClean ==
    source.status = "gone" =>
        /\ capsule.status = "destroyed"
        /\ ~Busy
        /\ Snapshots = {}
        /\ \A r \in Runs : archive[r] # None => r \in late

(* An intent whose sender is gone: only the host can close it.             *)
Orphaned(r) ==
    /\ custody[r] # NoIntent
    /\ ~\E w \in Workers : worker[w].run = r /\ worker[w].pc \in {"prepared", "sent"}

(* The Source of a destroyed Capsule is retired, whatever syncs were in    *)
(* flight and whoever crashed, unless an intent was orphaned.              *)
RetirementCompletes ==
    capsule.status = "destroyed" ~>
        source.status = "gone" \/ \E r \in Runs : Orphaned(r)
=============================================================================
