-------------------------- MODULE SourceSyncProofs --------------------------
(***************************************************************************)
(* Safety of the Source lifecycle for every set of runs, consumers,        *)
(* retirements and commits and every fault bound.                          *)
(***************************************************************************)
EXTENDS SourceSync, FiniteSetTheorems, TLAPS

-----------------------------------------------------------------------------
(* The inductive invariant.                                                *)

(* A snapshot, and the run whose archive it names, belong to runs that     *)
(* succeeded; keys are used by stored runs only.                           *)
SnapInv ==
    /\ \A s \in Snapshots :
         run[s].status = "succeeded" /\ run[Row(s).ref].status = "succeeded"
    /\ \A r \in Runs :
         archive[r] # None \/ custody[r] # NoIntent => run[r].status # "none"
    /\ IsFiniteSet(Stored)

(* The rows a consumer was offered, and the one it took, are still there   *)
(* until the Source is gone.                                               *)
Kept(row) ==
    source.status # "gone" => \E s \in Runs : snapshot[s] = {row}

(* What a consumer relies on: its run, its own intent while it puts, its   *)
(* own archive while the claim lasts, or the archive it was offered.       *)
Informed(w) ==
    LET s == worker[w]
        r == s.run
    IN  /\ s.pc # "idle" => r \in Runs /\ run[r].status # "none"
        /\ s.pc \in {"prepare", "prepared", "sent", "observe", "commit"} =>
             s.commit \in Commits /\ s.ref \in Runs
        /\ s.pc \in {"prepare", "prepared", "sent"} => s.ref = r
        /\ s.pc = "prepared" => custody[r] = [state |-> "prepared", commit |-> s.commit]
        /\ s.pc = "sent" =>
             /\ custody[r].state \in {"sent", "landed"}
             /\ custody[r].commit = s.commit
             /\ custody[r].state = "landed" => archive[r] = s.commit
        /\ s.pc \in {"observe", "commit"} /\ s.ref = r /\ Owns(w) =>
             archive[r] = s.commit /\ custody[r] = NoIntent
        /\ s.pc \in {"observe", "commit"} /\ s.ref # r =>
             Kept([commit |-> s.commit, ref |-> s.ref])
        /\ \A row \in s.reuse : Kept(row)
        /\ s.pc = "unlink" =>
             run[r].status = "succeeded" /\ \A t \in Snapshots : Row(t).ref # r

WorkInv == \A w \in Workers : Informed(w)

(* One consumer at a time has an intent of its own on a key.               *)
Sending(w) == worker[w].pc \in {"prepared", "sent"}

SenderInv ==
    \A v, w \in Workers :
        Sending(v) /\ Sending(w) /\ worker[v].run = worker[w].run => v = w

(* A retirement works on a marked Source; past its check no sync is in     *)
(* flight, and what is not on its page any more was written late.          *)
Clears(t) ==
    LET s == retirer[t]
    IN  /\ \A row \in s.row : row.status = "retiring"
        /\ s.pc # "idle" => source.status # "active"
        /\ s.pc \in {"count", "delete"} => InFlight = {}
        /\ s.pc = "delete" => \A r \in Runs : archive[r] # None => r \in late \cup s.todo

RetireInv == \A t \in Retirers : Clears(t)

IInv ==
    /\ TypeOK
    /\ SnapInv
    /\ WorkInv
    /\ SenderInv
    /\ RetireInv
    /\ ArchiveKept
    /\ RetiredIsClean

-----------------------------------------------------------------------------
(* What a step does to the stored state, field by field.                   *)

core == <<source, capsule, run, snapshot, latest, archive, custody, late>>

RunTo(r, status, lease) ==
    /\ run' \in [Runs -> RunRow]
    /\ \A q \in Runs \ {r} : run'[q] = run[q]
    /\ run'[r].status = status
    /\ run'[r].lease = lease
    /\ UNCHANGED objects

Keyed(r, commit, intent) ==
    /\ archive' \in [Runs -> Commits \cup {None}]
    /\ custody' \in [Runs -> Intent]
    /\ \A q \in Runs \ {r} : archive'[q] = archive[q] /\ custody'[q] = custody[q]
    /\ archive'[r] = commit
    /\ custody'[r] = intent
    /\ UNCHANGED <<ledger, run>>

Begins(r) ==
    /\ source.status = "active"
    /\ run[r].status = "none"
    /\ RunTo(r, "queued", run[r].lease)
    /\ UNCHANGED ledger

Fails(r) == r \in InFlight /\ RunTo(r, "failed", None) /\ UNCHANGED ledger

Claims(w, r) ==
    /\ r \in InFlight
    /\ RunTo(r, "running", w)
    /\ worker'[w] # worker[w]
    /\ UNCHANGED ledger

Turns ==
    /\ capsule.status # "destroyed"
    /\ capsule' \in CapsuleRow
    /\ UNCHANGED <<source, snapshot, latest, run, objects>>

Prepares(w) ==
    LET r == worker[w].run
    IN  /\ worker[w].pc = "prepare"
        /\ Owns(w)
        /\ custody[r] = NoIntent
        /\ Keyed(r, archive[r], [state |-> "prepared", commit |-> worker[w].commit])
        /\ worker'[w] # worker[w]
        /\ UNCHANGED late

Sends(w) ==
    LET r == worker[w].run
    IN  /\ worker[w].pc = "prepared"
        /\ Owns(w)
        /\ Keyed(r, archive[r], [state |-> "sent", commit |-> worker[w].commit])
        /\ worker'[w] # worker[w]
        /\ UNCHANGED late

Lands(r) ==
    LET c == custody[r].commit
    IN  /\ custody[r].state = "sent"
        /\ Keyed(r, c, [state |-> "landed", commit |-> c])
        /\ late' = IF r \in InFlight THEN late ELSE late \cup {r}

Confirms(w) ==
    LET r == worker[w].run
    IN  /\ worker[w].pc = "sent"
        /\ custody[r].state = "landed"
        /\ Keyed(r, archive[r], NoIntent)
        /\ worker'[w] # worker[w]
        /\ UNCHANGED late

(* A delete, completed or interrupted, of a cleanup or of a retirement.    *)
Deletes(r) ==
    /\ custody[r] = NoIntent
    /\ \/ \E w \in Workers : worker[w].pc = "unlink" /\ worker[w].run = r
       \/ source.status = "retiring" /\ InFlight = {} /\ archive[r] # None
    /\ \/ Keyed(r, None, NoIntent)
       \/ \E c \in {archive[r], None} : Keyed(r, c, [state |-> "delete", commit |-> None])
    /\ UNCHANGED late

(* The settlement of a run, with a snapshot of its own or merged.          *)
Settles(w) ==
    LET r == worker[w].run
    IN  /\ worker[w].pc = "commit"
        /\ Owns(w)
        /\ RunTo(r, "succeeded", None)
        /\ source' \in SourceRow
        /\ source'.status = source.status
        /\ capsule' \in CapsuleRow
        /\ capsule.status = "destroyed" => capsule'.status = "destroyed"
        /\ worker'[w] # worker[w]

Merges(w) == Settles(w) /\ UNCHANGED <<snapshot, latest>>

Adds(w) ==
    LET r == worker[w].run
    IN  /\ Settles(w)
        /\ snapshot' \in [Runs -> {{}} \cup {{row} : row \in SnapshotRow}]
        /\ \A q \in Runs \ {r} : snapshot'[q] = snapshot[q]
        /\ snapshot'[r] = {[commit |-> worker[w].commit, ref |-> worker[w].ref]}
        /\ latest' \in {r, latest} \ {None}

Marks ==
    /\ source.status # "gone"
    /\ source' \in SourceRow
    /\ source'.status = "retiring"
    /\ UNCHANGED <<capsule, snapshot, latest, run, objects>>

Retires(t) ==
    /\ retirer[t].pc = "delete"
    /\ retirer[t].todo = {}
    /\ capsule.status = "destroyed"
    /\ InFlight = {}
    /\ others = 0 /\ UNCHANGED others
    /\ source' \in SourceRow
    /\ source'.status = "gone"
    /\ snapshot' = [s \in Runs |-> {}]
    /\ latest' = None
    /\ UNCHANGED <<capsule, run, objects>>

KeyStep(r) == Begins(r) \/ Fails(r) \/ Lands(r) \/ Deletes(r)

WriteStep(w) ==
    \/ \E r \in Runs : Claims(w, r)
    \/ Prepares(w) \/ Sends(w) \/ Confirms(w) \/ Merges(w) \/ Adds(w)

CoreStep ==
    \/ UNCHANGED core
    \/ Turns \/ Marks
    \/ \E r \in Runs : KeyStep(r)
    \/ \E w \in Workers : WriteStep(w)
    \/ \E t \in Retirers : Retires(t)

(* The one row under the id of a stored snapshot.                          *)
LEMMA RowOfSnapshot ==
    ASSUME TypeOK, NEW s \in Snapshots
    PROVE  snapshot[s] = {Row(s)} /\ Row(s) \in SnapshotRow
<1>1. s \in Runs /\ snapshot[s] # {}
  BY DEF Snapshots
<1>2. PICK row \in SnapshotRow : snapshot[s] = {row}
  BY <1>1 DEF TypeOK
<1>3. Row(s) = row
  BY <1>2 DEF Row
<1> QED
  BY <1>2, <1>3

(* The id under which a row is stored is one of a snapshot.                *)
LEMMA SnapshotOfRow ==
    ASSUME TypeOK, NEW s \in Runs, NEW row, snapshot[s] = {row}
    PROVE  s \in Snapshots /\ Row(s) = row /\ row \in SnapshotRow
<1>1. s \in Snapshots
  BY DEF Snapshots
<1>2. snapshot[s] = {Row(s)} /\ Row(s) \in SnapshotRow
  BY <1>1, RowOfSnapshot
<1> QED
  BY <1>1, <1>2

(* The writes of a run row.                                                *)
LEMMA WriteRun ==
    ASSUME TypeOK, NEW r \in Runs, NEW row \in RunRow, UNCHANGED objects,
           run' = [run EXCEPT ![r] = row]
    PROVE  RunTo(r, row.status, row.lease)
  BY DEF RunTo, TypeOK

(* A queued run, and a claimed one.                                        *)
LEMMA WriteStatus ==
    ASSUME TypeOK, NEW r \in Runs, NEW lease \in Workers \cup {None},
           NEW status \in {"queued", "running"}, UNCHANGED objects
    PROVE  /\ run' = [run EXCEPT ![r].status = status] => RunTo(r, status, run[r].lease)
           /\ run' = [run EXCEPT ![r].status = status, ![r].lease = lease] =>
                RunTo(r, status, lease)
<1>1. PICK row \in RunRow : row = run[r]
  BY DEF TypeOK
<1>2. PICK p : p = [row EXCEPT !.status = status]
  OBVIOUS
<1>3. PICK q : q = [row EXCEPT !.status = status, !.lease = lease]
  OBVIOUS
<1>4. p = [status |-> status, lease |-> row.lease, snapshot |-> row.snapshot]
  BY <1>2 DEF RunRow
<1>5. q = [status |-> status, lease |-> lease, snapshot |-> row.snapshot]
  BY <1>3 DEF RunRow
<1>6. p \in RunRow /\ q \in RunRow /\ p.lease = run[r].lease
  BY <1>1, <1>4, <1>5 DEF RunRow
<1>7. run' = [run EXCEPT ![r] = p] => RunTo(r, status, run[r].lease)
  BY <1>4, <1>6, WriteRun
<1>8. run' = [run EXCEPT ![r] = q] => RunTo(r, status, lease)
  BY <1>5, <1>6, WriteRun
<1> QED
  BY <1>1, <1>2, <1>3, <1>7, <1>8

(* A failed run.                                                           *)
LEMMA WriteFailed ==
    ASSUME TypeOK, NEW r \in Runs, Failed(r), UNCHANGED objects
    PROVE  RunTo(r, "failed", None)
<1>1. PICK row : row = [status |-> "failed", lease |-> None, snapshot |-> None]
  OBVIOUS
<1>2. row \in RunRow /\ run' = [run EXCEPT ![r] = row]
  BY <1>1 DEF RunRow, Failed
<1> QED
  BY <1>1, <1>2, WriteRun

(* The writes under a key.                                                 *)
LEMMA WriteKey ==
    ASSUME TypeOK, NEW r \in Runs, NEW c \in Commits \cup {None}, NEW i \in Intent,
           UNCHANGED <<ledger, run>>
    PROVE  /\ archive' = [archive EXCEPT ![r] = c] /\ custody' = [custody EXCEPT ![r] = i]
                => Keyed(r, c, i)
           /\ archive' = archive /\ custody' = [custody EXCEPT ![r] = i]
                => Keyed(r, archive[r], i)
           /\ archive' = [archive EXCEPT ![r] = c] /\ custody' = custody
                => Keyed(r, c, custody[r])
  BY DEF Keyed, TypeOK

(* An intent that changes its state keeps its commit.                      *)
LEMMA WriteState ==
    ASSUME TypeOK, NEW r \in Runs,
           NEW state \in {"prepared", "sent", "landed", "delete"}
    PROVE  /\ [state |-> state, commit |-> custody[r].commit] \in Intent
           /\ [custody EXCEPT ![r].state = state] =
                [custody EXCEPT ![r] = [state |-> state, commit |-> custody[r].commit]]
<1>1. PICK i \in Intent : i = custody[r]
  BY DEF TypeOK
<1>2. [i EXCEPT !.state = state] = [state |-> state, commit |-> i.commit]
  BY DEF Intent
<1>3. [custody EXCEPT ![r].state = state] = [custody EXCEPT ![r] = [i EXCEPT !.state = state]]
  BY <1>1
<1> QED
  BY <1>1, <1>2, <1>3 DEF Intent

-----------------------------------------------------------------------------
(* What a step does to a consumer and to a retirement.                     *)

Becomes(w, pc, r, c, ref, reuse) ==
    /\ worker' \in [Workers -> WorkerState]
    /\ \A v \in Workers \ {w} : worker'[v] = worker[v]
    /\ worker'[w].pc = pc
    /\ worker'[w].run = r
    /\ worker'[w].commit = c
    /\ worker'[w].ref = ref
    /\ worker'[w].reuse = reuse

Goes(w, pc) ==
    Becomes(w, pc, worker[w].run, worker[w].commit, worker[w].ref, worker[w].reuse)

Rests(w) == Becomes(w, "idle", None, None, None, {})

Clearing(t, pc, row, todo) ==
    /\ retirer' \in [Retirers -> RetirerState]
    /\ \A u \in Retirers \ {t} : retirer'[u] = retirer[u]
    /\ retirer'[t].pc = pc
    /\ retirer'[t].row = row
    /\ retirer'[t].todo = todo

(* A consumer that is replaced as a whole.                                 *)
LEMMA PutWorker ==
    ASSUME TypeOK, NEW w \in Workers, NEW s \in WorkerState,
           worker' = [worker EXCEPT ![w] = s]
    PROVE  Becomes(w, s.pc, s.run, s.commit, s.ref, s.reuse)
  BY DEF Becomes, TypeOK

Pcs == {"idle", "claimed", "dispatched", "prepare", "prepared", "sent", "observe",
        "commit", "fail", "cleanup", "unlink"}

(* A consumer that goes on, returns, or keeps its run alone.               *)
LEMMA MoveWorker ==
    ASSUME TypeOK, NEW w \in Workers, NEW pc \in Pcs
    PROVE  /\ Go(w, pc) => Goes(w, pc)
           /\ Return(w) => Rests(w)
           /\ worker' = OnlyRun(w, pc) => Becomes(w, pc, worker[w].run, None, None, {})
<1>1. PICK s \in WorkerState : s = worker[w]
  BY DEF TypeOK
<1>2. PICK p : p = [s EXCEPT !.pc = pc]
  OBVIOUS
<1>3. PICK q : q = [Idle EXCEPT !.pc = pc, !.run = s.run]
  OBVIOUS
<1>4. p = [pc |-> pc, run |-> s.run, commit |-> s.commit, ref |-> s.ref,
           reuse |-> s.reuse, seen |-> s.seen, retried |-> s.retried]
  BY <1>2 DEF WorkerState
<1>5. q = [pc |-> pc, run |-> s.run, commit |-> None, ref |-> None, reuse |-> {},
           seen |-> {}, retried |-> FALSE]
  BY <1>3 DEF Idle
<1>6. p \in WorkerState /\ q \in WorkerState /\ Idle \in WorkerState
  BY <1>4, <1>5 DEF WorkerState, Pcs, Idle
<1>7. Go(w, pc) => Goes(w, pc)
  <2>1. Go(w, pc) => worker' = [worker EXCEPT ![w] = p]
    BY <1>1, <1>2 DEF Go
  <2> QED
    BY <2>1, <1>1, <1>4, <1>6, PutWorker DEF Goes
<1>8. Return(w) => Rests(w)
  <2>1. Return(w) => Becomes(w, Idle.pc, Idle.run, Idle.commit, Idle.ref, Idle.reuse)
    BY <1>6, PutWorker DEF Return
  <2> QED
    BY <2>1 DEF Rests, Idle
<1>9. worker' = OnlyRun(w, pc) => Becomes(w, pc, worker[w].run, None, None, {})
  <2>1. worker' = OnlyRun(w, pc) => worker' = [worker EXCEPT ![w] = q]
    BY <1>1, <1>3 DEF OnlyRun
  <2> QED
    BY <2>1, <1>1, <1>5, <1>6, PutWorker
<1> QED
  BY <1>7, <1>8, <1>9

(* A consumer that takes a run, an offer, an answer or an observation.     *)
LEMMA FillWorker ==
    ASSUME TypeOK, NEW w \in Workers, NEW pc \in Pcs, NEW r \in Runs,
           NEW c \in Commits \cup {None}, NEW ref \in Runs \cup {None},
           NEW reuse \in SUBSET SnapshotRow, NEW seen \in SUBSET Observation
    PROVE  /\ worker' = [worker EXCEPT ![w].pc = pc, ![w].run = r] =>
                Becomes(w, pc, r, worker[w].commit, worker[w].ref, worker[w].reuse)
           /\ worker' = [worker EXCEPT ![w].pc = pc, ![w].reuse = reuse] =>
                Becomes(w, pc, worker[w].run, worker[w].commit, worker[w].ref, reuse)
           /\ worker' = [worker EXCEPT ![w].pc = pc, ![w].commit = c, ![w].reuse = {},
                                       ![w].ref = ref] =>
                Becomes(w, pc, worker[w].run, c, ref, {})
           /\ worker' = [worker EXCEPT ![w].pc = pc, ![w].seen = seen] => Goes(w, pc)
           /\ worker' = [worker EXCEPT ![w].pc = pc, ![w].seen = seen,
                                       ![w].retried = TRUE] => Goes(w, pc)
<1>1. PICK s \in WorkerState : s = worker[w]
  BY DEF TypeOK
<1>2. ASSUME worker' = [worker EXCEPT ![w].pc = pc, ![w].run = r]
      PROVE  Becomes(w, pc, r, worker[w].commit, worker[w].ref, worker[w].reuse)
  <2>1. PICK p : p = [s EXCEPT !.pc = pc, !.run = r]
    OBVIOUS
  <2>2. p = [pc |-> pc, run |-> r, commit |-> s.commit, ref |-> s.ref,
             reuse |-> s.reuse, seen |-> s.seen, retried |-> s.retried]
    BY <2>1 DEF WorkerState
  <2>3. p \in WorkerState
    BY <2>2 DEF WorkerState, Pcs
  <2>4. worker' = [worker EXCEPT ![w] = p]
    BY <1>1, <1>2, <2>1
  <2> QED
    BY <1>1, <2>2, <2>3, <2>4, PutWorker
<1>3. ASSUME worker' = [worker EXCEPT ![w].pc = pc, ![w].reuse = reuse]
      PROVE  Becomes(w, pc, worker[w].run, worker[w].commit, worker[w].ref, reuse)
  <2>1. PICK p : p = [s EXCEPT !.pc = pc, !.reuse = reuse]
    OBVIOUS
  <2>2. p = [pc |-> pc, run |-> s.run, commit |-> s.commit, ref |-> s.ref,
             reuse |-> reuse, seen |-> s.seen, retried |-> s.retried]
    BY <2>1 DEF WorkerState
  <2>3. p \in WorkerState
    BY <2>2 DEF WorkerState, Pcs
  <2>4. worker' = [worker EXCEPT ![w] = p]
    BY <1>1, <1>3, <2>1
  <2> QED
    BY <1>1, <2>2, <2>3, <2>4, PutWorker
<1>4. ASSUME worker' = [worker EXCEPT ![w].pc = pc, ![w].commit = c, ![w].reuse = {},
                                      ![w].ref = ref]
      PROVE  Becomes(w, pc, worker[w].run, c, ref, {})
  <2>1. PICK p : p = [s EXCEPT !.pc = pc, !.commit = c, !.reuse = {}, !.ref = ref]
    OBVIOUS
  <2>2. p = [pc |-> pc, run |-> s.run, commit |-> c, ref |-> ref,
             reuse |-> {}, seen |-> s.seen, retried |-> s.retried]
    BY <2>1 DEF WorkerState
  <2>3. p \in WorkerState
    BY <2>2 DEF WorkerState, Pcs
  <2>4. worker' = [worker EXCEPT ![w] = p]
    BY <1>1, <1>4, <2>1
  <2> QED
    BY <1>1, <2>2, <2>3, <2>4, PutWorker
<1>5. ASSUME worker' = [worker EXCEPT ![w].pc = pc, ![w].seen = seen]
      PROVE  Goes(w, pc)
  <2>1. PICK p : p = [s EXCEPT !.pc = pc, !.seen = seen]
    OBVIOUS
  <2>2. p = [pc |-> pc, run |-> s.run, commit |-> s.commit, ref |-> s.ref,
             reuse |-> s.reuse, seen |-> seen, retried |-> s.retried]
    BY <2>1 DEF WorkerState
  <2>3. p \in WorkerState
    BY <2>2 DEF WorkerState, Pcs
  <2>4. worker' = [worker EXCEPT ![w] = p]
    BY <1>1, <1>5, <2>1
  <2> QED
    BY <1>1, <2>2, <2>3, <2>4, PutWorker DEF Goes
<1>6. ASSUME worker' = [worker EXCEPT ![w].pc = pc, ![w].seen = seen, ![w].retried = TRUE]
      PROVE  Goes(w, pc)
  <2>1. PICK p : p = [s EXCEPT !.pc = pc, !.seen = seen, !.retried = TRUE]
    OBVIOUS
  <2>2. p = [pc |-> pc, run |-> s.run, commit |-> s.commit, ref |-> s.ref,
             reuse |-> s.reuse, seen |-> seen, retried |-> TRUE]
    BY <2>1 DEF WorkerState
  <2>3. p \in WorkerState
    BY <2>2 DEF WorkerState, Pcs
  <2>4. worker' = [worker EXCEPT ![w] = p]
    BY <1>1, <1>6, <2>1
  <2> QED
    BY <1>1, <2>2, <2>3, <2>4, PutWorker DEF Goes
<1> QED
  BY <1>2, <1>3, <1>4, <1>5, <1>6

(* A retirement that rests, goes on, or is filled.                         *)
LEMMA MoveRetirer ==
    ASSUME TypeOK, NEW t \in Retirers, NEW pc \in {"check", "count", "delete"},
           NEW row \in SUBSET SourceRow, NEW todo \in SUBSET Runs
    PROVE  /\ Defer(t) => Clearing(t, "idle", {}, {})
           /\ retirer' = [retirer EXCEPT ![t].pc = pc] =>
                Clearing(t, pc, retirer[t].row, retirer[t].todo)
           /\ retirer' = [retirer EXCEPT ![t].pc = pc, ![t].row = row] =>
                Clearing(t, pc, row, retirer[t].todo)
           /\ retirer' = [retirer EXCEPT ![t].pc = pc, ![t].todo = todo] =>
                Clearing(t, pc, retirer[t].row, todo)
           /\ retirer' = [retirer EXCEPT ![t].todo = todo] =>
                Clearing(t, retirer[t].pc, retirer[t].row, todo)
           /\ retirer' = [retirer EXCEPT ![t] = [pc |-> pc, row |-> row, todo |-> todo]] =>
                Clearing(t, pc, row, todo)
<1>1. PICK s \in RetirerState : s = retirer[t]
  BY DEF TypeOK
<1>2. ASSUME NEW p \in RetirerState, retirer' = [retirer EXCEPT ![t] = p]
      PROVE  Clearing(t, p.pc, p.row, p.todo)
  BY <1>2 DEF Clearing, TypeOK
<1>3. AtRest \in RetirerState /\ AtRest.pc = "idle" /\ AtRest.row = {} /\ AtRest.todo = {}
  BY DEF AtRest, RetirerState
<1>4. PICK p : p = [s EXCEPT !.pc = pc]
  OBVIOUS
<1>5. PICK q : q = [s EXCEPT !.pc = pc, !.row = row]
  OBVIOUS
<1>6. PICK u : u = [s EXCEPT !.pc = pc, !.todo = todo]
  OBVIOUS
<1>7. PICK x : x = [s EXCEPT !.todo = todo]
  OBVIOUS
<1>8. PICK y : y = [pc |-> pc, row |-> row, todo |-> todo]
  OBVIOUS
<1>9. /\ p = [pc |-> pc, row |-> s.row, todo |-> s.todo]
      /\ q = [pc |-> pc, row |-> row, todo |-> s.todo]
      /\ u = [pc |-> pc, row |-> s.row, todo |-> todo]
      /\ x = [pc |-> s.pc, row |-> s.row, todo |-> todo]
  BY <1>4, <1>5, <1>6, <1>7 DEF RetirerState
<1>10. /\ p \in RetirerState /\ q \in RetirerState /\ u \in RetirerState
       /\ x \in RetirerState /\ y \in RetirerState
  BY <1>8, <1>9 DEF RetirerState
<1>11. /\ [retirer EXCEPT ![t].pc = pc] = [retirer EXCEPT ![t] = p]
       /\ [retirer EXCEPT ![t].pc = pc, ![t].row = row] = [retirer EXCEPT ![t] = q]
       /\ [retirer EXCEPT ![t].pc = pc, ![t].todo = todo] = [retirer EXCEPT ![t] = u]
       /\ [retirer EXCEPT ![t].todo = todo] = [retirer EXCEPT ![t] = x]
  BY <1>1, <1>4, <1>5, <1>6, <1>7
<1> QED
  BY <1>1, <1>2, <1>3, <1>8, <1>9, <1>10, <1>11 DEF Defer

-----------------------------------------------------------------------------
(* Every action, as one of these steps.                                    *)

(* The types a step starts from.                                           *)
LEMMA Typed ==
    ASSUME IInv
    PROVE  /\ \A w \in Workers : worker[w] \in WorkerState
           /\ \A w \in Workers : worker[w].pc # "idle" => worker[w].run \in Runs
           /\ \A r \in Runs : run[r] \in RunRow /\ custody[r] \in Intent
           /\ latest # None => latest \in Snapshots
           /\ latest \in Runs \cup {None}
  BY DEF IInv, TypeOK, WorkInv, Informed, Snapshots

(* The control API, the Capsule and the object store.                      *)
LEMMA ApiSteps ==
    ASSUME IInv, NEW r \in Runs, Api(r)
    PROVE  CoreStep /\ UNCHANGED <<worker, retirer>>
<1>1. TypeOK
  BY DEF IInv
<1>2. run[r] \in RunRow
  BY <1>1 DEF TypeOK
<1>3. CASE BeginSync(r)
  <2>1. run[r].status = "none"
    <3>1. \E q \in Runs : q \notin Stored
      BY <1>3 DEF BeginSync, Stored
    <3>2. r \in Runs \ Stored
      BY <1>3, <3>1 DEF BeginSync, NewId
    <3> QED
      BY <3>2 DEF Stored
  <2>2. UNCHANGED objects /\ UNCHANGED ledger /\ source.status = "active"
    BY <1>3 DEF BeginSync
  <2>3. RunTo(r, "queued", run[r].lease)
    BY <1>1, <1>2, <1>3, <2>2, WriteStatus DEF BeginSync, RunRow
  <2> QED
    BY <1>3, <2>1, <2>2, <2>3 DEF Begins, BeginSync, KeyStep, CoreStep
<1>4. CASE FailStaleSync(r) \/ MarkRunFailed(r)
  <2>1. UNCHANGED objects /\ UNCHANGED ledger /\ Failed(r)
    BY <1>4 DEF FailStaleSync, MarkRunFailed
  <2>2. r \in InFlight
    BY <1>4 DEF FailStaleSync, MarkRunFailed, Stale, InFlight
  <2> QED
    BY <1>1, <1>4, <2>1, <2>2, WriteFailed
    DEF Fails, FailStaleSync, MarkRunFailed, KeyStep, CoreStep
<1>5. CASE Adopt(r)
  BY <1>5 DEF Adopt, Turns, CoreStep, CapsuleRow
<1>6. CASE PutLands(r)
  <2>1. PICK c : c = custody[r].commit
    OBVIOUS
  <2>2. c \in Commits \cup {None} /\ [state |-> "landed", commit |-> c] \in Intent
    BY <1>1, <2>1, WriteState DEF TypeOK, Intent
  <2>3. /\ archive' = [archive EXCEPT ![r] = c]
        /\ custody' = [custody EXCEPT ![r] = [state |-> "landed", commit |-> c]]
        /\ UNCHANGED <<ledger, run>>
    BY <1>1, <1>6, <2>1, WriteState DEF PutLands
  <2>4. Keyed(r, c, [state |-> "landed", commit |-> c])
    BY <1>1, <2>2, <2>3, WriteKey
  <2> QED
    BY <1>6, <2>1, <2>4 DEF Lands, PutLands, KeyStep, CoreStep
<1> QED
  BY <1>3, <1>4, <1>5, <1>6 DEF Api

(* A destroy.                                                              *)
LEMMA DestroyStep ==
    ASSUME IInv, Destroy
    PROVE  CoreStep /\ UNCHANGED <<worker, retirer>>
<1>1. [capsule EXCEPT !.status = "destroyed"] \in CapsuleRow
  BY DEF IInv, TypeOK, CapsuleRow
<1> QED
  BY <1>1 DEF Destroy, Turns, CoreStep

(* Other runs of the Capsule leave the Source, its syncs and objects alone. *)
LEMMA OtherRunSteps ==
    ASSUME OtherRunBegins \/ OtherRunEnds
    PROVE  CoreStep /\ UNCHANGED <<worker, retirer>>
  BY DEF OtherRunBegins, OtherRunEnds, CoreStep, core, objects

(* A delivery is claimed, and its runner dispatched.                       *)
LEMMA ClaimStep ==
    ASSUME IInv, NEW w \in Workers, NEW r \in Runs, Claim(w, r)
    PROVE  /\ Becomes(w, "claimed", r, worker[w].commit, worker[w].ref, worker[w].reuse)
           /\ Claims(w, r)
           /\ UNCHANGED retirer
<1>1. TypeOK
  BY DEF IInv
<1>2. "claimed" \in Pcs
  BY DEF Pcs
<1>3. UNCHANGED objects /\ UNCHANGED ledger /\ UNCHANGED retirer /\ r \in InFlight
  BY DEF Claim, Stale, InFlight
<1>4. RunTo(r, "running", w)
  BY <1>1, <1>3, WriteStatus DEF Claim
<1>5. Becomes(w, "claimed", r, worker[w].commit, worker[w].ref, worker[w].reuse)
  BY <1>1, <1>2, FillWorker DEF Claim
<1>6. worker'[w] # worker[w]
  BY <1>5 DEF Becomes, Claim
<1> QED
  BY <1>3, <1>4, <1>5, <1>6 DEF Claims

(* The runner is dispatched.                                               *)
LEMMA DispatchStep ==
    ASSUME IInv, NEW w \in Workers, Dispatch(w)
    PROVE  /\ \E reuse \in SUBSET SnapshotRow :
                /\ reuse = {} \/ \E s \in Runs : snapshot[s] = reuse
                /\ Becomes(w, "dispatched", worker[w].run, worker[w].commit,
                           worker[w].ref, reuse)
           /\ UNCHANGED core /\ UNCHANGED retirer
<1>1. TypeOK /\ "dispatched" \in Pcs /\ worker[w].run \in Runs
  BY Typed DEF IInv, Pcs, Dispatch
<1>2. PICK reuse : reuse = IF latest = None THEN {} ELSE snapshot[latest]
  OBVIOUS
<1>3. reuse \in SUBSET SnapshotRow /\ (reuse = {} \/ \E s \in Runs : snapshot[s] = reuse)
  <2>1. CASE latest = None
    BY <1>2, <2>1
  <2>2. CASE latest # None
    <3>1. latest \in Snapshots /\ latest \in Runs
      BY <2>2, Typed DEF Snapshots
    <3>2. reuse = {Row(latest)} /\ Row(latest) \in SnapshotRow /\ reuse = snapshot[latest]
      BY <1>1, <1>2, <2>2, <3>1, RowOfSnapshot
    <3> QED
      BY <3>1, <3>2
  <2> QED
    BY <2>1, <2>2
<1>4. worker' = [worker EXCEPT ![w].pc = "dispatched", ![w].reuse = reuse]
  BY <1>2 DEF Dispatch
<1>5. Becomes(w, "dispatched", worker[w].run, worker[w].commit, worker[w].ref, reuse)
  BY <1>1, <1>3, <1>4, FillWorker
<1> QED
  BY <1>3, <1>5 DEF Dispatch, core, ledger, objects

(* The runner returns an archive of its own, or the one it was offered.    *)
LEMMA ReturnStep ==
    ASSUME IInv, NEW w \in Workers, RunnerReturns(w)
    PROVE  /\ \E c \in Commits :
                \/ Becomes(w, "prepare", worker[w].run, c, worker[w].run, {})
                \/ \E row \in worker[w].reuse :
                     /\ row.commit = c /\ custody[row.ref] = NoIntent /\ archive[row.ref] = c
                     /\ row \in SnapshotRow
                     /\ Becomes(w, "observe", worker[w].run, c, row.ref, {})
           /\ UNCHANGED core /\ UNCHANGED retirer
<1>1. /\ TypeOK /\ worker[w].run \in Runs /\ worker[w].reuse \subseteq SnapshotRow
      /\ "prepare" \in Pcs /\ "observe" \in Pcs
  BY Typed DEF IInv, Pcs, RunnerReturns, WorkerState
<1>2. PICK c \in Commits :
         \/ worker' = [worker EXCEPT ![w].pc = "prepare", ![w].commit = c, ![w].reuse = {},
                                     ![w].ref = worker[w].run]
         \/ \E row \in worker[w].reuse :
              /\ row.commit = c
              /\ custody[row.ref] = NoIntent
              /\ archive[row.ref] = c
              /\ worker' = [worker EXCEPT ![w].pc = "observe", ![w].commit = c,
                                          ![w].reuse = {}, ![w].ref = row.ref]
  BY DEF RunnerReturns
<1>3. UNCHANGED core /\ UNCHANGED retirer
  BY DEF RunnerReturns, core, ledger, objects
<1>4. CASE worker' = [worker EXCEPT ![w].pc = "prepare", ![w].commit = c, ![w].reuse = {},
                                    ![w].ref = worker[w].run]
  <2>1. Becomes(w, "prepare", worker[w].run, c, worker[w].run, {})
    BY <1>1, <1>4, FillWorker
  <2> QED
    BY <1>3, <2>1
<1>5. ASSUME NEW row \in worker[w].reuse, row.commit = c, custody[row.ref] = NoIntent,
             archive[row.ref] = c,
             worker' = [worker EXCEPT ![w].pc = "observe", ![w].commit = c,
                                      ![w].reuse = {}, ![w].ref = row.ref]
      PROVE  /\ row \in SnapshotRow
             /\ Becomes(w, "observe", worker[w].run, c, row.ref, {})
  <2>1. row \in SnapshotRow /\ row.ref \in Runs
    BY <1>1 DEF SnapshotRow
  <2> QED
    BY <1>1, <1>5, <2>1, FillWorker
<1> QED
  BY <1>2, <1>3, <1>4, <1>5

(* The three steps of a put that its sender takes.                         *)
LEMMA PutSteps ==
    ASSUME IInv, NEW w \in Workers
    PROVE  /\ PreparePut(w) => Goes(w, "prepared") /\ Prepares(w) /\ UNCHANGED retirer
           /\ SendPut(w) => Goes(w, "sent") /\ Sends(w) /\ UNCHANGED retirer
           /\ ConfirmPut(w) => Goes(w, "observe") /\ Confirms(w) /\ UNCHANGED retirer
<1>1. TypeOK /\ worker[w] \in WorkerState /\ Informed(w)
  BY Typed DEF IInv, WorkInv
<1>2. ASSUME PreparePut(w) PROVE Goes(w, "prepared") /\ Prepares(w) /\ UNCHANGED retirer
  <2>1. Goes(w, "prepared")
    BY <1>1, <1>2, MoveWorker DEF PreparePut, Pcs
  <2>2. worker'[w] # worker[w]
    BY <1>2, <2>1 DEF Goes, Becomes, PreparePut
  <2>3. worker[w].run \in Runs /\ worker[w].commit \in Commits
    BY <1>1, <1>2 DEF Informed, PreparePut
  <2>4. [state |-> "prepared", commit |-> worker[w].commit] \in Intent
    BY <2>3 DEF Intent
  <2>5. Keyed(worker[w].run, archive[worker[w].run],
              [state |-> "prepared", commit |-> worker[w].commit])
    BY <1>1, <1>2, <2>3, <2>4, WriteKey DEF PreparePut
  <2> QED
    BY <1>2, <2>1, <2>2, <2>5 DEF PreparePut, Prepares
<1>3. ASSUME SendPut(w) PROVE Goes(w, "sent") /\ Sends(w) /\ UNCHANGED retirer
  <2>1. Goes(w, "sent")
    BY <1>1, <1>3, MoveWorker DEF SendPut, Pcs
  <2>2. worker'[w] # worker[w]
    BY <1>3, <2>1 DEF Goes, Becomes, SendPut
  <2>3. worker[w].run \in Runs /\ custody[worker[w].run].commit = worker[w].commit
    BY <1>1, <1>3 DEF Informed, SendPut
  <2>4. /\ [state |-> "sent", commit |-> worker[w].commit] \in Intent
        /\ custody' = [custody EXCEPT ![worker[w].run] =
                         [state |-> "sent", commit |-> worker[w].commit]]
    BY <1>1, <1>3, <2>3, WriteState DEF SendPut
  <2>5. Keyed(worker[w].run, archive[worker[w].run],
              [state |-> "sent", commit |-> worker[w].commit])
    BY <1>1, <1>3, <2>3, <2>4, WriteKey DEF SendPut
  <2> QED
    BY <1>3, <2>1, <2>2, <2>5 DEF SendPut, Sends
<1>4. ASSUME ConfirmPut(w) PROVE Goes(w, "observe") /\ Confirms(w) /\ UNCHANGED retirer
  <2>1. Goes(w, "observe")
    BY <1>1, <1>4, MoveWorker DEF ConfirmPut, Pcs
  <2>2. worker'[w] # worker[w]
    BY <1>4, <2>1 DEF Goes, Becomes, ConfirmPut
  <2>3. worker[w].run \in Runs /\ NoIntent \in Intent
    BY <1>1, <1>4 DEF Informed, ConfirmPut, NoIntent, Intent
  <2>4. Keyed(worker[w].run, archive[worker[w].run], NoIntent)
    BY <1>1, <1>4, <2>3, WriteKey DEF ConfirmPut
  <2> QED
    BY <1>4, <2>1, <2>2, <2>4 DEF ConfirmPut, Confirms
<1> QED
  BY <1>2, <1>3, <1>4

(* Steps that read the store, and leave it as it is.                       *)
LEMMA ReadSteps ==
    ASSUME IInv, NEW w \in Workers
    PROVE  /\ Throw(w) =>
                /\ worker[w].pc # "idle" /\ UNCHANGED core /\ UNCHANGED retirer
                /\ Becomes(w, "fail", worker[w].run, None, None, {})
           /\ Observe(w) =>
                /\ worker[w].pc = "observe" /\ UNCHANGED core /\ UNCHANGED retirer
                /\ Rests(w) \/ Goes(w, "commit")
           /\ CheckUnused(w) =>
                /\ worker[w].pc = "cleanup" /\ UNCHANGED core /\ UNCHANGED retirer
                /\ Rests(w) \/ (Goes(w, "unlink") /\ Unused(worker[w].run))
           /\ \A r \in Runs : Redeliver(w, r) =>
                /\ UNCHANGED core /\ UNCHANGED retirer /\ Unused(r)
                /\ Becomes(w, "unlink", r, worker[w].commit, worker[w].ref, worker[w].reuse)
           /\ Crash(w) => Rests(w) /\ UNCHANGED core /\ UNCHANGED retirer
<1>1. TypeOK /\ worker[w] \in WorkerState
  BY Typed DEF IInv
<1>2. {"fail", "commit", "unlink"} \subseteq Pcs
  BY DEF Pcs
<1>3. ASSUME Throw(w)
      PROVE  /\ worker[w].pc # "idle" /\ UNCHANGED core /\ UNCHANGED retirer
             /\ Becomes(w, "fail", worker[w].run, None, None, {})
  BY <1>1, <1>2, <1>3, MoveWorker DEF Throw, core, ledger, objects
<1>4. ASSUME Observe(w)
      PROVE  /\ worker[w].pc = "observe" /\ UNCHANGED core /\ UNCHANGED retirer
             /\ Rests(w) \/ Goes(w, "commit")
  <2>1. worker[w].pc = "observe" /\ UNCHANGED core /\ UNCHANGED retirer
    BY <1>4 DEF Observe, core, ledger, objects
  <2>2. CASE Return(w)
    BY <1>1, <1>2, <2>1, <2>2, MoveWorker
  <2>3. ASSUME NEW reuse \in BOOLEAN,
               worker' = [worker EXCEPT ![w].pc = "commit",
                   ![w].seen = {[latest |-> latest, reuse |-> reuse, source |-> source,
                                 capsule |-> capsule]}]
        PROVE  Goes(w, "commit")
    <3>1. PICK seen : seen = {[latest |-> latest, reuse |-> reuse, source |-> source,
                               capsule |-> capsule]}
      OBVIOUS
    <3>2. seen \in SUBSET Observation
      BY <1>1, <3>1, Typed DEF Observation, TypeOK
    <3>3. worker' = [worker EXCEPT ![w].pc = "commit", ![w].seen = seen]
      BY <2>3, <3>1
    <3>4. worker[w].run \in Runs
      BY <2>1, Typed
    <3> QED
      BY <1>1, <1>2, <3>2, <3>3, <3>4, FillWorker
  <2> QED
    BY <1>4, <2>1, <2>2, <2>3 DEF Observe
<1>5. ASSUME CheckUnused(w)
      PROVE  /\ worker[w].pc = "cleanup" /\ UNCHANGED core /\ UNCHANGED retirer
             /\ Rests(w) \/ (Goes(w, "unlink") /\ Unused(worker[w].run))
  BY <1>1, <1>2, <1>5, MoveWorker DEF CheckUnused, core, ledger, objects
<1>6. ASSUME NEW r \in Runs, Redeliver(w, r)
      PROVE  /\ UNCHANGED core /\ UNCHANGED retirer /\ Unused(r)
             /\ Becomes(w, "unlink", r, worker[w].commit, worker[w].ref, worker[w].reuse)
  BY <1>1, <1>2, <1>6, FillWorker DEF Redeliver, core, ledger, objects
<1>7. ASSUME Crash(w) PROVE Rests(w) /\ UNCHANGED core /\ UNCHANGED retirer
  BY <1>1, <1>2, <1>7, MoveWorker DEF Crash, core, ledger, objects
<1> QED
  BY <1>3, <1>4, <1>5, <1>6, <1>7

(* The failure of a run, under its lease.                                  *)
LEMMA FailStep ==
    ASSUME IInv, NEW w \in Workers, FailRun(w)
    PROVE  Rests(w) /\ CoreStep /\ UNCHANGED retirer
<1>1. TypeOK /\ worker[w].run \in Runs /\ "idle" \in Pcs
  BY Typed DEF IInv, FailRun, Pcs
<1>2. Rests(w) /\ UNCHANGED retirer /\ UNCHANGED ledger /\ UNCHANGED objects
  BY <1>1, MoveWorker DEF FailRun
<1>3. CASE Owns(w)
  <2>1. worker[w].run \in InFlight
    BY <1>1, <1>3 DEF Owns, InFlight
  <2>2. RunTo(worker[w].run, "failed", None)
    BY <1>1, <1>2, <1>3, WriteFailed DEF FailRun
  <2> QED
    BY <1>1, <1>2, <2>1, <2>2 DEF Fails, KeyStep, CoreStep
<1>4. CASE ~Owns(w)
  BY <1>2, <1>4 DEF FailRun, CoreStep, core, ledger, objects
<1> QED
  BY <1>3, <1>4

(* A delete, completed or interrupted.                                     *)
LEMMA DeleteKey ==
    ASSUME TypeOK, NEW r \in Runs, Deleted(r), UNCHANGED <<ledger, run>>
    PROVE  /\ \/ Keyed(r, None, NoIntent)
              \/ \E c \in {archive[r], None} :
                   Keyed(r, c, [state |-> "delete", commit |-> None])
           /\ custody[r] = NoIntent /\ UNCHANGED late
           /\ custody' = custody => archive' = [archive EXCEPT ![r] = None]
<1>1. custody[r] = NoIntent /\ UNCHANGED late
  BY DEF Deleted
<1>2. CASE archive' = [archive EXCEPT ![r] = None] /\ UNCHANGED custody
  <2>1. Keyed(r, None, custody[r])
    BY <1>2, WriteKey DEF TypeOK
  <2> QED
    BY <1>1, <1>2, <2>1
<1>3. CASE /\ custody' = [custody EXCEPT ![r].state = "delete"]
           /\ archive' \in {archive, [archive EXCEPT ![r] = None]}
  <2>1. PICK i : i = [state |-> "delete", commit |-> None]
    OBVIOUS
  <2>2. i \in Intent /\ custody' = [custody EXCEPT ![r] = i]
    <3>1. i = [state |-> "delete", commit |-> custody[r].commit]
      BY <1>1, <2>1 DEF NoIntent
    <3>2. i \in Intent /\ [custody EXCEPT ![r].state = "delete"] = [custody EXCEPT ![r] = i]
      BY <3>1, WriteState
    <3> QED
      BY <1>3, <3>2
  <2>3. Keyed(r, archive[r], i) \/ Keyed(r, None, i)
    BY <1>3, <2>2, WriteKey
  <2>4. custody' # custody
    BY <1>1, <2>1, <2>2 DEF TypeOK, NoIntent
  <2> QED
    BY <1>1, <2>1, <2>3, <2>4
<1> QED
  BY <1>2, <1>3 DEF Deleted

(* The cleanup of a merged archive.                                        *)
LEMMA UnlinkStep ==
    ASSUME IInv, NEW w \in Workers, Unlink(w)
    PROVE  Rests(w) /\ CoreStep /\ UNCHANGED retirer
<1>1. TypeOK /\ worker[w].run \in Runs /\ "idle" \in Pcs
  BY Typed DEF IInv, Unlink, Pcs
<1>2. Rests(w) /\ UNCHANGED retirer /\ UNCHANGED <<ledger, run>>
  BY <1>1, MoveWorker DEF Unlink
<1>3. CASE Deleted(worker[w].run)
  <2>1. Deletes(worker[w].run)
    BY <1>1, <1>2, <1>3, DeleteKey DEF Deletes, Unlink
  <2> QED
    BY <1>1, <1>2, <2>1 DEF KeyStep, CoreStep
<1>4. CASE UNCHANGED objects
  BY <1>2, <1>4 DEF CoreStep, core, ledger, objects
<1> QED
  BY <1>3, <1>4 DEF Unlink

(* What a settlement writes.                                               *)
LEMMA SettleWrites ==
    ASSUME IInv, NEW w \in Workers, NEW seen, worker[w].pc = "commit", Owns(w),
           CommitSuccess(w, seen), UNCHANGED objects, worker'[w] # worker[w]
    PROVE  Merges(w) \/ Adds(w)
<1>1. /\ TypeOK /\ worker[w].run \in Runs /\ worker[w].commit \in Commits
      /\ worker[w].ref \in Runs
  BY DEF IInv, WorkInv, Informed
<1>2. PICK r \in Runs : r = worker[w].run
  BY <1>1
<1>3. PICK c \in Commits : c = worker[w].commit
  BY <1>1
<1>4. PICK row : row = [status |-> "succeeded", lease |-> None,
                        snapshot |-> IF seen.reuse THEN latest ELSE r]
  OBVIOUS
<1>5. row \in RunRow /\ run' = [run EXCEPT ![r] = row]
  BY <1>2, <1>4, Typed DEF RunRow, CommitSuccess
<1>6. RunTo(r, "succeeded", None)
  BY <1>1, <1>4, <1>5, WriteRun
<1>7. source' \in SourceRow /\ source'.status = source.status
  <2>1. source' = [status |-> source.status, seen |-> c, counted |-> source.counted]
    BY <1>1, <1>3 DEF CommitSuccess, TypeOK, SourceRow
  <2> QED
    BY <1>1, <2>1 DEF TypeOK, SourceRow
<1>8. /\ capsule' \in CapsuleRow
      /\ capsule.status = "destroyed" => capsule'.status = "destroyed"
  <2>1. capsule' = capsule \/ (/\ capsule.status # "destroyed"
                               /\ capsule' = [capsule EXCEPT !.status = "stale"])
    BY DEF CommitSuccess, Settled
  <2>2. [capsule EXCEPT !.status = "stale"] \in CapsuleRow
    BY <1>1 DEF TypeOK, CapsuleRow
  <2> QED
    BY <1>1, <2>1, <2>2 DEF TypeOK
<1>9. Settles(w)
  BY <1>2, <1>6, <1>7, <1>8 DEF Settles
<1>10. CASE seen.reuse
  BY <1>9, <1>10 DEF CommitSuccess, Merges
<1>11. CASE ~seen.reuse
  <2>1. PICK made : made = [commit |-> c, ref |-> worker[w].ref]
    OBVIOUS
  <2>2. made \in SnapshotRow
    BY <1>1, <2>1 DEF SnapshotRow
  <2>3. snapshot' = [snapshot EXCEPT ![r] = {made}] /\ latest' \in {r, latest} \ {None}
    BY <1>2, <1>3, <1>11, <2>1 DEF CommitSuccess
  <2>4. /\ snapshot' \in [Runs -> {{}} \cup {{x} : x \in SnapshotRow}]
        /\ \A q \in Runs \ {r} : snapshot'[q] = snapshot[q]
        /\ snapshot'[r] = {made}
    BY <1>1, <2>2, <2>3 DEF TypeOK
  <2> QED
    BY <1>2, <1>3, <1>9, <2>1, <2>3, <2>4 DEF Adds
<1> QED
  BY <1>10, <1>11

(* The settlement of a run.                                                *)
LEMMA SettleStep ==
    ASSUME IInv, NEW w \in Workers, Settle(w)
    PROVE  /\ \/ UNCHANGED core /\ Goes(w, "observe")
              \/ UNCHANGED core /\ Becomes(w, "fail", worker[w].run, None, None, {})
              \/ UNCHANGED core /\ Rests(w)
              \/ /\ Merges(w) \/ Adds(w)
                 /\ Rests(w) \/ Becomes(w, "cleanup", worker[w].run, None, None, {})
           /\ worker[w].pc = "commit"
           /\ UNCHANGED retirer
<1>1. /\ TypeOK /\ worker[w].run \in Runs /\ {"observe", "fail", "cleanup"} \subseteq Pcs
      /\ worker[w].pc = "commit"
  BY Typed DEF IInv, Settle, Pcs
<1>2. UNCHANGED retirer /\ UNCHANGED objects
  BY DEF Settle
<1>3. PICK seen \in worker[w].seen :
         \/ /\ ~Owns(w)
            /\ Return(w)
            /\ UNCHANGED <<source, capsule, snapshot, latest, run>>
         \/ /\ Owns(w)
            /\ seen.latest # latest \/ seen.source # source \/ seen.capsule # capsule
            /\ worker' = IF seen.latest # latest /\ ~worker[w].retried
                         THEN [worker EXCEPT ![w].pc = "observe", ![w].seen = {},
                                             ![w].retried = TRUE]
                         ELSE OnlyRun(w, "fail")
            /\ UNCHANGED <<source, capsule, snapshot, latest, run>>
         \/ /\ Owns(w)
            /\ seen.latest = latest /\ seen.source = source /\ seen.capsule = capsule
            /\ CommitSuccess(w, seen)
            /\ worker' = IF worker[w].ref = worker[w].run
                         THEN OnlyRun(w, "cleanup")
                         ELSE [worker EXCEPT ![w] = Idle]
  BY DEF Settle
<1>4. UNCHANGED <<source, capsule, snapshot, latest, run>> => UNCHANGED core
  BY <1>2 DEF core, objects
<1>5. Return(w) => Rests(w)
  BY <1>1, MoveWorker
<1>6. worker' = [worker EXCEPT ![w].pc = "observe", ![w].seen = {}, ![w].retried = TRUE] =>
        Goes(w, "observe")
  BY <1>1, FillWorker
<1>7. /\ worker' = OnlyRun(w, "fail") =>
           Becomes(w, "fail", worker[w].run, None, None, {})
      /\ worker' = OnlyRun(w, "cleanup") =>
           Becomes(w, "cleanup", worker[w].run, None, None, {})
  BY <1>1, MoveWorker
<1>8. CASE ~Owns(w) /\ Return(w) /\ UNCHANGED <<source, capsule, snapshot, latest, run>>
  BY <1>1, <1>2, <1>4, <1>5, <1>8
<1>9. CASE /\ worker' = IF seen.latest # latest /\ ~worker[w].retried
                        THEN [worker EXCEPT ![w].pc = "observe", ![w].seen = {},
                                            ![w].retried = TRUE]
                        ELSE OnlyRun(w, "fail")
           /\ UNCHANGED <<source, capsule, snapshot, latest, run>>
  BY <1>1, <1>2, <1>4, <1>6, <1>7, <1>9
<1>10. CASE /\ Owns(w)
            /\ CommitSuccess(w, seen)
            /\ worker' = IF worker[w].ref = worker[w].run
                         THEN OnlyRun(w, "cleanup")
                         ELSE [worker EXCEPT ![w] = Idle]
  <2>1. Rests(w) \/ Becomes(w, "cleanup", worker[w].run, None, None, {})
    BY <1>5, <1>7, <1>10 DEF Return
  <2>2. worker'[w] # worker[w]
    BY <1>1, <2>1 DEF Rests, Becomes
  <2> QED
    BY <1>1, <1>2, <1>10, <2>1, <2>2, SettleWrites
<1> QED
  BY <1>3, <1>8, <1>9, <1>10

(* The counts of a Source are numbers, as its runs are finitely many.      *)
LEMMA CountedTyped ==
    ASSUME IInv
    PROVE  Counted \in [snapshots: Nat, runs: Nat]
<1>1. IsFiniteSet(Stored) /\ Snapshots \subseteq Stored
  BY DEF IInv, SnapInv, Stored, Snapshots
<1>2. IsFiniteSet(Snapshots)
  BY <1>1, FS_Subset
<1>3. Cardinality(Stored) \in Nat /\ Cardinality(Snapshots) \in Nat
  BY <1>1, <1>2, FS_CardinalityType
<1> QED
  BY <1>3 DEF Counted

(* The steps of a retirement, and what it remembers after each.            *)
Advances(t) ==
    \/ Clearing(t, "idle", {}, {}) /\ CoreStep
    \/ /\ Marks
       /\ capsule.status = "destroyed"
       /\ Clearing(t, "check", {source'}, retirer[t].todo)
    \/ /\ retirer[t].pc = "check"
       /\ InFlight = {}
       /\ Clearing(t, "count", retirer[t].row, retirer[t].todo)
       /\ UNCHANGED core
    \/ /\ retirer[t].pc = "count"
       /\ \/ UNCHANGED core /\ Clearing(t, "delete", retirer[t].row, ArchiveRefs)
          \/ Marks /\ Clearing(t, "delete", {source'}, ArchiveRefs)
    \/ /\ retirer[t].pc = "delete"
       /\ \E r \in Runs :
            /\ Clearing(t, "delete", retirer[t].row, retirer[t].todo \ {r})
            /\ archive'[r] = None
            /\ UNCHANGED core \/ Deletes(r)

(* The marker, the check and the counts of a retirement.                   *)
LEMMA MarkSteps ==
    ASSUME IInv, NEW t \in Retirers, MarkRetiring(t) \/ CheckInFlight(t) \/ CountRows(t)
    PROVE  Advances(t) /\ UNCHANGED worker
<1>1. TypeOK /\ source \in SourceRow /\ retirer[t] \in RetirerState
  BY DEF IInv, TypeOK
<1>2. /\ retirer[t].row \subseteq SourceRow /\ retirer[t].todo \subseteq Runs
      /\ \A row \in retirer[t].row : row.status = "retiring"
  BY <1>1 DEF RetirerState, IInv, RetireInv, Clears
<1>3. CASE MarkRetiring(t)
  <2>1. source' = [status |-> "retiring", seen |-> source.seen, counted |-> source.counted]
    BY <1>1, <1>3 DEF MarkRetiring, SourceRow
  <2>2. source' \in SourceRow /\ source'.status = "retiring"
    BY <1>1, <2>1 DEF SourceRow
  <2>3. PICK row : row = {source'}
    OBVIOUS
  <2>4. row \in SUBSET SourceRow
    BY <2>2, <2>3
  <2>5. retirer' = [retirer EXCEPT ![t].pc = "check", ![t].row = row]
    BY <1>3, <2>3 DEF MarkRetiring
  <2>6. Clearing(t, "check", row, retirer[t].todo)
    BY <1>1, <1>2, <2>4, <2>5, MoveRetirer
  <2>7. Marks
    BY <1>3, <2>2 DEF Marks, MarkRetiring
  <2> QED
    BY <1>3, <2>3, <2>6, <2>7 DEF Advances, MarkRetiring
<1>4. CASE CheckInFlight(t)
  <2>1. UNCHANGED core /\ UNCHANGED worker /\ retirer[t].pc = "check"
    BY <1>4 DEF CheckInFlight, core, ledger, objects
  <2>2. CASE Defer(t)
    BY <1>1, <1>2, <2>1, <2>2, MoveRetirer DEF Advances, CoreStep
  <2>3. CASE InFlight = {} /\ retirer' = [retirer EXCEPT ![t].pc = "count"]
    BY <1>1, <1>2, <2>1, <2>3, MoveRetirer DEF Advances
  <2> QED
    BY <1>4, <2>2, <2>3 DEF CheckInFlight, Busy
<1>5. CASE CountRows(t)
  <2>1. /\ UNCHANGED <<capsule, snapshot, latest, run, objects>> /\ UNCHANGED worker
        /\ retirer[t].pc = "count"
    BY <1>5 DEF CountRows
  <2>2. ArchiveRefs \subseteq Runs
    BY <1>1, RowOfSnapshot DEF ArchiveRefs, Stored, SnapshotRow
  <2>3. PICK row \in retirer[t].row :
         IF row.counted = Counted
         THEN /\ retirer' = [retirer EXCEPT ![t].pc = "delete", ![t].todo = ArchiveRefs]
              /\ UNCHANGED source
         ELSE IF row = source
         THEN /\ source' = [source EXCEPT !.counted = Counted]
              /\ retirer' = [retirer EXCEPT ![t] = [pc |-> "delete", row |-> {source'},
                                                    todo |-> ArchiveRefs]]
         ELSE Defer(t) /\ UNCHANGED source
    BY <1>5 DEF CountRows
  <2>4. UNCHANGED source => UNCHANGED core
    BY <2>1 DEF core, objects
  <2>5. CASE /\ retirer' = [retirer EXCEPT ![t].pc = "delete", ![t].todo = ArchiveRefs]
             /\ UNCHANGED source
    <3>1. Clearing(t, "delete", retirer[t].row, ArchiveRefs)
      BY <1>1, <1>2, <2>2, <2>5, MoveRetirer
    <3> QED
      BY <2>1, <2>4, <2>5, <3>1 DEF Advances
  <2>6. CASE /\ row = source
             /\ source' = [source EXCEPT !.counted = Counted]
             /\ retirer' = [retirer EXCEPT ![t] = [pc |-> "delete", row |-> {source'},
                                                   todo |-> ArchiveRefs]]
    <3>1. source' = [status |-> source.status, seen |-> source.seen, counted |-> Counted]
      BY <1>1, <2>6 DEF SourceRow
    <3>2. source' \in SourceRow /\ source'.status = "retiring" /\ source.status = "retiring"
      BY <1>1, <1>2, <2>6, <3>1, CountedTyped DEF SourceRow
    <3>3. PICK rows : rows = {source'}
      OBVIOUS
    <3>4. rows \in SUBSET SourceRow
      BY <3>2, <3>3
    <3>5. Clearing(t, "delete", rows, ArchiveRefs)
      BY <1>1, <2>2, <2>6, <3>3, <3>4, MoveRetirer
    <3>6. Marks
      BY <2>1, <3>2 DEF Marks
    <3> QED
      BY <2>1, <3>3, <3>5, <3>6 DEF Advances
  <2>7. CASE Defer(t) /\ UNCHANGED source
    BY <1>1, <1>2, <2>1, <2>4, <2>7, MoveRetirer DEF Advances, CoreStep
  <2> QED
    BY <2>3, <2>5, <2>6, <2>7
<1> QED
  BY <1>3, <1>4, <1>5

(* The deletions, the removal of the rows, and the death of a retirement.  *)
LEMMA ClearSteps ==
    ASSUME IInv, NEW t \in Retirers,
           DeleteArchive(t) \/ RetireSource(t) \/ CrashRetirer(t)
    PROVE  Advances(t) /\ UNCHANGED worker
<1>1. TypeOK /\ retirer[t] \in RetirerState
  BY DEF IInv, TypeOK
<1>2. /\ retirer[t].row \subseteq SourceRow /\ retirer[t].todo \subseteq Runs
      /\ Defer(t) => Clearing(t, "idle", {}, {})
  BY <1>1, MoveRetirer DEF RetirerState
<1>3. CASE DeleteArchive(t)
  <2>1. UNCHANGED <<ledger, run>> /\ UNCHANGED worker /\ retirer[t].pc = "delete"
    BY <1>3 DEF DeleteArchive
  <2>2. UNCHANGED objects => UNCHANGED core
    BY <2>1 DEF core, ledger, objects
  <2>3. CASE Defer(t) /\ UNCHANGED objects
    BY <1>2, <2>1, <2>2, <2>3 DEF Advances, CoreStep
  <2>4. ASSUME NEW r \in retirer[t].todo, archive[r] = None, UNCHANGED objects,
               retirer' = [retirer EXCEPT ![t].todo = retirer[t].todo \ {r}]
        PROVE  Advances(t)
    <3>1. PICK rest : rest = retirer[t].todo \ {r}
      OBVIOUS
    <3>2. rest \in SUBSET Runs
      BY <1>2, <3>1
    <3>3. Clearing(t, retirer[t].pc, retirer[t].row, rest)
      BY <1>1, <1>2, <2>4, <3>1, <3>2, MoveRetirer
    <3>4. archive'[r] = None /\ r \in Runs
      BY <1>2, <2>4 DEF objects
    <3> QED
      BY <2>1, <2>2, <2>4, <3>1, <3>3, <3>4 DEF Advances
  <2>5. ASSUME NEW r \in retirer[t].todo, archive[r] # None, Deleted(r),
               DeletionAdmitted,
               IF custody' = custody
               THEN retirer' = [retirer EXCEPT ![t].todo = retirer[t].todo \ {r}]
               ELSE Defer(t)
        PROVE  Advances(t)
    <3>1. r \in Runs
      BY <1>2
    <3>2. Deletes(r) /\ (custody' = custody => archive' = [archive EXCEPT ![r] = None])
      BY <1>1, <2>1, <2>5, <3>1, DeleteKey DEF Deletes, DeletionAdmitted
    <3>3. CoreStep
      BY <3>1, <3>2 DEF CoreStep, KeyStep
    <3>4. CASE Defer(t)
      BY <1>2, <3>3, <3>4 DEF Advances
    <3>5. CASE /\ custody' = custody
               /\ retirer' = [retirer EXCEPT ![t].todo = retirer[t].todo \ {r}]
      <4>1. PICK rest : rest = retirer[t].todo \ {r}
        OBVIOUS
      <4>2. rest \in SUBSET Runs
        BY <1>2, <4>1
      <4>3. Clearing(t, retirer[t].pc, retirer[t].row, rest)
        BY <1>1, <1>2, <3>5, <4>1, <4>2, MoveRetirer
      <4>4. archive'[r] = None
        BY <1>1, <3>1, <3>2, <3>5 DEF TypeOK
      <4> QED
        BY <2>1, <3>1, <3>2, <4>1, <4>3, <4>4 DEF Advances
    <3> QED
      BY <2>5, <3>4, <3>5
  <2> QED
    BY <1>3, <2>1, <2>3, <2>4, <2>5 DEF DeleteArchive
<1>4. CASE RetireSource(t)
  <2>1. /\ UNCHANGED <<capsule, others, run, objects>> /\ UNCHANGED worker
        /\ retirer[t].pc = "delete" /\ retirer[t].todo = {} /\ Defer(t)
    BY <1>4 DEF RetireSource
  <2>2. CASE UNCHANGED <<source, snapshot, latest>>
    <3>1. UNCHANGED core
      BY <2>1, <2>2 DEF core, objects
    <3> QED
      BY <1>2, <2>1, <3>1 DEF Advances, CoreStep
  <2>3. CASE /\ capsule.status = "destroyed" /\ ~Busy
             /\ source' = [status |-> "gone", seen |-> None, counted |-> NoCount]
             /\ snapshot' = [s \in Runs |-> {}]
             /\ latest' = None
    <3>1. source' \in SourceRow /\ source'.status = "gone"
      BY <2>3 DEF SourceRow, NoCount
    <3>2. InFlight = {} /\ others = 0
      BY <1>1, <2>3, SourceConstants DEF Busy, TypeOK
    <3>3. Retires(t)
      BY <2>1, <2>3, <3>1, <3>2 DEF Retires
    <3> QED
      BY <1>2, <2>1, <3>3 DEF Advances, CoreStep
  <2> QED
    BY <1>4, <2>2, <2>3 DEF RetireSource
<1>5. CASE CrashRetirer(t)
  <2>1. UNCHANGED core /\ UNCHANGED worker /\ Defer(t)
    BY <1>5 DEF CrashRetirer, core, ledger, objects
  <2> QED
    BY <1>2, <2>1 DEF Advances, CoreStep
<1> QED
  BY <1>3, <1>4, <1>5

-----------------------------------------------------------------------------
(* What the steps preserve of the stored state.                            *)

(* A consumer writes, or it only reads.                                    *)
LEMMA ConsumerCore ==
    ASSUME IInv, NEW w \in Workers,
           Consumer(w) \/ Crash(w) \/ \E r \in Runs : Redeliver(w, r)
    PROVE  CoreStep /\ UNCHANGED retirer
<1>1. ASSUME NEW r \in Runs, Claim(w, r) PROVE CoreStep /\ UNCHANGED retirer
  BY <1>1, ClaimStep DEF CoreStep, WriteStep
<1>2. CASE Dispatch(w) \/ RunnerReturns(w)
  BY <1>2, DispatchStep, ReturnStep DEF CoreStep
<1>3. CASE PreparePut(w) \/ SendPut(w) \/ ConfirmPut(w)
  BY <1>3, PutSteps DEF CoreStep, WriteStep
<1>4. CASE Throw(w) \/ Observe(w) \/ CheckUnused(w) \/ Crash(w)
  BY <1>4, ReadSteps DEF CoreStep
<1>5. ASSUME NEW r \in Runs, Redeliver(w, r) PROVE CoreStep /\ UNCHANGED retirer
  BY <1>5, ReadSteps DEF CoreStep
<1>6. CASE Settle(w)
  BY <1>6, SettleStep DEF CoreStep, WriteStep
<1>7. CASE FailRun(w) \/ Unlink(w)
  BY <1>7, FailStep, UnlinkStep
<1> QED
  BY <1>1, <1>2, <1>3, <1>4, <1>5, <1>6, <1>7 DEF Consumer

(* A retirement advances, and leaves the consumers alone.                  *)
LEMMA RetirerCore ==
    ASSUME IInv, NEW t \in Retirers, Retirement(t) \/ CrashRetirer(t)
    PROVE  Advances(t) /\ CoreStep /\ UNCHANGED worker
<1>1. Advances(t) /\ UNCHANGED worker
  BY MarkSteps, ClearSteps DEF Retirement
<1>2. CoreStep
  BY <1>1 DEF Advances, CoreStep, KeyStep
<1> QED
  BY <1>1, <1>2

(* Every step is one of the steps above.                                   *)
LEMMA NextCore ==
    ASSUME IInv, [Next]_vars
    PROVE  /\ CoreStep
           /\ \/ UNCHANGED <<worker, retirer>>
              \/ \E w \in Workers :
                   /\ Consumer(w) \/ Crash(w) \/ \E r \in Runs : Redeliver(w, r)
                   /\ UNCHANGED retirer
              \/ \E t \in Retirers : Advances(t) /\ UNCHANGED worker
<1>1. CASE UNCHANGED vars
  BY <1>1 DEF vars, CoreStep, core
<1>2. ASSUME NEW r \in Runs, Api(r) PROVE CoreStep /\ UNCHANGED <<worker, retirer>>
  BY <1>2, ApiSteps
<1>3. CASE Destroy \/ OtherRunBegins \/ OtherRunEnds
  BY <1>3, DestroyStep, OtherRunSteps
<1>4. ASSUME NEW w \in Workers,
             Consumer(w) \/ Crash(w) \/ \E r \in Runs : Redeliver(w, r)
      PROVE  CoreStep /\ UNCHANGED retirer
  BY <1>4, ConsumerCore
<1>5. ASSUME NEW t \in Retirers, Retirement(t) \/ CrashRetirer(t)
      PROVE  Advances(t) /\ CoreStep /\ UNCHANGED worker
  BY <1>5, RetirerCore
<1> QED
  BY <1>1, <1>2, <1>3, <1>4, <1>5 DEF Next

(* The lease column of a run is set while the run is running.              *)
LeaseTyped == \A r \in Runs : run[r].status = "running" <=> run[r].lease # None

(* The stored part of the type invariant.                                  *)
CoreTyped ==
    /\ source \in SourceRow
    /\ capsule \in CapsuleRow
    /\ run \in [Runs -> RunRow]
    /\ snapshot \in [Runs -> {{}} \cup {{row} : row \in SnapshotRow}]
    /\ latest \in Snapshots \cup {None}
    /\ archive \in [Runs -> Commits \cup {None}]
    /\ custody \in [Runs -> Intent]
    /\ late \subseteq Runs

(* The stored state keeps its types.                                       *)
LEMMA CoreTypedStep ==
    ASSUME IInv, CoreStep
    PROVE  CoreTyped'
<1>1. CoreTyped
  BY DEF IInv, TypeOK, CoreTyped
<1>2. CASE UNCHANGED core \/ Turns \/ Marks
  BY <1>1, <1>2 DEF core, Turns, Marks, objects, CoreTyped, Snapshots
<1>3. ASSUME NEW r \in Runs, KeyStep(r) PROVE CoreTyped'
  <2>1. CASE Begins(r) \/ Fails(r)
    BY <1>1, <2>1 DEF Begins, Fails, RunTo, ledger, objects, CoreTyped, Snapshots
  <2>2. CASE Lands(r) \/ Deletes(r)
    BY <1>1, <2>2 DEF Lands, Deletes, Keyed, ledger, CoreTyped, Snapshots
  <2> QED
    BY <1>3, <2>1, <2>2 DEF KeyStep
<1>4. ASSUME NEW w \in Workers, WriteStep(w) PROVE CoreTyped'
  <2>1. ASSUME NEW r \in Runs, Claims(w, r) PROVE CoreTyped'
    BY <1>1, <2>1 DEF Claims, RunTo, ledger, objects, CoreTyped, Snapshots
  <2>2. CASE Prepares(w) \/ Sends(w) \/ Confirms(w)
    BY <1>1, <2>2 DEF Prepares, Sends, Confirms, Keyed, ledger, CoreTyped, Snapshots
  <2>3. CASE Merges(w)
    BY <1>1, <2>3 DEF Merges, Settles, RunTo, objects, CoreTyped, Snapshots
  <2>4. CASE Adds(w)
    <3>1. worker[w].run \in Runs
      BY <2>4, Typed DEF Adds, Settles
    <3>2. latest' \in Snapshots' \cup {None}
      BY <1>1, <2>4, <3>1 DEF Adds, CoreTyped, Snapshots
    <3> QED
      BY <1>1, <2>4, <3>2 DEF Adds, Settles, RunTo, objects, CoreTyped
  <2> QED
    BY <1>4, <2>1, <2>2, <2>3, <2>4 DEF WriteStep
<1>5. ASSUME NEW t \in Retirers, Retires(t) PROVE CoreTyped'
  BY <1>1, <1>5 DEF Retires, objects, CoreTyped
<1> QED
  BY <1>2, <1>3, <1>4, <1>5 DEF CoreStep

(* Every write of a run sets or clears the lease with the status.          *)
LEMMA LeaseTypedStep ==
    ASSUME IInv, CoreStep
    PROVE  LeaseTyped'
<1>1. LeaseTyped
  BY DEF IInv, TypeOK, LeaseTyped
<1>2. CASE UNCHANGED run
  BY <1>1, <1>2 DEF LeaseTyped
<1>3. ASSUME NEW r \in Runs, NEW status, NEW lease, RunTo(r, status, lease),
             status = "running" <=> lease # None
      PROVE  LeaseTyped'
  BY <1>1, <1>3 DEF RunTo, LeaseTyped
<1>4. ASSUME NEW r \in Runs, Begins(r) \/ Fails(r) PROVE LeaseTyped'
  <2>1. CASE Begins(r)
    <3>1. RunTo(r, "queued", run[r].lease) /\ run[r].lease = None
      BY <1>1, <2>1 DEF Begins, LeaseTyped
    <3> QED
      BY <1>3, <3>1
  <2>2. CASE Fails(r)
    <3>1. RunTo(r, "failed", None)
      BY <2>2 DEF Fails
    <3> QED
      BY <1>3, <3>1
  <2> QED
    BY <1>4, <2>1, <2>2
<1>5. ASSUME NEW w \in Workers, NEW r \in Runs, Claims(w, r) PROVE LeaseTyped'
  <2>1. RunTo(r, "running", w) /\ w # None
    BY <1>5, SourceConstants DEF Claims
  <2> QED
    BY <1>3, <2>1
<1>6. ASSUME NEW w \in Workers, Settles(w) PROVE LeaseTyped'
  <2>1. worker[w].run \in Runs /\ RunTo(worker[w].run, "succeeded", None)
    BY <1>6, Typed DEF Settles
  <2> QED
    BY <1>3, <2>1
<1>7. \A r \in Runs : KeyStep(r) => UNCHANGED run \/ Begins(r) \/ Fails(r)
  BY DEF KeyStep, Lands, Deletes, Keyed
<1>8. \A w \in Workers : WriteStep(w) =>
        UNCHANGED run \/ Settles(w) \/ \E r \in Runs : Claims(w, r)
  BY DEF WriteStep, Prepares, Sends, Confirms, Keyed, Merges, Adds
<1>9. UNCHANGED core \/ Turns \/ Marks \/ (\E t \in Retirers : Retires(t)) => UNCHANGED run
  BY DEF core, Turns, Marks, Retires
<1> QED
  BY <1>2, <1>4, <1>5, <1>6, <1>7, <1>8, <1>9 DEF CoreStep

(* A snapshot of the next state was there before, or a settlement adds it: *)
(* it names the archive of its own run, or the one of a stored snapshot.   *)
LEMMA SnapshotSource ==
    ASSUME IInv, CoreStep, NEW s \in Snapshots'
    PROVE  \/ s \in Snapshots /\ Row(s)' = Row(s)
           \/ \E w \in Workers :
                /\ Adds(w)
                /\ s = worker[w].run
                /\ \/ \E u \in Snapshots : Row(u) = Row(s)'
                   \/ Row(s)' = [commit |-> worker[w].commit, ref |-> s]
<1>1. s \in Runs /\ snapshot'[s] # {} /\ TypeOK
  BY DEF Snapshots, IInv
<1>2. CASE snapshot'[s] = snapshot[s]
  BY <1>1, <1>2 DEF Snapshots, Row
<1>3. CASE snapshot'[s] # snapshot[s]
  <2>1. PICK w \in Workers : Adds(w) /\ s = worker[w].run
    <3>1. /\ \A r \in Runs : KeyStep(r) => snapshot' = snapshot
          /\ \A t \in Retirers : Retires(t) => snapshot'[s] = {}
          /\ UNCHANGED core \/ Turns \/ Marks => snapshot' = snapshot
      BY <1>1 DEF KeyStep, Begins, Fails, Lands, Deletes, Keyed, ledger, Retires, core,
             Turns, Marks
    <3>2. \A w \in Workers : WriteStep(w) => snapshot' = snapshot \/ Adds(w)
      BY DEF WriteStep, Claims, Prepares, Sends, Confirms, Keyed, ledger, Merges
    <3>3. \A w \in Workers : Adds(w) => s = worker[w].run
      BY <1>1, <1>3 DEF Adds
    <3> QED
      BY <1>1, <1>3, <3>1, <3>2, <3>3 DEF CoreStep
  <2>2. /\ worker[w].pc = "commit" /\ Owns(w)
        /\ snapshot'[s] = {[commit |-> worker[w].commit, ref |-> worker[w].ref]}
    BY <2>1 DEF Adds, Settles
  <2>3. Row(s)' = [commit |-> worker[w].commit, ref |-> worker[w].ref]
    BY <2>2 DEF Row
  <2>4. CASE worker[w].ref = s
    BY <2>1, <2>3, <2>4
  <2>5. CASE worker[w].ref # s
    <3>1. Kept([commit |-> worker[w].commit, ref |-> worker[w].ref])
      BY <2>1, <2>2, <2>5 DEF IInv, WorkInv, Informed
    <3>2. source.status # "gone"
      BY <1>1, <2>1, <2>2 DEF IInv, RetiredIsClean, Busy, InFlight, Owns
    <3>3. PICK u \in Runs :
            snapshot[u] = {[commit |-> worker[w].commit, ref |-> worker[w].ref]}
      BY <3>1, <3>2 DEF Kept
    <3>4. u \in Snapshots /\ Row(u) = Row(s)'
      BY <1>1, <2>3, <3>3, SnapshotOfRow
    <3> QED
      BY <2>1, <3>4
  <2> QED
    BY <2>4, <2>5
<1> QED
  BY <1>2, <1>3

(* How the rows of the runs evolve: one that exists stays, one that is     *)
(* over does not change, and one in flight comes from one that was, or     *)
(* from an active Source.                                                  *)
LEMMA RunSteps ==
    ASSUME IInv, CoreStep
    PROVE  /\ \A r \in Runs :
                /\ run[r].status # "none" => run'[r].status # "none"
                /\ run[r].status = "succeeded" => run'[r].status = "succeeded"
                /\ run'[r].status \in {"queued", "running"} /\ source.status # "active"
                     => run[r].status \in {"queued", "running"}
           /\ UNCHANGED run \/ \E r \in Runs : \A q \in Runs \ {r} : run'[q] = run[q]
<1>1. run \in [Runs -> RunRow]
  BY DEF IInv, TypeOK
<1>2. CASE UNCHANGED run
  BY <1>2
<1>3. ASSUME NEW r \in Runs, Begins(r) \/ Fails(r)
      PROVE  /\ \A q \in Runs \ {r} : run'[q] = run[q]
             /\ run'[r].status \in {"queued", "failed"} /\ run[r].status # "succeeded"
             /\ run'[r].status = "queued" => source.status = "active"
  BY <1>3 DEF Begins, Fails, RunTo, InFlight
<1>4. ASSUME NEW r \in Runs, Lands(r) \/ Deletes(r) PROVE UNCHANGED run
  BY <1>4 DEF Lands, Deletes, Keyed
<1>5. ASSUME NEW w \in Workers, NEW r \in Runs, Claims(w, r)
      PROVE  /\ \A q \in Runs \ {r} : run'[q] = run[q]
             /\ run'[r].status = "running" /\ run[r].status \in {"queued", "running"}
  BY <1>5 DEF Claims, RunTo, InFlight
<1>6. ASSUME NEW w \in Workers, Prepares(w) \/ Sends(w) \/ Confirms(w) PROVE UNCHANGED run
  BY <1>6 DEF Prepares, Sends, Confirms, Keyed
<1>7. ASSUME NEW w \in Workers, Merges(w) \/ Adds(w)
      PROVE  \E r \in Runs : /\ \A q \in Runs \ {r} : run'[q] = run[q]
                             /\ run'[r].status = "succeeded"
  BY <1>7, Typed DEF Merges, Adds, Settles, RunTo
<1>8. CASE UNCHANGED core \/ Turns \/ Marks \/ \E t \in Retirers : Retires(t)
  BY <1>8 DEF core, Turns, Marks, Retires
<1>9. ASSUME NEW r \in Runs, KeyStep(r)
      PROVE  UNCHANGED run \/ Begins(r) \/ Fails(r)
  BY <1>4, <1>9 DEF KeyStep
<1>10. ASSUME NEW w \in Workers, WriteStep(w)
       PROVE  UNCHANGED run \/ (\E r \in Runs : Claims(w, r)) \/ Merges(w) \/ Adds(w)
  BY <1>6, <1>10 DEF WriteStep
<1> QED
  BY <1>2, <1>3, <1>5, <1>7, <1>8, <1>9, <1>10 DEF CoreStep

(* Who writes under a key: the object store, a deletion, or the consumer   *)
(* that puts the archive of its run.                                       *)
LEMMA KeySource ==
    ASSUME CoreStep, NEW r \in Runs,
           ~(archive'[r] = archive[r] /\ custody'[r] = custody[r])
    PROVE  \/ Lands(r) \/ Deletes(r)
           \/ \E w \in Workers :
                worker[w].run = r /\ (Prepares(w) \/ Sends(w) \/ Confirms(w))
<1>1. \A q \in Runs : KeyStep(q) => UNCHANGED <<archive, custody>> \/ Lands(q) \/ Deletes(q)
  BY DEF KeyStep, Begins, Fails, RunTo, objects
<1>2. \A w \in Workers : WriteStep(w) =>
        UNCHANGED <<archive, custody>> \/ Prepares(w) \/ Sends(w) \/ Confirms(w)
  BY DEF WriteStep, Claims, Merges, Adds, Settles, RunTo, objects
<1>3. UNCHANGED core \/ Turns \/ Marks \/ (\E t \in Retirers : Retires(t)) =>
        UNCHANGED <<archive, custody>>
  BY DEF core, Turns, Marks, Retires, objects
<1>4. \A q \in Runs : Lands(q) \/ Deletes(q) => q = r
  BY DEF Lands, Deletes, Keyed
<1>5. \A w \in Workers : Prepares(w) \/ Sends(w) \/ Confirms(w) => worker[w].run = r
  BY DEF Prepares, Sends, Confirms, Keyed
<1> QED
  BY <1>1, <1>2, <1>3, <1>4, <1>5 DEF CoreStep

(* A Source becomes retiring, then gone, and never active again.           *)
LEMMA SourceSteps ==
    ASSUME CoreStep
    PROVE  /\ source'.status = "active" => source.status = "active"
           /\ source.status = "gone" => source'.status = "gone"
           /\ source'.status = "gone" =>
                source.status = "gone" \/ \E t \in Retirers : Retires(t)
<1>1. \A r \in Runs : KeyStep(r) => UNCHANGED source
  BY DEF KeyStep, Begins, Fails, Lands, Deletes, Keyed, ledger
<1>2. \A w \in Workers : WriteStep(w) => source'.status = source.status
  BY DEF WriteStep, Claims, Prepares, Sends, Confirms, Keyed, ledger, Merges, Adds, Settles
<1>3. /\ UNCHANGED core \/ Turns => UNCHANGED source
      /\ Marks => source.status # "gone" /\ source'.status = "retiring"
      /\ \A t \in Retirers : Retires(t) => source'.status = "gone"
  BY DEF core, Turns, Marks, Retires
<1> QED
  BY <1>1, <1>2, <1>3 DEF CoreStep

(* The snapshots, the keys and the runs agree after a step.                *)
LEMMA SnapStep ==
    ASSUME IInv, CoreStep
    PROVE  SnapInv'
<1>1. TypeOK /\ SnapInv
  BY DEF IInv
<1>2. ASSUME NEW s \in Snapshots'
      PROVE  run'[s].status = "succeeded" /\ run'[Row(s)'.ref].status = "succeeded"
  <2>1. \A r \in Runs : run[r].status = "succeeded" => run'[r].status = "succeeded"
    BY RunSteps
  <2>2. \A u \in Snapshots : u \in Runs /\ Row(u).ref \in Runs
    BY <1>1, RowOfSnapshot DEF Snapshots, SnapshotRow
  <2>3. CASE s \in Snapshots /\ Row(s)' = Row(s)
    BY <1>1, <2>1, <2>2, <2>3 DEF SnapInv
  <2>4. ASSUME NEW w \in Workers, Adds(w), s = worker[w].run
        PROVE  run'[s].status = "succeeded"
    BY <2>4 DEF Adds, Settles, RunTo
  <2>5. ASSUME NEW u \in Snapshots, Row(u) = Row(s)'
        PROVE  run'[Row(s)'.ref].status = "succeeded"
    BY <1>1, <2>1, <2>2, <2>5 DEF SnapInv
  <2>6. ASSUME NEW w \in Workers, Row(s)' = [commit |-> worker[w].commit, ref |-> s]
        PROVE  Row(s)'.ref = s
    BY <2>6
  <2> QED
    BY <2>3, <2>4, <2>5, <2>6, SnapshotSource
<1>3. ASSUME NEW r \in Runs, archive'[r] # None \/ custody'[r] # NoIntent
      PROVE  run'[r].status # "none"
  <2>1. CASE archive'[r] = archive[r] /\ custody'[r] = custody[r]
    BY <1>1, <1>3, <2>1, RunSteps DEF SnapInv
  <2>2. CASE ~(archive'[r] = archive[r] /\ custody'[r] = custody[r])
    <3>1. \A w \in Workers : worker[w].pc # "idle" => run[worker[w].run].status # "none"
      BY DEF IInv, WorkInv, Informed
    <3>2. Lands(r) \/ Deletes(r) => run[r].status # "none"
      BY <1>1, <3>1 DEF SnapInv, Lands, Deletes, NoIntent
    <3>3. \A w \in Workers : Prepares(w) \/ Sends(w) \/ Confirms(w) => worker[w].pc # "idle"
      BY DEF Prepares, Sends, Confirms
    <3>4. run[r].status # "none"
      BY <2>2, <3>1, <3>2, <3>3, KeySource
    <3> QED
      BY <3>4, RunSteps
  <2> QED
    BY <2>1, <2>2
<1>4. IsFiniteSet(Stored')
  <2>1. CASE UNCHANGED run
    BY <1>1, <2>1 DEF SnapInv, Stored
  <2>2. ASSUME NEW r \in Runs, \A q \in Runs \ {r} : run'[q] = run[q]
        PROVE  IsFiniteSet(Stored')
    <3>1. Stored' \subseteq Stored \cup {r}
      BY <2>2 DEF Stored
    <3>2. IsFiniteSet(Stored \cup {r})
      BY <1>1, FS_AddElement DEF SnapInv
    <3> QED
      BY <3>1, <3>2, FS_Subset
  <2> QED
    BY <2>1, <2>2, RunSteps
<1> QED
  BY <1>2, <1>3, <1>4 DEF SnapInv

(* A row that a snapshot holds is held until the Source is gone.           *)
LEMMA KeptStep ==
    ASSUME IInv, CoreStep, NEW row, Kept(row)
    PROVE  Kept(row)'
<1>1. SUFFICES ASSUME source'.status # "gone"
               PROVE  \E s \in Runs : snapshot'[s] = {row}
  BY DEF Kept
<1>2. source.status # "gone" /\ ~\E t \in Retirers : Retires(t)
  BY <1>1, SourceSteps DEF Retires
<1>3. PICK s \in Runs : snapshot[s] = {row}
  BY <1>2 DEF Kept
<1>4. s \in Snapshots
  BY <1>3 DEF Snapshots
<1>5. run[s].status = "succeeded"
  BY <1>4 DEF IInv, SnapInv
<1>6. \A r \in Runs : KeyStep(r) => UNCHANGED snapshot
  BY DEF KeyStep, Begins, Fails, Lands, Deletes, Keyed, ledger
<1>7. \A w \in Workers : WriteStep(w) => UNCHANGED snapshot \/ Adds(w)
  BY DEF WriteStep, Claims, Prepares, Sends, Confirms, Keyed, ledger, Merges
<1>8. \A w \in Workers : Adds(w) => snapshot'[s] = snapshot[s]
  BY <1>5 DEF Adds, Settles, Owns
<1>9. UNCHANGED core \/ Turns \/ Marks => UNCHANGED snapshot
  BY DEF core, Turns, Marks
<1>10. snapshot'[s] = snapshot[s]
  BY <1>2, <1>6, <1>7, <1>8, <1>9 DEF CoreStep
<1> QED
  BY <1>3, <1>10

(* The archives of an active Source stay what its snapshots name.          *)
LEMMA ArchiveStep ==
    ASSUME IInv, CoreStep
    PROVE  ArchiveKept'
<1>1. SUFFICES ASSUME source'.status = "active", NEW s \in Snapshots'
               PROVE  /\ archive'[Row(s)'.ref] = Row(s)'.commit
                      /\ custody'[Row(s)'.ref] = NoIntent
  BY DEF ArchiveKept
<1>2. source.status = "active" /\ TypeOK
  BY <1>1, SourceSteps DEF IInv
<1>3. ASSUME NEW u \in Snapshots
      PROVE  archive'[Row(u).ref] = Row(u).commit /\ custody'[Row(u).ref] = NoIntent
  <2>1. PICK r \in Runs : r = Row(u).ref
    BY <1>2, RowOfSnapshot DEF SnapshotRow
  <2>2. archive[r] = Row(u).commit /\ custody[r] = NoIntent /\ run[r].status = "succeeded"
    BY <1>2, <2>1 DEF IInv, ArchiveKept, SnapInv
  <2>3. ~Lands(r)
    BY <2>2 DEF Lands, NoIntent
  <2>4. ~Deletes(r)
    BY <1>2, <2>1 DEF Deletes, IInv, WorkInv, Informed
  <2>5. ~\E w \in Workers : worker[w].run = r /\ (Prepares(w) \/ Sends(w) \/ Confirms(w))
    <3>1. custody[r].state = "none" /\ run[r].status # "running"
      BY <2>2 DEF NoIntent
    <3>2. ASSUME NEW w \in Workers, worker[w].run = r, Prepares(w) \/ Sends(w) \/ Confirms(w)
          PROVE  custody[r].state = "landed" \/ run[r].status = "running"
      BY <3>2 DEF Prepares, Sends, Confirms, Owns
    <3> QED
      BY <3>1, <3>2
  <2>6. archive'[r] = archive[r] /\ custody'[r] = custody[r]
    BY <2>3, <2>4, <2>5, KeySource
  <2> QED
    BY <2>1, <2>2, <2>6
<1>4. ASSUME NEW w \in Workers, Adds(w), s = worker[w].run,
             Row(s)' = [commit |-> worker[w].commit, ref |-> s]
      PROVE  archive'[s] = worker[w].commit /\ custody'[s] = NoIntent
  <2>1. /\ worker[w].pc = "commit" /\ Owns(w) /\ UNCHANGED objects
        /\ snapshot'[s] = {[commit |-> worker[w].commit, ref |-> worker[w].ref]}
    BY <1>4 DEF Adds, Settles, RunTo
  <2>2. worker[w].ref = s
    <3>1. Row(s)' = [commit |-> worker[w].commit, ref |-> worker[w].ref]
      BY <2>1 DEF Row
    <3> QED
      BY <1>4, <3>1
  <2> QED
    BY <1>4, <2>1, <2>2 DEF IInv, WorkInv, Informed, objects
<1> QED
  BY <1>3, <1>4, SnapshotSource

(* A Source that is gone stays clean, and one is gone when it is clean.    *)
LEMMA RetiredStep ==
    ASSUME IInv, CoreStep
    PROVE  source'.status = "gone" =>
             /\ capsule'.status = "destroyed"
             /\ InFlight' = {}
             /\ Snapshots' = {}
             /\ \A r \in Runs : archive'[r] # None => r \in late'
<1>1. SUFFICES ASSUME source'.status = "gone"
               PROVE  /\ capsule'.status = "destroyed"
                      /\ InFlight' = {}
                      /\ Snapshots' = {}
                      /\ \A r \in Runs : archive'[r] # None => r \in late'
  OBVIOUS
<1>2. ASSUME NEW t \in Retirers, Retires(t)
      PROVE  /\ capsule'.status = "destroyed"
             /\ InFlight' = {}
             /\ Snapshots' = {}
             /\ \A r \in Runs : archive'[r] # None => r \in late'
  <2>1. \A r \in Runs : archive[r] # None => r \in late
    BY <1>2 DEF Retires, IInv, RetireInv, Clears
  <2> QED
    BY <1>2, <2>1 DEF Retires, InFlight, Snapshots, objects
<1>3. CASE source.status = "gone"
  <2>1. /\ capsule.status = "destroyed" /\ InFlight = {} /\ Snapshots = {}
        /\ \A r \in Runs : archive[r] # None => r \in late
    BY <1>3 DEF IInv, RetiredIsClean, Busy
  <2>2. \A w \in Workers : worker[w].pc # "idle" => ~Owns(w)
    BY <2>1, Typed DEF InFlight, Owns
  <2>3. \A w \in Workers : WriteStep(w) => Confirms(w)
    BY <2>1, <2>2 DEF WriteStep, Claims, Prepares, Sends, Merges, Adds, Settles
  <2>4. \A w \in Workers : Confirms(w) => UNCHANGED <<capsule, run, snapshot, archive, late>>
    <3>1. ASSUME NEW w \in Workers, Confirms(w) PROVE archive' = archive
      BY <3>1 DEF Confirms, Keyed, IInv, TypeOK
    <3> QED
      BY <3>1 DEF Confirms, Keyed, ledger
  <2>5. \A r \in Runs : KeyStep(r) => Lands(r) \/ Deletes(r)
    BY <1>3, <2>1 DEF KeyStep, Begins, Fails
  <2>6. \A r \in Runs : Lands(r) \/ Deletes(r) => UNCHANGED <<capsule, run, snapshot>>
    BY DEF Lands, Deletes, Keyed, ledger
  <2>7. ASSUME NEW r \in Runs, Lands(r) \/ Deletes(r), NEW q \in Runs, archive'[q] # None
        PROVE  q \in late'
    BY <2>1, <2>7 DEF Lands, Deletes, Keyed
  <2>8. /\ ~Turns /\ ~Marks
        /\ UNCHANGED core => UNCHANGED <<capsule, run, snapshot, archive, late>>
    BY <1>3, <2>1 DEF Turns, Marks, core
  <2>9. CASE UNCHANGED <<capsule, run, snapshot>>
    <3>1. capsule'.status = "destroyed" /\ InFlight' = {} /\ Snapshots' = {}
      BY <2>1, <2>9 DEF InFlight, Snapshots
    <3>2. ASSUME NEW q \in Runs, archive'[q] # None PROVE q \in late'
      BY <1>2, <2>1, <2>3, <2>4, <2>5, <2>7, <2>8, <3>2 DEF CoreStep
    <3> QED
      BY <3>1, <3>2
  <2> QED
    BY <1>2, <2>3, <2>4, <2>5, <2>6, <2>8, <2>9 DEF CoreStep
<1> QED
  BY <1>1, <1>2, <1>3, SourceSteps

-----------------------------------------------------------------------------
(* What the steps preserve of a consumer that does not take them.          *)

(* A claim that lasts was there before, unless its owner takes it.         *)
LEMMA OwnsStep ==
    ASSUME IInv, CoreStep, NEW v \in Workers, worker'[v] = worker[v],
           worker[v].run \in Runs, Owns(v)'
    PROVE  Owns(v)
<1>1. SUFFICES ASSUME run'[worker[v].run] # run[worker[v].run] PROVE FALSE
  BY DEF Owns
<1>2. run'[worker[v].run].status = "running" /\ run'[worker[v].run].lease = v
  BY DEF Owns
<1>3. ASSUME NEW r \in Runs PROVE ~KeyStep(r)
  BY <1>1, <1>2 DEF KeyStep, Begins, Fails, Lands, Deletes, RunTo, Keyed
<1>4. ASSUME NEW w \in Workers PROVE ~WriteStep(w)
  BY <1>1, <1>2 DEF WriteStep, Claims, Prepares, Sends, Confirms, Merges, Adds, Settles,
         RunTo, Keyed
<1> QED
  BY <1>1, <1>3, <1>4 DEF CoreStep, core, Turns, Marks, Retires

(* The intent of a sender is its own.                                      *)
LEMMA SendingStep ==
    ASSUME IInv, CoreStep, NEW v \in Workers, worker'[v] = worker[v], Sending(v)
    PROVE  LET r == worker[v].run
           IN  \/ archive'[r] = archive[r] /\ custody'[r] = custody[r]
               \/ worker[v].pc = "sent" /\ Lands(r)
<1>1. PICK r \in Runs : r = worker[v].run
  BY Typed DEF Sending
<1>2. custody[r].state \in {"prepared", "sent", "landed"} /\ Informed(v)
  BY <1>1 DEF Sending, IInv, WorkInv, Informed
<1>3. ~Deletes(r) /\ (worker[v].pc = "prepared" => ~Lands(r))
  BY <1>1, <1>2 DEF Deletes, Lands, NoIntent, Informed
<1>4. ASSUME NEW w \in Workers, worker[w].run = r, Prepares(w) \/ Sends(w) \/ Confirms(w)
      PROVE  FALSE
  <2>1. w # v
    BY <1>4 DEF Prepares, Sends, Confirms
  <2>2. ~Prepares(w)
    BY <1>2, <1>4 DEF Prepares, NoIntent
  <2>3. ~Sending(w)
    BY <1>1, <1>4, <2>1 DEF IInv, SenderInv
  <2> QED
    BY <1>4, <2>2, <2>3 DEF Sends, Confirms, Sending
<1>5. CASE archive'[r] = archive[r] /\ custody'[r] = custody[r]
  BY <1>1, <1>5
<1>6. CASE ~(archive'[r] = archive[r] /\ custody'[r] = custody[r])
  BY <1>1, <1>3, <1>4, <1>6, KeySource DEF Sending
<1> QED
  BY <1>5, <1>6

(* The archive of a claim that put it stays until the claim ends.          *)
LEMMA ClaimedKeyStep ==
    ASSUME IInv, CoreStep, NEW v \in Workers, worker'[v] = worker[v],
           worker[v].pc \in {"observe", "commit"}, worker[v].ref = worker[v].run, Owns(v)
    PROVE  LET r == worker[v].run
           IN  archive'[r] = archive[r] /\ custody'[r] = custody[r]
<1>1. PICK r \in Runs : r = worker[v].run
  BY Typed
<1>2. custody[r] = NoIntent /\ run[r].status = "running" /\ run[r].lease = v
  BY <1>1 DEF IInv, WorkInv, Informed, Owns
<1>3. ~Lands(r) /\ ~Deletes(r)
  <2>1. custody[r].state = "none" /\ InFlight # {}
    BY <1>2 DEF NoIntent, InFlight
  <2>2. \A w \in Workers : worker[w].pc = "unlink" /\ worker[w].run = r =>
          run[r].status = "succeeded"
    BY DEF IInv, WorkInv, Informed
  <2> QED
    BY <1>2, <2>1, <2>2 DEF Lands, Deletes
<1>4. ASSUME NEW w \in Workers, worker[w].run = r, Prepares(w) \/ Sends(w) \/ Confirms(w)
      PROVE  FALSE
  <2>1. w # v
    BY <1>4 DEF Prepares, Sends, Confirms
  <2>2. ~Confirms(w)
    BY <1>2, <1>4 DEF Confirms, NoIntent
  <2> QED
    BY <1>2, <1>4, <2>1, <2>2 DEF Prepares, Sends, Owns
<1> QED
  BY <1>1, <1>3, <1>4, KeySource

(* A merged run stays one that no snapshot names.                          *)
LEMMA UnnamedStep ==
    ASSUME IInv, CoreStep, NEW r \in Runs, run[r].status = "succeeded",
           \A t \in Snapshots : Row(t).ref # r
    PROVE  run'[r].status = "succeeded" /\ \A t \in Snapshots' : Row(t)'.ref # r
<1>1. run'[r].status = "succeeded"
  BY RunSteps
<1>2. ASSUME NEW t \in Snapshots' PROVE Row(t)'.ref # r
  <2>1. ASSUME NEW w \in Workers, Adds(w), t = worker[w].run PROVE t # r
    BY <2>1 DEF Adds, Settles, Owns
  <2>2. ASSUME NEW w \in Workers, Row(t)' = [commit |-> worker[w].commit, ref |-> t]
        PROVE  Row(t)'.ref = t
    BY <2>2
  <2> QED
    BY <2>1, <2>2, SnapshotSource
<1> QED
  BY <1>1, <1>2

(* A consumer that the step leaves alone stays informed.                   *)
LEMMA OthersInformed ==
    ASSUME IInv, CoreStep, NEW v \in Workers, worker'[v] = worker[v]
    PROVE  Informed(v)'
<1>1. Informed(v) /\ worker[v] \in WorkerState
  BY Typed DEF IInv, WorkInv
<1>2. PICK s \in WorkerState : s = worker[v] /\ s = worker'[v]
  BY <1>1
<1>3. s.pc # "idle" => s.run \in Runs /\ run'[s.run].status # "none"
  BY <1>1, <1>2, RunSteps DEF Informed
<1>4. s.pc \in {"prepare", "prepared", "sent", "observe", "commit"} =>
        s.commit \in Commits /\ s.ref \in Runs
  BY <1>1, <1>2 DEF Informed
<1>5. s.pc \in {"prepare", "prepared", "sent"} => s.ref = s.run
  BY <1>1, <1>2 DEF Informed
<1>6. s.pc = "prepared" => custody'[s.run] = [state |-> "prepared", commit |-> s.commit]
  BY <1>1, <1>2, SendingStep DEF Informed, Sending
<1>7. s.pc = "sent" =>
        /\ custody'[s.run].state \in {"sent", "landed"}
        /\ custody'[s.run].commit = s.commit
        /\ custody'[s.run].state = "landed" => archive'[s.run] = s.commit
  <2>1. CASE s.pc = "sent" /\ Lands(s.run)
    <3>1. custody[s.run].commit = s.commit
      BY <1>1, <1>2, <2>1 DEF Informed
    <3> QED
      BY <2>1, <3>1 DEF Lands, Keyed
  <2>2. CASE /\ s.pc = "sent"
             /\ archive'[s.run] = archive[s.run] /\ custody'[s.run] = custody[s.run]
    BY <1>1, <1>2, <2>2 DEF Informed
  <2> QED
    BY <1>2, <2>1, <2>2, SendingStep DEF Sending
<1>8. s.pc \in {"observe", "commit"} /\ s.ref = s.run /\ Owns(v)' =>
        archive'[s.run] = s.commit /\ custody'[s.run] = NoIntent
  <2>1. SUFFICES ASSUME s.pc \in {"observe", "commit"}, s.ref = s.run, Owns(v)'
                 PROVE  archive'[s.run] = s.commit /\ custody'[s.run] = NoIntent
    OBVIOUS
  <2>2. Owns(v)
    BY <1>2, <1>3, <2>1, OwnsStep
  <2> QED
    BY <1>1, <1>2, <2>1, <2>2, ClaimedKeyStep DEF Informed
<1>9. s.pc \in {"observe", "commit"} /\ s.ref # s.run =>
        Kept([commit |-> s.commit, ref |-> s.ref])'
  BY <1>1, <1>2, KeptStep DEF Informed
<1>10. \A row \in s.reuse : Kept(row)'
  BY <1>1, <1>2, KeptStep DEF Informed
<1>11. s.pc = "unlink" =>
         run'[s.run].status = "succeeded" /\ \A t \in Snapshots' : Row(t)'.ref # s.run
  BY <1>1, <1>2, UnnamedStep DEF Informed
<1> QED
  BY <1>2, <1>3, <1>4, <1>5, <1>6, <1>7, <1>8, <1>9, <1>10, <1>11 DEF Informed

-----------------------------------------------------------------------------
(* What a consumer knows after its own steps.                              *)

(* One that rests, or keeps its run alone.                                 *)
LEMMA SpentInformed ==
    ASSUME IInv, CoreStep, NEW w \in Workers
    PROVE  /\ Rests(w) => Informed(w)'
           /\ \A pc \in {"fail", "cleanup"} :
                worker[w].pc # "idle" /\ Becomes(w, pc, worker[w].run, None, None, {})
                  => Informed(w)'
<1>1. Rests(w) => Informed(w)'
  BY DEF Rests, Becomes, Informed
<1>2. ASSUME NEW pc \in {"fail", "cleanup"}, worker[w].pc # "idle",
             Becomes(w, pc, worker[w].run, None, None, {})
      PROVE  Informed(w)'
  <2>1. worker[w].run \in Runs /\ run'[worker[w].run].status # "none"
    BY <1>2, RunSteps DEF IInv, WorkInv, Informed
  <2> QED
    BY <1>2, <2>1 DEF Becomes, Informed
<1> QED
  BY <1>1, <1>2

(* Claim, dispatch and answer.                                             *)
LEMMA StartInformed ==
    ASSUME IInv, CoreStep, NEW w \in Workers
    PROVE  /\ \A r \in Runs : Claim(w, r) => Informed(w)'
           /\ Dispatch(w) => Informed(w)'
           /\ RunnerReturns(w) => Informed(w)'
<1>1. Informed(w)
  BY DEF IInv, WorkInv
<1>2. ASSUME NEW r \in Runs, Claim(w, r) PROVE Informed(w)'
  <2>1. /\ Becomes(w, "claimed", r, worker[w].commit, worker[w].ref, worker[w].reuse)
        /\ run'[r].status = "running"
    BY <1>2, ClaimStep DEF Claims, RunTo
  <2>2. \A row \in worker[w].reuse : Kept(row)'
    BY <1>1, KeptStep DEF Informed
  <2> QED
    BY <2>1, <2>2 DEF Becomes, Informed
<1>3. ASSUME Dispatch(w) PROVE Informed(w)'
  <2>1. PICK reuse \in SUBSET SnapshotRow :
          /\ reuse = {} \/ \E s \in Runs : snapshot[s] = reuse
          /\ Becomes(w, "dispatched", worker[w].run, worker[w].commit, worker[w].ref, reuse)
    BY <1>3, DispatchStep
  <2>2. ASSUME NEW row \in reuse PROVE Kept(row)'
    <3>1. PICK s \in Runs : row \in snapshot[s]
      BY <2>1
    <3>2. snapshot[s] = {row}
      BY <3>1 DEF IInv, TypeOK
    <3>3. Kept(row)
      BY <3>2 DEF Kept
    <3> QED
      BY <3>3, KeptStep
  <2>3. worker[w].run \in Runs /\ run'[worker[w].run].status # "none"
    BY <1>1, <1>3, RunSteps DEF Informed, Dispatch
  <2> QED
    BY <2>1, <2>2, <2>3 DEF Becomes, Informed
<1>4. ASSUME RunnerReturns(w) PROVE Informed(w)'
  <2>1. worker[w].run \in Runs /\ run'[worker[w].run].status # "none"
    BY <1>1, <1>4, RunSteps DEF Informed, RunnerReturns
  <2>2. PICK c \in Commits :
          \/ Becomes(w, "prepare", worker[w].run, c, worker[w].run, {})
          \/ \E row \in worker[w].reuse :
               /\ row.commit = c /\ custody[row.ref] = NoIntent /\ archive[row.ref] = c
               /\ row \in SnapshotRow
               /\ Becomes(w, "observe", worker[w].run, c, row.ref, {})
    BY <1>4, ReturnStep
  <2>3. CASE Becomes(w, "prepare", worker[w].run, c, worker[w].run, {})
    BY <2>1, <2>3 DEF Becomes, Informed
  <2>4. ASSUME NEW row \in worker[w].reuse, row.commit = c, custody[row.ref] = NoIntent,
               archive[row.ref] = c, row \in SnapshotRow,
               Becomes(w, "observe", worker[w].run, c, row.ref, {})
        PROVE  Informed(w)'
    <3>1. row.ref \in Runs /\ row = [commit |-> c, ref |-> row.ref]
      BY <2>4 DEF SnapshotRow
    <3>2. Kept(row)'
      BY <1>1, KeptStep DEF Informed
    <3>3. Kept([commit |-> c, ref |-> row.ref])'
      BY <3>1, <3>2
    <3>4. UNCHANGED <<archive, custody>>
      BY <1>4, ReturnStep DEF core
    <3> QED
      BY <2>1, <2>4, <3>1, <3>3, <3>4 DEF Becomes, Informed
  <2> QED
    BY <2>2, <2>3, <2>4
<1> QED
  BY <1>2, <1>3, <1>4

(* The three steps of a put.                                               *)
LEMMA PutInformed ==
    ASSUME IInv, CoreStep, NEW w \in Workers
    PROVE  PreparePut(w) \/ SendPut(w) \/ ConfirmPut(w) => Informed(w)'
<1>1. Informed(w)
  BY DEF IInv, WorkInv
<1>2. SUFFICES ASSUME PreparePut(w) \/ SendPut(w) \/ ConfirmPut(w) PROVE Informed(w)'
  OBVIOUS
<1>3. /\ worker[w].run \in Runs /\ run'[worker[w].run].status # "none"
      /\ worker[w].commit \in Commits /\ worker[w].ref = worker[w].run
  BY <1>1, <1>2, RunSteps DEF Informed, PreparePut, SendPut, ConfirmPut
<1>4. \A row \in worker[w].reuse : Kept(row)'
  BY <1>1, KeptStep DEF Informed
<1>5. CASE PreparePut(w)
  <2>1. Goes(w, "prepared") /\ Prepares(w)
    BY <1>5, PutSteps
  <2> QED
    BY <1>3, <1>4, <2>1 DEF Goes, Becomes, Prepares, Keyed, Informed
<1>6. CASE SendPut(w)
  <2>1. Goes(w, "sent") /\ Sends(w)
    BY <1>6, PutSteps
  <2> QED
    BY <1>3, <1>4, <2>1 DEF Goes, Becomes, Sends, Keyed, Informed
<1>7. CASE ConfirmPut(w)
  <2>1. Goes(w, "observe") /\ Confirms(w)
    BY <1>7, PutSteps
  <2>2. archive[worker[w].run] = worker[w].commit
    BY <1>1, <2>1 DEF Confirms, Informed
  <2> QED
    BY <1>3, <1>4, <2>1, <2>2 DEF Goes, Becomes, Confirms, Keyed, Informed
<1> QED
  BY <1>2, <1>5, <1>6, <1>7

(* The observation, and a settlement that observes again.                  *)
LEMMA ObserveInformed ==
    ASSUME IInv, CoreStep, NEW w \in Workers, UNCHANGED core,
           worker[w].pc \in {"observe", "commit"}, NEW pc \in {"observe", "commit"},
           Goes(w, pc)
    PROVE  Informed(w)'
<1>1. Informed(w)
  BY DEF IInv, WorkInv
<1>2. /\ worker[w].run \in Runs /\ run'[worker[w].run].status # "none"
      /\ worker[w].commit \in Commits /\ worker[w].ref \in Runs
  BY <1>1, RunSteps DEF Informed
<1>3. \A row \in worker[w].reuse : Kept(row)'
  BY <1>1, KeptStep DEF Informed
<1>4. worker[w].ref # worker[w].run =>
        Kept([commit |-> worker[w].commit, ref |-> worker[w].ref])
  BY <1>1 DEF Informed
<1>5. PICK row : row = [commit |-> worker[w].commit, ref |-> worker[w].ref]
  OBVIOUS
<1>6. row = [commit |-> worker'[w].commit, ref |-> worker'[w].ref]
  BY <1>5 DEF Goes, Becomes
<1>7. worker[w].ref # worker[w].run => Kept(row)'
  BY <1>4, <1>5, KeptStep
<1>8. worker'[w].ref # worker'[w].run =>
        Kept([commit |-> worker[w].commit, ref |-> worker[w].ref])'
  BY <1>6, <1>7 DEF Goes, Becomes
<1>9. worker[w].ref = worker[w].run /\ Owns(w) =>
        archive[worker[w].run] = worker[w].commit /\ custody[worker[w].run] = NoIntent
  BY <1>1 DEF Informed
<1>10. Owns(w)' = Owns(w)
  BY DEF Owns, core, Goes, Becomes
<1> QED
  BY <1>2, <1>3, <1>8, <1>9, <1>10 DEF Goes, Becomes, Informed, core

(* A cleanup that found its run's archive unused.                          *)
LEMMA UnlinkInformed ==
    ASSUME IInv, CoreStep, NEW w \in Workers, NEW r \in Runs, Unused(r),
           Becomes(w, "unlink", r, worker[w].commit, worker[w].ref, worker[w].reuse)
    PROVE  Informed(w)'
<1>1. run'[r].status = "succeeded" /\ \A t \in Snapshots' : Row(t)'.ref # r
  BY UnnamedStep DEF Unused
<1>2. \A row \in worker[w].reuse : Kept(row)'
  BY KeptStep DEF IInv, WorkInv, Informed
<1> QED
  BY <1>1, <1>2 DEF Becomes, Informed

(* A consumer's own step changes that consumer only, leaves it informed,   *)
(* and makes a sender of it only if it prepares a put.                     *)
LEMMA OwnStep ==
    ASSUME IInv, CoreStep, NEW w \in Workers,
           Consumer(w) \/ Crash(w) \/ \E r \in Runs : Redeliver(w, r)
    PROVE  /\ worker' \in [Workers -> WorkerState]
           /\ \A v \in Workers \ {w} : worker'[v] = worker[v]
           /\ Informed(w)'
           /\ Sending(w)' =>
                \/ Sending(w) /\ worker'[w].run = worker[w].run
                \/ custody[worker'[w].run] = NoIntent
<1> DEFINE Goal ==
             /\ worker' \in [Workers -> WorkerState]
             /\ \A v \in Workers \ {w} : worker'[v] = worker[v]
             /\ Informed(w)'
             /\ Sending(w)' =>
                  \/ Sending(w) /\ worker'[w].run = worker[w].run
                  \/ custody[worker'[w].run] = NoIntent
<1>1. ASSUME NEW pc \in Pcs \ {"prepared", "sent"}, NEW r, NEW c, NEW ref, NEW reuse,
             Becomes(w, pc, r, c, ref, reuse), Informed(w)'
      PROVE  Goal
  BY <1>1 DEF Becomes, Sending
<1>2. "idle" \in Pcs /\ {"claimed", "dispatched", "prepare", "observe", "commit", "fail",
        "cleanup", "unlink"} \subseteq Pcs \ {"prepared", "sent"}
  BY DEF Pcs
<1>3. Rests(w) => Goal
  BY <1>1, <1>2, SpentInformed DEF Rests
<1>4. ASSUME NEW r \in Runs, Claim(w, r) PROVE Goal
  BY <1>1, <1>2, <1>4, ClaimStep, StartInformed
<1>5. CASE Dispatch(w)
  BY <1>1, <1>2, <1>5, DispatchStep, StartInformed
<1>6. CASE RunnerReturns(w)
  <2>1. Informed(w)'
    BY <1>6, StartInformed
  <2>2. \/ \E c \in Commits : Becomes(w, "prepare", worker[w].run, c, worker[w].run, {})
        \/ \E ref : \E c \in Commits : Becomes(w, "observe", worker[w].run, c, ref, {})
    BY <1>6, ReturnStep
  <2> QED
    BY <1>1, <1>2, <2>1, <2>2
<1>7. CASE PreparePut(w) \/ SendPut(w)
  <2>1. Informed(w)'
    BY <1>7, PutInformed
  <2>2. \/ Goes(w, "prepared") /\ Prepares(w)
        \/ Goes(w, "sent") /\ Sends(w)
    BY <1>7, PutSteps
  <2> QED
    BY <2>1, <2>2 DEF Goes, Becomes, Prepares, Sends, Sending
<1>8. CASE ConfirmPut(w)
  BY <1>1, <1>2, <1>8, PutInformed, PutSteps DEF Goes
<1>9. CASE Throw(w)
  BY <1>1, <1>2, <1>9, ReadSteps, SpentInformed
<1>10. CASE Observe(w)
  <2>1. CASE Goes(w, "commit")
    <3>1. Informed(w)'
      BY <1>10, <2>1, ReadSteps, ObserveInformed
    <3> QED
      BY <1>1, <1>2, <2>1, <3>1 DEF Goes
  <2> QED
    BY <1>3, <1>10, <2>1, ReadSteps
<1>11. CASE Settle(w)
  <2>1. CASE UNCHANGED core /\ Goes(w, "observe")
    <3>1. Informed(w)'
      BY <1>11, <2>1, SettleStep, ObserveInformed
    <3> QED
      BY <1>1, <1>2, <2>1, <3>1 DEF Goes
  <2>2. ASSUME NEW pc \in {"fail", "cleanup"},
               Becomes(w, pc, worker[w].run, None, None, {})
        PROVE  Goal
    <3>1. Informed(w)'
      BY <1>11, <2>2, SettleStep, SpentInformed
    <3> QED
      BY <1>1, <1>2, <2>2, <3>1
  <2> QED
    BY <1>3, <1>11, <2>1, <2>2, SettleStep
<1>12. CASE FailRun(w) \/ Unlink(w) \/ Crash(w)
  BY <1>3, <1>12, FailStep, UnlinkStep, ReadSteps
<1>13. CASE CheckUnused(w)
  <2>1. CASE Goes(w, "unlink") /\ Unused(worker[w].run)
    <3>1. worker[w].run \in Runs
      BY <1>13, Typed DEF CheckUnused
    <3>2. Informed(w)'
      BY <2>1, <3>1, UnlinkInformed DEF Goes
    <3> QED
      BY <1>1, <1>2, <2>1, <3>2 DEF Goes
  <2> QED
    BY <1>3, <1>13, <2>1, ReadSteps
<1>14. ASSUME NEW r \in Runs, Redeliver(w, r) PROVE Goal
  BY <1>1, <1>2, <1>14, ReadSteps, UnlinkInformed
<1> QED
  BY <1>4, <1>5, <1>6, <1>7, <1>8, <1>9, <1>10, <1>11, <1>12, <1>13, <1>14 DEF Consumer

(* The consumers stay informed, and a key has one sender.                  *)
LEMMA WorkStep ==
    ASSUME IInv, CoreStep,
           \/ UNCHANGED worker
           \/ \E w \in Workers : Consumer(w) \/ Crash(w) \/ \E r \in Runs : Redeliver(w, r)
    PROVE  worker' \in [Workers -> WorkerState] /\ WorkInv' /\ SenderInv'
<1>1. worker \in [Workers -> WorkerState] /\ SenderInv
  BY DEF IInv, TypeOK
<1>2. CASE UNCHANGED worker
  BY <1>1, <1>2, OthersInformed DEF WorkInv, SenderInv, Sending
<1>3. ASSUME NEW w \in Workers,
             Consumer(w) \/ Crash(w) \/ \E r \in Runs : Redeliver(w, r)
      PROVE  worker' \in [Workers -> WorkerState] /\ WorkInv' /\ SenderInv'
  <2>1. /\ worker' \in [Workers -> WorkerState]
        /\ \A v \in Workers \ {w} : worker'[v] = worker[v]
        /\ Informed(w)'
        /\ Sending(w)' =>
             \/ Sending(w) /\ worker'[w].run = worker[w].run
             \/ custody[worker'[w].run] = NoIntent
    BY <1>3, OwnStep
  <2>2. WorkInv'
    BY <2>1, OthersInformed DEF WorkInv
  <2>3. ASSUME NEW v \in Workers \ {w}, Sending(v)', Sending(w)',
               worker'[v].run = worker'[w].run
        PROVE  FALSE
    <3>1. Sending(v) /\ worker'[v].run = worker[v].run
      BY <2>1, <2>3 DEF Sending
    <3>2. custody[worker[v].run].state # "none"
      <4>1. Informed(v)
        BY DEF IInv, WorkInv
      <4>2. custody[worker[v].run].state \in {"prepared", "sent", "landed"}
        BY <3>1, <4>1 DEF Informed, Sending
      <4> QED
        BY <4>2
    <3>3. Sending(w) /\ worker'[w].run = worker[w].run
      BY <2>1, <2>3, <3>1, <3>2 DEF NoIntent
    <3> QED
      BY <1>1, <2>3, <3>1, <3>3 DEF SenderInv
  <2>4. \A u, v \in Workers \ {w} :
          Sending(u)' /\ Sending(v)' /\ worker'[u].run = worker'[v].run => u = v
    BY <1>1, <2>1 DEF SenderInv, Sending
  <2>5. SenderInv'
    BY <2>3, <2>4 DEF SenderInv
  <2> QED
    BY <2>1, <2>2, <2>5
<1> QED
  BY <1>2, <1>3

-----------------------------------------------------------------------------
(* What a retirement knows.                                                *)

(* Objects appear late once no sync is in flight, and no sync begins       *)
(* under a Source that is not active.                                      *)
LEMMA QuietStep ==
    ASSUME IInv, CoreStep, source.status # "active"
    PROVE  /\ source'.status # "active"
           /\ InFlight = {} => InFlight' = {}
           /\ InFlight = {} =>
                \A r \in Runs : archive'[r] # None => archive[r] # None \/ r \in late'
           /\ late \subseteq late'
<1>1. source'.status # "active"
  BY SourceSteps
<1>2. InFlight = {} => InFlight' = {}
  BY RunSteps DEF InFlight
<1>3. ASSUME InFlight = {}, NEW r \in Runs, archive'[r] # None, archive[r] = None
      PROVE  r \in late'
  <2>1. ~Deletes(r)
    BY <1>3 DEF Deletes, Keyed
  <2>2. \A w \in Workers : worker[w].run = r =>
          ~(Prepares(w) \/ Sends(w) \/ Confirms(w))
    BY <1>3 DEF Prepares, Sends, Confirms, Keyed
  <2>3. Lands(r)
    BY <1>3, <2>1, <2>2, KeySource
  <2> QED
    BY <1>3, <2>3 DEF Lands
<1>4. late \subseteq late'
  <2>1. \A r \in Runs : KeyStep(r) => late \subseteq late'
    BY DEF KeyStep, Begins, Fails, RunTo, objects, Lands, Deletes
  <2>2. \A w \in Workers : WriteStep(w) => late' = late
    BY DEF WriteStep, Claims, RunTo, objects, Prepares, Sends, Confirms, Merges, Adds, Settles
  <2>3. UNCHANGED core \/ Turns \/ Marks \/ (\E t \in Retirers : Retires(t)) => late' = late
    BY DEF core, Turns, Marks, Retires, objects
  <2> QED
    BY <2>1, <2>2, <2>3 DEF CoreStep
<1> QED
  BY <1>1, <1>2, <1>3, <1>4

(* A retirement that the step leaves alone.                                *)
LEMMA OthersClear ==
    ASSUME IInv, CoreStep, NEW t \in Retirers, retirer'[t] = retirer[t]
    PROVE  Clears(t)'
<1>1. Clears(t)
  BY DEF IInv, RetireInv
<1>2. CASE retirer[t].pc = "idle"
  BY <1>1, <1>2 DEF Clears
<1>3. CASE retirer[t].pc # "idle"
  <2>1. source.status # "active"
    BY <1>1, <1>3 DEF Clears
  <2> QED
    BY <1>1, <2>1, QuietStep DEF Clears
<1> QED
  BY <1>2, <1>3

(* Every object has its key on the page a retirement reads.                *)
LEMMA PageIsWhole ==
    ASSUME IInv
    PROVE  \A r \in Runs : archive[r] # None => r \in ArchiveRefs
  BY DEF IInv, SnapInv, ArchiveRefs, Stored

(* The retirement that takes the step.                                     *)
LEMMA AdvancesClear ==
    ASSUME IInv, CoreStep, NEW t \in Retirers, Advances(t)
    PROVE  retirer' \in [Retirers -> RetirerState] /\ RetireInv'
<1>1. Clears(t)
  BY DEF IInv, RetireInv
<1>2. /\ retirer' \in [Retirers -> RetirerState]
      /\ \A u \in Retirers \ {t} : retirer'[u] = retirer[u]
  BY DEF Advances, Clearing
<1>3. Clearing(t, "idle", {}, {}) => Clears(t)'
  BY DEF Clearing, Clears
<1>4. Marks /\ Clearing(t, "check", {source'}, retirer[t].todo) => Clears(t)'
  BY DEF Clearing, Clears, Marks
<1>5. ASSUME retirer[t].pc = "check", InFlight = {}, UNCHANGED core,
             Clearing(t, "count", retirer[t].row, retirer[t].todo)
      PROVE  Clears(t)'
  BY <1>1, <1>5 DEF Clearing, Clears, core, InFlight
<1>6. ASSUME retirer[t].pc = "count",
             \/ UNCHANGED core /\ Clearing(t, "delete", retirer[t].row, ArchiveRefs)
             \/ Marks /\ Clearing(t, "delete", {source'}, ArchiveRefs)
      PROVE  Clears(t)'
  <2>1. source.status # "active" /\ InFlight = {}
    BY <1>1, <1>6 DEF Clears
  <2>2. source'.status # "active" /\ InFlight' = {}
    BY <2>1, QuietStep
  <2>3. UNCHANGED archive /\ (Marks => source'.status = "retiring")
    BY <1>6 DEF Marks, core, objects
  <2> QED
    BY <1>1, <1>6, <2>2, <2>3, PageIsWhole DEF Clearing, Clears
<1>7. ASSUME retirer[t].pc = "delete", NEW r \in Runs,
             Clearing(t, "delete", retirer[t].row, retirer[t].todo \ {r}),
             archive'[r] = None
      PROVE  Clears(t)'
  <2>1. source.status # "active" /\ InFlight = {}
    BY <1>1, <1>7 DEF Clears
  <2>2. /\ source'.status # "active" /\ InFlight' = {} /\ late \subseteq late'
        /\ \A q \in Runs : archive'[q] # None => archive[q] # None \/ q \in late'
    BY <2>1, QuietStep
  <2> QED
    BY <1>1, <1>7, <2>2 DEF Clearing, Clears
<1>8. Clears(t)'
  BY <1>3, <1>4, <1>5, <1>6, <1>7 DEF Advances
<1> QED
  BY <1>2, <1>8, OthersClear DEF RetireInv

-----------------------------------------------------------------------------
(* The theorems.                                                           *)

(* The fault counter keeps its bound, and does not go back.                *)
LEMMA FaultStep ==
    ASSUME IInv, [Next]_vars
    PROVE  faults' \in faults .. MaxFaults
<1>1. faults \in 0 .. MaxFaults /\ MaxFaults \in Nat
  BY SourceConstants DEF IInv, TypeOK
<1>2. UNCHANGED faults \/ Fault => faults' \in faults .. MaxFaults
  BY <1>1 DEF Fault
<1>3. \A r \in Runs : Api(r) => UNCHANGED faults \/ Fault
  BY DEF Api, BeginSync, FailStaleSync, MarkRunFailed, Adopt, PutLands, Stale
<1>4. \A w \in Workers :
        Consumer(w) \/ Crash(w) \/ (\E r \in Runs : Redeliver(w, r)) =>
          UNCHANGED faults \/ Fault
  BY DEF Consumer, Crash, Redeliver, Claim, Stale, Dispatch, RunnerReturns, PreparePut,
         SendPut, ConfirmPut, Throw, Observe, Settle, FailRun, CheckUnused, Unlink, Deleted
<1>5. \A t \in Retirers : Retirement(t) \/ CrashRetirer(t) => UNCHANGED faults \/ Fault
  BY DEF Retirement, CrashRetirer, MarkRetiring, CheckInFlight, CountRows, DeleteArchive,
         RetireSource, Deleted
<1> QED
  BY <1>2, <1>3, <1>4, <1>5 DEF Next, Destroy, OtherRunBegins, OtherRunEnds, vars

(* The other runs of the Capsule are counted among the faults, and none is *)
(* in flight once the Source is gone.                                      *)
LEMMA OthersStep ==
    ASSUME IInv, CoreStep, [Next]_vars
    PROVE  /\ others' \in 0 .. faults'
           /\ source'.status = "gone" => others' = 0
<1>1. others \in 0 .. faults /\ faults \in 0 .. MaxFaults /\ MaxFaults \in Nat
  BY SourceConstants DEF IInv, TypeOK
<1>2. faults' \in faults .. MaxFaults
  BY FaultStep
<1>3. \A r \in Runs : Api(r) => UNCHANGED others
  BY DEF Api, BeginSync, FailStaleSync, MarkRunFailed, Adopt, PutLands, ledger
<1>4. \A w \in Workers :
        Consumer(w) \/ Crash(w) \/ (\E r \in Runs : Redeliver(w, r)) => UNCHANGED others
  BY DEF Consumer, Crash, Redeliver, Claim, Dispatch, RunnerReturns, PreparePut, SendPut,
         ConfirmPut, Throw, Observe, Settle, FailRun, CheckUnused, Unlink, ledger
<1>5. \A t \in Retirers : Retirement(t) \/ CrashRetirer(t) => UNCHANGED others
  BY DEF Retirement, CrashRetirer, MarkRetiring, CheckInFlight, CountRows, DeleteArchive,
         RetireSource, ledger
<1>6. UNCHANGED others \/ OtherRunBegins \/ OtherRunEnds
  BY <1>3, <1>4, <1>5 DEF Next, Destroy, vars
<1>7. others' \in 0 .. faults'
  BY <1>1, <1>2, <1>6 DEF OtherRunBegins, OtherRunEnds, Fault
<1>8. ASSUME source'.status = "gone" PROVE others' = 0
  <2>1. CASE source.status = "gone"
    <3>1. others = 0
      BY <1>1, <2>1 DEF IInv, RetiredIsClean, Busy
    <3> QED
      BY <1>6, <2>1, <3>1 DEF OtherRunBegins, OtherRunEnds
  <2> QED
    BY <1>8, <2>1, SourceSteps DEF Retires
<1> QED
  BY <1>7, <1>8

(* The first state has no run, no object and nobody at work.               *)
LEMMA InitInv ==
    ASSUME Init
    PROVE  IInv
<1>1. TypeOK
  BY SourceConstants DEF Init, TypeOK, SourceRow, NoCount, CapsuleRow, RunRow, Intent,
     NoIntent, WorkerState, Idle, RetirerState, AtRest
<1>2. Stored = {} /\ Snapshots = {} /\ InFlight = {}
  BY DEF Init, Stored, Snapshots, InFlight
<1>3. SnapInv
  BY <1>2, FS_EmptySet DEF Init, SnapInv
<1>4. WorkInv /\ SenderInv
  BY DEF Init, WorkInv, Informed, Idle, SenderInv, Sending
<1>5. RetireInv
  BY DEF Init, RetireInv, Clears, AtRest
<1>6. ArchiveKept /\ RetiredIsClean
  BY <1>2 DEF ArchiveKept, RetiredIsClean, Busy, Init
<1> QED
  BY <1>1, <1>3, <1>4, <1>5, <1>6 DEF IInv

(* The conjunction is inductive: whatever consumers crash, are taken over  *)
(* or merged, and whoever retires the Source at the same time.             *)
THEOREM Invariance == Spec => []IInv
<1>1. Init => IInv
  BY InitInv
<1>2. IInv /\ [Next]_vars => IInv'
  <2>1. SUFFICES ASSUME IInv, [Next]_vars PROVE IInv'
    OBVIOUS
  <2>2. /\ CoreStep
        /\ \/ UNCHANGED <<worker, retirer>>
           \/ \E w \in Workers :
                /\ Consumer(w) \/ Crash(w) \/ \E r \in Runs : Redeliver(w, r)
                /\ UNCHANGED retirer
           \/ \E t \in Retirers : Advances(t) /\ UNCHANGED worker
    BY <2>1, NextCore
  <2>3. worker' \in [Workers -> WorkerState] /\ WorkInv' /\ SenderInv'
    BY <2>1, <2>2, WorkStep
  <2>4. retirer' \in [Retirers -> RetirerState] /\ RetireInv'
    <3>1. CASE UNCHANGED retirer
      BY <2>1, <2>2, <3>1, OthersClear DEF RetireInv, IInv, TypeOK
    <3> QED
      BY <2>1, <2>2, <3>1, AdvancesClear
  <2>5. TypeOK'
    <3>1. CoreTyped' /\ LeaseTyped'
      BY <2>1, <2>2, CoreTypedStep, LeaseTypedStep
    <3>2. faults' \in 0 .. MaxFaults /\ others' \in 0 .. faults'
      BY <2>1, <2>2, FaultStep, OthersStep, SourceConstants DEF IInv, TypeOK
    <3> QED
      BY <2>3, <2>4, <3>1, <3>2 DEF CoreTyped, LeaseTyped, TypeOK
  <2>6. SnapInv' /\ ArchiveKept' /\ RetiredIsClean'
    <3>1. RetiredIsClean'
      BY <2>1, <2>2, <2>5, RetiredStep, OthersStep DEF RetiredIsClean, Busy
    <3> QED
      BY <2>1, <2>2, <3>1, SnapStep, ArchiveStep
  <2> QED
    BY <2>3, <2>4, <2>5, <2>6 DEF IInv
<1> QED
  BY <1>1, <1>2, PTL DEF Spec

(* Rows, consumers and retirements keep their types; a run that has ended  *)
(* holds no lease, and the last snapshot of the lane is a stored one.      *)
THEOREM TypeCorrect == Spec => []TypeOK
  BY Invariance, PTL DEF IInv

(* A snapshot of an active Source can be read back: its key holds the      *)
(* commit it names, and no custody intent on it is open.                   *)
THEOREM ArchiveKeptHolds == Spec => []ArchiveKept
  BY Invariance, PTL DEF IInv

(* A Source is removed when its Capsule is destroyed and neither a sync    *)
(* nor another run of the Capsule is in flight; an object outlives it only *)
(* if it was written late.                                                 *)
THEOREM RetiredIsCleanHolds == Spec => []RetiredIsClean
  BY Invariance, PTL DEF IInv
=============================================================================
