------------------------------ MODULE RunOwner ------------------------------
(***************************************************************************)
(* OpenTofuRunOwnerObject: the Durable Object that owns the dispatch of    *)
(* one run.  It stores one record and one alarm; its alarm handler (or an  *)
(* operator's /drain request) awaits the whole controller dispatch, so     *)
(* start requests, and a reset of the object, fall between the record it   *)
(* read and the record it writes.                                          *)
(*                                                                         *)
(* Storage operations with no other await between them are one step.  An   *)
(* alarm that fires early only arms itself again and is left out.  Time    *)
(* is what the poll budget needs: waited is the time since pollingSince,   *)
(* in units no longer than the shortest delay, and Deadline of them are    *)
(* RUN_OWNER_CONTROLLER_POLL_DEADLINE_MS.                                  *)
(***************************************************************************)
EXTENDS Integers

CONSTANTS
    MaxAttempts,   \* RUN_OWNER_MAX_ATTEMPTS
    MaxReentries,  \* RUN_OWNER_STALE_REENTRY_MAX_ATTEMPTS
    Deadline,      \* the poll deadline, in units of waiting
    MaxRequests    \* bound on start and /drain requests

ASSUME OwnerConstants ==
    /\ MaxAttempts \in Nat \ {0}
    /\ MaxReentries \in Nat
    /\ Deadline \in Nat \ {0}
    /\ MaxRequests \in Nat

VARIABLES
    ledger,    \* the run's status in the control ledger
    record,    \* the stored owner record
    alarm,     \* whether an alarm is set
    handler,   \* the invocations of dispatchDueRun
    reviving,  \* the record a start request holds while it reads the ledger
    requests,  \* start and /drain requests so far
    last       \* what the last invocation polled, if it did

vars == <<ledger, record, alarm, handler, reviving, requests, last>>

InFlight == {"queued", "running"}
Settled == {"waiting_approval", "succeeded", "failed"}
Observations == InFlight \cup {"unknown", "requeued"}
Invocations == {"alarm", "drain"}

(* observed is set on a record the ledger settled.  attempts stops at the   *)
(* budget: the code counts on, but only asks whether it is spent.           *)
Record ==
    [status: {"none", "scheduled", "running"} \cup Settled,
     observed: Settled \cup {"none"},
     attempts: 0 .. MaxAttempts, waited: 0 .. Deadline,
     polled: Observations \cup {"none"}, reentries: 0 .. MaxReentries]

NoRecord == [status |-> "none", observed |-> "none", attempts |-> 0,
             waited |-> 0, polled |-> "none", reentries |-> 0]

(* read is the record the invocation dispatches; inline marks the second   *)
(* pass a /drain runs at once after a requeue.                             *)
Handler == [pc: {"idle", "dispatching", "reading", "again"}, read: Record,
            inline: BOOLEAN]

IdleHandler == [pc |-> "idle", read |-> NoRecord, inline |-> FALSE]

Init ==
    /\ ledger = "queued"
    /\ record = NoRecord
    /\ alarm = FALSE
    /\ handler = [i \in Invocations |-> IdleHandler]
    /\ reviving = {}
    /\ requests = 0
    /\ last = "none"

-----------------------------------------------------------------------------
(* start requests: the queue, the controller's requeue, an operator.       *)

(* The record a start leaves for an existing run: scheduled for now.       *)
Rescheduled(r) == [r EXCEPT !.status = "scheduled", !.observed = "none"]

StartNew ==
    /\ record = NoRecord
    /\ requests < MaxRequests
    /\ record' = [NoRecord EXCEPT !.status = "scheduled"]
    /\ alarm' = TRUE
    /\ requests' = requests + 1
    /\ UNCHANGED <<ledger, handler, reviving, last>>

StartControllerRetry ==
    /\ record # NoRecord
    /\ requests < MaxRequests
    /\ record' = Rescheduled(record)
    /\ alarm' = TRUE
    /\ requests' = requests + 1
    /\ UNCHANGED <<ledger, handler, reviving, last>>

(* A live record only has its alarm armed again.                           *)
StartAgain ==
    /\ record.status \in {"scheduled", "running"}
    /\ requests < MaxRequests
    /\ alarm' = TRUE
    /\ requests' = requests + 1
    /\ UNCHANGED <<ledger, record, handler, reviving, last>>

StartTerminal ==
    /\ record.status \in Settled
    /\ reviving = {}
    /\ requests < MaxRequests
    /\ reviving' = {record}
    /\ requests' = requests + 1
    /\ UNCHANGED <<ledger, record, alarm, handler, last>>

(* The ledger answered: a run still in flight is scheduled again, from the *)
(* record read before the answer.                                          *)
StartRevive ==
    /\ reviving # {}
    /\ reviving' = {}
    /\ \/ /\ ledger \in InFlight
          /\ \E r \in reviving : record' = Rescheduled(r)
          /\ alarm' = TRUE
       \/ UNCHANGED <<record, alarm>>
    /\ UNCHANGED <<ledger, handler, requests, last>>

(* Mutant of RepairSweep: a run that is running is left to its consumer.   *)
RepairSweepQueued ==
    /\ ledger = "queued"
    /\ record' = IF record = NoRecord THEN [NoRecord EXCEPT !.status = "scheduled"]
                 ELSE Rescheduled(record)
    /\ alarm' = TRUE
    /\ UNCHANGED <<ledger, handler, reviving, requests, last>>

(* repairStaleOpenTofuRuns: the scheduled sweep starts every run that has  *)
(* been queued, or running without a heartbeat, for long, and always as a  *)
(* controller retry.  A start that arrives after the run has settled is a  *)
(* StartControllerRetry.                                                   *)
RepairSweep ==
    /\ ledger \in InFlight
    /\ record' = IF record = NoRecord THEN [NoRecord EXCEPT !.status = "scheduled"]
                 ELSE Rescheduled(record)
    /\ alarm' = TRUE
    /\ UNCHANGED <<ledger, handler, reviving, requests, last>>

-----------------------------------------------------------------------------
(* dispatchDueRun.                                                         *)

ClearRetryState(r) == [r EXCEPT !.waited = 0, !.polled = "none"]

(* What lets an invocation read the record: a fired alarm, an operator's   *)
(* request, or the inline second pass.                                     *)
Invoked(i) ==
    \/ i = "alarm" /\ alarm /\ handler[i].pc = "idle" /\ UNCHANGED requests
    \/ /\ i = "drain" /\ handler[i].pc = "idle"
       /\ requests < MaxRequests
       /\ requests' = requests + 1
    \/ handler[i].pc = "again" /\ UNCHANGED requests

(* A due record, or a running one gone stale, is marked running, its retry *)
(* state cleared; the handler keeps the record it read.                    *)
MarkRunning(i, armed) ==
    /\ Invoked(i)
    /\ record.status \in {"scheduled", "running"}
    /\ record' = [ClearRetryState(record) EXCEPT !.status = "running"]
    /\ alarm' = armed
    /\ handler' = [handler EXCEPT ![i] =
         [pc |-> "dispatching", read |-> record, inline |-> handler[i].pc = "again"]]
    /\ UNCHANGED <<ledger, reviving, last>>

(* Mutant of BeginDispatch: no alarm stands behind the dispatch.           *)
BeginDispatchUnarmed(i) == MarkRunning(i, FALSE)

(* The alarm at the stale horizon stands behind the dispatch.              *)
BeginDispatch(i) == MarkRunning(i, TRUE)

(* The second pass of a /drain finds the record settled meanwhile, and     *)
(* deletes its alarm.  (No other pass does: a settled record has none.)    *)
DrainDone ==
    /\ handler["drain"].pc = "again"
    /\ record.status \notin {"scheduled", "running"}
    /\ alarm' = FALSE
    /\ handler' = [handler EXCEPT !["drain"] = IdleHandler]
    /\ UNCHANGED <<ledger, record, reviving, requests, last>>

(* Write the record, set or delete the alarm, and end the invocation.      *)
Finish(i, next, armed, ended) ==
    /\ record' = next
    /\ alarm' = armed
    /\ last' = ended
    /\ handler' = [handler EXCEPT ![i] = IdleHandler]
    /\ UNCHANGED <<reviving, requests>>

DispatchReturns(i) ==
    /\ handler[i].pc = "dispatching"
    /\ handler' = [handler EXCEPT ![i].pc = "reading"]
    /\ UNCHANGED <<ledger, record, alarm, reviving, requests, last>>

(* The attempts after one more dispatch.                                   *)
Counted(r) == IF r.attempts < MaxAttempts THEN r.attempts + 1 ELSE MaxAttempts

(* Mutant of ReadSettled: a run claimed and running counts as done.        *)
ReadSettledRunning(i) ==
    /\ handler[i].pc = "reading"
    /\ ledger # "queued"
    /\ Finish(i, [ClearRetryState(handler[i].read) EXCEPT
                    !.status = ledger, !.observed = ledger], FALSE, "none")
    /\ UNCHANGED ledger

(* The dispatch settled the run.                                           *)
ReadSettled(i) ==
    LET r == handler[i].read
    IN /\ handler[i].pc = "reading"
       /\ ledger \in Settled
       /\ Finish(i, [ClearRetryState(r) EXCEPT !.status = ledger, !.observed = ledger,
                                               !.attempts = Counted(r)],
                 FALSE, "none")
       /\ UNCHANGED ledger

(* Mutant of Elapsed: the budget is read from the cleared record.          *)
ElapsedCleared(r, observation) == {0}

(* The time a poll finds spent on one observation; another observation is  *)
(* progress and starts the budget again.                                   *)
Elapsed(r, observation) ==
    IF r.polled = observation THEN r.waited .. Deadline ELSE {0}

(* pollController: wait again; past the deadline re-enter the run if that  *)
(* is still allowed, keeping the spent budget; else park.                  *)
PollOnce(i, observation, reenters) ==
    LET r == handler[i].read
        base == ClearRetryState(r)
        waiting == [base EXCEPT !.status = "scheduled", !.polled = observation]
    IN \E elapsed \in Elapsed(r, observation) :
         \/ /\ elapsed < Deadline
            /\ Finish(i, [waiting EXCEPT !.waited = elapsed + 1], TRUE, observation)
         \/ /\ elapsed = Deadline /\ reenters
            /\ Finish(i, [waiting EXCEPT !.waited = Deadline, !.reentries = @ + 1],
                      TRUE, observation)
         \/ /\ elapsed = Deadline /\ ~reenters
            /\ Finish(i, [base EXCEPT !.status = "failed"], FALSE, observation)

(* Mutant of PollController: the re-entries are not counted.               *)
PollControllerUncounted(i, observation) ==
    PollOnce(i, observation, observation \in InFlight)

(* Only a status the ledger showed in flight is worth a re-entry.          *)
PollController(i, observation) ==
    PollOnce(i, observation,
             observation \in InFlight /\ handler[i].read.reentries < MaxReentries)

(* The ledger shows the run in flight, or cannot be read.                  *)
ReadUnsettled(i) ==
    /\ handler[i].pc = "reading"
    /\ \E observation \in (InFlight \cap {ledger}) \cup {"unknown"} :
         PollController(i, observation)
    /\ UNCHANGED ledger

(* recordDispatchFailure: a busy Capsule lease costs no attempt.           *)
DispatchBusy(i) ==
    /\ handler[i].pc = "dispatching"
    /\ Finish(i, [handler[i].read EXCEPT !.status = "scheduled"], TRUE, "none")
    /\ UNCHANGED ledger

(* The controller requeued the run: accounted on the stored record.  The   *)
(* first pass of a /drain runs a second one at once.                       *)
DispatchRequeued(i) ==
    /\ handler[i].pc = "dispatching"
    /\ \E elapsed \in Elapsed(record, "requeued") :
         LET waits == elapsed < Deadline
         IN /\ record' = IF waits
                         THEN [record EXCEPT !.status = "scheduled", !.waited = elapsed + 1,
                                             !.polled = "requeued"]
                         ELSE [record EXCEPT !.status = "failed"]
            /\ alarm' = waits
            /\ handler' = [handler EXCEPT ![i] =
                 IF i = "drain" /\ waits /\ ~handler[i].inline
                 THEN [IdleHandler EXCEPT !.pc = "again"] ELSE IdleHandler]
    /\ last' = "requeued"
    /\ UNCHANGED <<ledger, reviving, requests>>

(* Any other error: a bounded number of retries, then the ledger backstop  *)
(* (which fails a queued run, if it is reached) and a failed record.       *)
DispatchFails(i) ==
    LET r == handler[i].read
        exhausted == Counted(r) = MaxAttempts
    IN /\ handler[i].pc = "dispatching"
       /\ Finish(i, [r EXCEPT !.attempts = Counted(r),
                              !.status = IF exhausted THEN "failed" ELSE "scheduled"],
                 ~exhausted, "none")
       /\ \/ UNCHANGED ledger
          \/ exhausted /\ ledger = "queued" /\ ledger' = "failed"

(* The object resets: the invocation is gone, the storage is not.          *)
Reset(i) ==
    /\ handler[i].pc # "idle"
    /\ handler' = [handler EXCEPT ![i] = IdleHandler]
    /\ last' = "none"
    /\ UNCHANGED <<ledger, record, alarm, reviving, requests>>

(* The controller's consumers move the run; a settled one stays settled.   *)
LedgerMoves ==
    /\ \/ ledger = "queued" /\ ledger' \in {"running", "succeeded", "failed"}
       \/ ledger = "running" /\ ledger' \in {"queued"} \cup Settled
       \/ ledger = "waiting_approval" /\ ledger' = "succeeded"
    /\ UNCHANGED <<record, alarm, handler, reviving, requests, last>>

-----------------------------------------------------------------------------
Schedule ==
    StartNew \/ StartControllerRetry \/ StartAgain \/ StartTerminal \/ StartRevive

Invocation(i) ==
    \/ BeginDispatch(i) \/ DispatchReturns(i) \/ ReadSettled(i) \/ ReadUnsettled(i)
    \/ DispatchBusy(i) \/ DispatchRequeued(i) \/ DispatchFails(i)

Next ==
    \/ Schedule
    \/ RepairSweep
    \/ \E i \in Invocations : Invocation(i) \/ Reset(i)
    \/ DrainDone
    \/ LedgerMoves

Spec == Init /\ [][Next]_vars

(* The platform fires a set alarm, and a dispatch that began ends.         *)
FairSpec ==
    /\ Spec
    /\ WF_vars(Invocation("alarm"))
    /\ WF_vars(Invocation("drain") /\ handler["drain"].pc # "idle")

-----------------------------------------------------------------------------
(* Properties.                                                             *)

(* The shape of the stored record; a record spends at most the re-entries  *)
(* and the waiting the owner allows.                                       *)
TypeOK ==
    /\ ledger \in InFlight \cup Settled
    /\ record \in Record
    /\ alarm \in BOOLEAN
    /\ handler \in [Invocations -> Handler]
    /\ reviving \subseteq Record
    /\ requests \in 0 .. MaxRequests
    /\ last \in Observations \cup {"none"}

(* However resets, requests and invocations overlap, a run whose record is *)
(* not terminal has an alarm that will dispatch it, and a terminal record  *)
(* leaves none behind.                                                     *)
NeverStranded == alarm <=> record.status \in {"scheduled", "running"}

(* A record closed on a ledger status never closes a run in flight.        *)
ObservedIsSettled == record.observed # "none" => ledger \in Settled

(* Waiting on one observation ends: unless the sweep comes back, the owner *)
(* parks the run for good, its re-entry spent, instead of polling the      *)
(* controller forever.                                                     *)
PollParks ==
    \A observation \in InFlight \cup {"unknown"} :
        <>[][~RepairSweep]_vars /\ <>[](last = observation) =>
            <>[](record.status = "failed")

(* No run is forgotten: although a park or a settlement overwrites starts  *)
(* that arrived during its dispatch, a run in flight is dispatched again   *)
(* and again for as long as the sweep comes back.                          *)
RepairReaches ==
    WF_vars(RepairSweep) =>
        []<>(ledger \in Settled \/ \E i \in Invocations : handler[i].pc = "dispatching")

(* recordDispatchFailure: a requeue is accounted on the poll budget.  A     *)
(* dispatch of a record already waiting on requeues that is requeued again *)
(* has waited longer, or parks.                                            *)
RequeueAccounted ==
    [][\A i \in Invocations :
         LET r == handler[i].read
         IN DispatchRequeued(i) /\ r.polled = "requeued" =>
              record'.waited > r.waited \/ record'.status = "failed"]_vars
=============================================================================
