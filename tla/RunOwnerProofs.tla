--------------------------- MODULE RunOwnerProofs ---------------------------
(***************************************************************************)
(* Safety of the run owner, for every attempt, re-entry, waiting and       *)
(* request bound.                                                          *)
(***************************************************************************)
EXTENDS RunOwner, TLAPS

-----------------------------------------------------------------------------
(* What the helpers make of a record is a record.                          *)

LEMMA Bounds ==
    /\ 0 \in 0 .. MaxAttempts /\ 0 \in 0 .. Deadline /\ 0 \in 0 .. MaxReentries
    /\ Deadline \in 0 .. Deadline
    /\ 0 \in 0 .. MaxRequests
BY OwnerConstants

LEMMA RescheduledType ==
    ASSUME NEW r \in Record
    PROVE  Rescheduled(r) \in Record
BY DEF Rescheduled, Record

LEMMA ClearRetryStateType ==
    ASSUME NEW r \in Record
    PROVE  ClearRetryState(r) \in Record
BY Bounds DEF ClearRetryState, Record

LEMMA CountedType ==
    ASSUME NEW r \in Record
    PROVE  Counted(r) \in 0 .. MaxAttempts
<1>1. r.attempts \in 0 .. MaxAttempts
  BY DEF Record
<1> QED
  BY <1>1, OwnerConstants DEF Counted

LEMMA NoRecordType == NoRecord \in Record
BY Bounds DEF NoRecord, Record

LEMMA IdleHandlerType == IdleHandler \in Handler
BY NoRecordType DEF IdleHandler, Handler

(* The record, the alarm and the handlers an invocation leaves behind.     *)
LEMMA FinishType ==
    ASSUME TypeOK, NEW i \in Invocations, NEW next \in Record, NEW armed \in BOOLEAN,
           NEW ended \in Observations \cup {"none"},
           Finish(i, next, armed, ended), ledger' \in InFlight \cup Settled
    PROVE  TypeOK'
<1>1. handler' \in [Invocations -> Handler]
  BY IdleHandlerType DEF Finish, TypeOK
<1> QED
  BY <1>1 DEF Finish, TypeOK

(* The time a poll finds spent is a time the owner allows.                 *)
LEMMA ElapsedType ==
    ASSUME NEW r \in Record, NEW observation, NEW elapsed \in Elapsed(r, observation)
    PROVE  elapsed \in 0 .. Deadline
<1>1. r.waited \in 0 .. Deadline
  BY DEF Record
<1> QED
  BY <1>1, OwnerConstants DEF Elapsed

(* The record a poll writes is a record.                                   *)
LEMMA PollType ==
    ASSUME TypeOK, NEW i \in Invocations, NEW observation \in Observations,
           NEW reenters \in BOOLEAN,
           reenters => handler[i].read.reentries < MaxReentries,
           PollOnce(i, observation, reenters), UNCHANGED ledger
    PROVE  TypeOK'
<1>1. PICK r \in Record : r = handler[i].read
  BY DEF TypeOK, Handler
<1> DEFINE base == ClearRetryState(r)
           waiting == [base EXCEPT !.status = "scheduled", !.polled = observation]
<1>2. base \in Record /\ base.reentries = r.reentries
  BY ClearRetryStateType DEF ClearRetryState, Record
<1>3. waiting \in Record
  BY <1>2 DEF Record
<1>4. PICK elapsed \in Elapsed(r, observation) :
         \/ /\ elapsed < Deadline
            /\ Finish(i, [waiting EXCEPT !.waited = elapsed + 1], TRUE, observation)
         \/ /\ elapsed = Deadline /\ reenters
            /\ Finish(i, [waiting EXCEPT !.waited = Deadline, !.reentries = @ + 1],
                      TRUE, observation)
         \/ /\ elapsed = Deadline /\ ~reenters
            /\ Finish(i, [base EXCEPT !.status = "failed"], FALSE, observation)
  BY <1>1 DEF PollOnce
<1>5. elapsed \in 0 .. Deadline
  BY ElapsedType
<1>6. ledger' \in InFlight \cup Settled
  BY DEF TypeOK
<1> HIDE DEF base
<1>7. CASE /\ elapsed < Deadline
           /\ Finish(i, [waiting EXCEPT !.waited = elapsed + 1], TRUE, observation)
  <2>1. elapsed + 1 \in 0 .. Deadline
    BY <1>5, <1>7, OwnerConstants
  <2>2. [waiting EXCEPT !.waited = elapsed + 1] \in Record
    BY <1>3, <2>1 DEF Record
  <2> QED
    BY <1>6, <1>7, <2>2, FinishType
<1>8. CASE /\ elapsed = Deadline /\ reenters
           /\ Finish(i, [waiting EXCEPT !.waited = Deadline, !.reentries = @ + 1],
                     TRUE, observation)
  <2>1. waiting.reentries = r.reentries /\ r.reentries \in 0 .. MaxReentries
    BY <1>2 DEF Record
  <2>2. waiting.reentries + 1 \in 0 .. MaxReentries
    BY <1>1, <1>8, <2>1, OwnerConstants
  <2>3. [waiting EXCEPT !.waited = Deadline, !.reentries = @ + 1] \in Record
    BY <1>3, <2>2, Bounds DEF Record
  <2> QED
    BY <1>6, <1>8, <2>3, FinishType
<1>9. CASE Finish(i, [base EXCEPT !.status = "failed"], FALSE, observation)
  <2>1. [base EXCEPT !.status = "failed"] \in Record
    BY <1>2 DEF Record, Settled
  <2> QED
    BY <1>6, <1>9, <2>1, FinishType
<1> QED
  BY <1>4, <1>7, <1>8, <1>9

-----------------------------------------------------------------------------
LEMMA InitType == Init => TypeOK
BY Bounds, NoRecordType, IdleHandlerType DEF Init, TypeOK, InFlight

LEMMA ScheduleType ==
    ASSUME TypeOK, Schedule
    PROVE  TypeOK'
<1>1. ASSUME requests < MaxRequests, requests' = requests + 1
      PROVE  requests' \in 0 .. MaxRequests
  BY <1>1, OwnerConstants DEF TypeOK
<1>2. CASE StartNew
  <2>1. [NoRecord EXCEPT !.status = "scheduled"] \in Record
    BY NoRecordType DEF Record
  <2> QED
    BY <1>1, <1>2, <2>1 DEF StartNew, TypeOK
<1>3. CASE StartControllerRetry
  <2>1. PICK r \in Record : r = record
    BY DEF TypeOK
  <2> QED
    BY <1>1, <1>3, <2>1, RescheduledType DEF StartControllerRetry, TypeOK
<1>4. CASE StartAgain
  BY <1>1, <1>4 DEF StartAgain, TypeOK
<1>5. CASE StartTerminal
  BY <1>1, <1>5 DEF StartTerminal, TypeOK
<1>6. CASE StartRevive
  <2>1. record' \in Record
    BY <1>6, RescheduledType DEF StartRevive, TypeOK
  <2> QED
    BY <1>6, <2>1 DEF StartRevive, TypeOK
<1> QED
  BY <1>2, <1>3, <1>4, <1>5, <1>6 DEF Schedule

LEMMA InvocationType ==
    ASSUME TypeOK, NEW i \in Invocations, Invocation(i) \/ Reset(i) \/ DrainDone
    PROVE  TypeOK'
<1>1. PICK r \in Record : r = handler[i].read
  BY DEF TypeOK, Handler
<1>2. ledger \in InFlight \cup Settled
  BY DEF TypeOK
<1>3. CASE BeginDispatch(i)
  <2>1. PICK q \in Record : q = record
    BY DEF TypeOK
  <2>2. record' \in Record
    BY <1>3, <2>1, ClearRetryStateType DEF BeginDispatch, MarkRunning, Record
  <2>3. handler' \in [Invocations -> Handler]
    BY <1>3 DEF BeginDispatch, MarkRunning, TypeOK, Handler
  <2>4. requests' \in 0 .. MaxRequests
    BY <1>3, OwnerConstants DEF BeginDispatch, MarkRunning, Invoked, TypeOK
  <2> QED
    BY <1>3, <2>2, <2>3, <2>4 DEF BeginDispatch, MarkRunning, TypeOK
<1>4. CASE DispatchReturns(i)
  BY <1>4 DEF DispatchReturns, TypeOK, Handler
<1>5. CASE ReadSettled(i)
  <2>1. PICK l \in Settled : l = ledger
    BY <1>5 DEF ReadSettled
  <2>2. [ClearRetryState(r) EXCEPT !.status = l, !.observed = l,
                                   !.attempts = Counted(r)] \in Record
    BY ClearRetryStateType, CountedType DEF Record
  <2> QED
    BY <1>1, <1>2, <1>5, <2>1, <2>2, FinishType DEF ReadSettled
<1>6. CASE ReadUnsettled(i)
  <2>1. PICK observation \in (InFlight \cap {ledger}) \cup {"unknown"} :
          PollController(i, observation)
    BY <1>6 DEF ReadUnsettled
  <2>2. observation \in Observations
    BY <2>1 DEF Observations
  <2> QED
    BY <1>1, <1>6, <2>1, <2>2, PollType DEF ReadUnsettled, PollController
<1>7. CASE DispatchBusy(i)
  <2>1. [r EXCEPT !.status = "scheduled"] \in Record
    BY DEF Record
  <2> QED
    BY <1>1, <1>2, <1>7, <2>1, FinishType DEF DispatchBusy
<1>8. CASE DispatchRequeued(i)
  <2>1. PICK q \in Record : q = record
    BY DEF TypeOK
  <2>2. PICK elapsed \in Elapsed(q, "requeued") :
          /\ record' = IF elapsed < Deadline
                       THEN [q EXCEPT !.status = "scheduled", !.waited = elapsed + 1,
                                      !.polled = "requeued"]
                       ELSE [q EXCEPT !.status = "failed"]
          /\ alarm' = (elapsed < Deadline)
          /\ handler' = [handler EXCEPT ![i] =
               IF i = "drain" /\ elapsed < Deadline /\ ~handler[i].inline
               THEN [IdleHandler EXCEPT !.pc = "again"] ELSE IdleHandler]
    BY <1>8, <2>1 DEF DispatchRequeued
  <2>3. [IdleHandler EXCEPT !.pc = "again"] \in Handler
    BY IdleHandlerType DEF Handler
  <2>4. handler' \in [Invocations -> Handler]
    BY <2>2, <2>3, IdleHandlerType DEF TypeOK
  <2>5. elapsed \in 0 .. Deadline
    BY ElapsedType
  <2>6. CASE elapsed < Deadline
    <3>1. elapsed + 1 \in 0 .. Deadline
      BY <2>5, <2>6, OwnerConstants
    <3>2. record' \in Record
      BY <2>2, <2>6, <3>1 DEF Record, Observations
    <3> QED
      BY <1>8, <2>2, <2>6, <2>4, <3>2 DEF DispatchRequeued, TypeOK, Observations
  <2>7. CASE ~(elapsed < Deadline)
    <3>1. record' \in Record
      BY <2>2, <2>7 DEF Record, Settled
    <3> QED
      BY <1>8, <2>2, <2>7, <2>4, <3>1 DEF DispatchRequeued, TypeOK, Observations
  <2> QED
    BY <2>6, <2>7
<1>9. CASE DispatchFails(i)
  <2> DEFINE exhausted == Counted(r) = MaxAttempts
             next == [r EXCEPT !.attempts = Counted(r),
                               !.status = IF exhausted THEN "failed" ELSE "scheduled"]
  <2>1. next \in Record
    BY CountedType DEF Record, Settled
  <2>2. Finish(i, next, ~exhausted, "none")
    BY <1>1, <1>9 DEF DispatchFails
  <2>3. ledger' \in InFlight \cup Settled
    BY <1>2, <1>9 DEF DispatchFails, Settled
  <2> HIDE DEF next, exhausted
  <2>4. exhausted \in BOOLEAN
    BY DEF exhausted
  <2> QED
    BY <2>1, <2>2, <2>3, <2>4, FinishType
<1>10. CASE Reset(i)
  BY <1>10, IdleHandlerType DEF Reset, TypeOK
<1>11. CASE DrainDone
  BY <1>11, IdleHandlerType DEF DrainDone, TypeOK
<1> QED
  BY <1>3, <1>4, <1>5, <1>6, <1>7, <1>8, <1>9, <1>10, <1>11 DEF Invocation

LEMMA NextType == TypeOK /\ [Next]_vars => TypeOK'
<1> SUFFICES ASSUME TypeOK, [Next]_vars
             PROVE  TypeOK'
  OBVIOUS
<1>1. CASE LedgerMoves
  BY <1>1 DEF LedgerMoves, TypeOK, InFlight, Settled
<1>2. CASE UNCHANGED vars
  BY <1>2 DEF vars, TypeOK
<1>3. "alarm" \in Invocations
  BY DEF Invocations
<1>4. CASE RepairSweep
  <2>1. record' \in Record
    BY <1>4, NoRecordType, RescheduledType DEF RepairSweep, TypeOK, Record
  <2> QED
    BY <1>4, <2>1 DEF RepairSweep, TypeOK
<1> QED
  BY <1>1, <1>2, <1>3, <1>4, ScheduleType, InvocationType DEF Next

(* The record, its budgets and the invocations keep their types: attempts, *)
(* waiting and re-entries never pass what the owner allows.                *)
THEOREM OwnerTypeCorrect == Spec => []TypeOK
BY InitType, NextType, PTL DEF Spec

-----------------------------------------------------------------------------
(* A poll schedules the record with an alarm, or parks it without one.     *)
LEMMA PollArmed ==
    ASSUME NEW i \in Invocations, NEW observation, NEW reenters,
           handler[i].read \in Record, PollOnce(i, observation, reenters)
    PROVE  NeverStranded'
<1> DEFINE base == ClearRetryState(handler[i].read)
           waiting == [base EXCEPT !.status = "scheduled", !.polled = observation]
<1>1. base \in Record
  <2>1. PICK r \in Record : r = handler[i].read
    OBVIOUS
  <2> QED
    BY <2>1, ClearRetryStateType
<1>2. PICK elapsed \in Elapsed(handler[i].read, observation) :
         \/ Finish(i, [waiting EXCEPT !.waited = elapsed + 1], TRUE, observation)
         \/ Finish(i, [waiting EXCEPT !.waited = Deadline, !.reentries = @ + 1],
                   TRUE, observation)
         \/ Finish(i, [base EXCEPT !.status = "failed"], FALSE, observation)
  BY DEF PollOnce
<1> HIDE DEF base
<1> QED
  BY <1>1, <1>2 DEF Finish, NeverStranded, Record

LEMMA NextArmed == TypeOK /\ NeverStranded /\ [Next]_vars => NeverStranded'
<1> SUFFICES ASSUME TypeOK, NeverStranded, [Next]_vars
             PROVE  NeverStranded'
  OBVIOUS
<1> USE DEF NeverStranded
<1>1. record \in Record
  BY DEF TypeOK
<1>2. CASE Schedule
  <2>1. CASE StartNew
    BY <2>1 DEF StartNew, NoRecord
  <2>2. CASE StartControllerRetry
    BY <1>1, <2>2 DEF StartControllerRetry, Rescheduled, Record
  <2>3. CASE StartAgain \/ StartTerminal
    BY <2>3 DEF StartAgain, StartTerminal
  <2>4. CASE StartRevive
    BY <2>4 DEF StartRevive, Rescheduled, TypeOK, Record
  <2> QED
    BY <1>2, <2>1, <2>2, <2>3, <2>4 DEF Schedule
<1>3. ASSUME NEW i \in Invocations, Invocation(i) \/ Reset(i)
      PROVE  NeverStranded'
  <2>1. handler[i].read \in Record
    BY DEF TypeOK, Handler
  <2>2. CASE BeginDispatch(i)
    BY <1>1, <2>2 DEF BeginDispatch, MarkRunning, ClearRetryState, Record
  <2>3. CASE DispatchReturns(i) \/ Reset(i)
    BY <2>3 DEF DispatchReturns, Reset
  <2>4. CASE ReadSettled(i)
    BY <2>1, <2>4 DEF ReadSettled, Finish, ClearRetryState, Record, Settled
  <2>5. CASE ReadUnsettled(i)
    BY <2>1, <2>5, PollArmed DEF ReadUnsettled, PollController
  <2>6. CASE DispatchBusy(i)
    BY <2>1, <2>6 DEF DispatchBusy, Finish, Record
  <2>7. CASE DispatchRequeued(i)
    BY <1>1, <2>7 DEF DispatchRequeued, Record
  <2>8. CASE DispatchFails(i)
    BY <2>1, <2>8 DEF DispatchFails, Finish, Record
  <2> QED
    BY <1>3, <2>2, <2>3, <2>4, <2>5, <2>6, <2>7, <2>8 DEF Invocation
<1>4. CASE DrainDone
  BY <1>4 DEF DrainDone
<1>5. CASE LedgerMoves \/ UNCHANGED vars
  BY <1>5 DEF LedgerMoves, vars
<1>6. CASE RepairSweep
  BY <1>1, <1>6 DEF RepairSweep, Rescheduled, NoRecord, Record
<1> QED
  BY <1>2, <1>3, <1>4, <1>5, <1>6 DEF Next

(* However resets, requests and the two invocations overlap, a live record *)
(* has an alarm and a closed one has none.                                 *)
THEOREM OwnerNeverStranded == Spec => []NeverStranded
<1>1. Init => NeverStranded
  BY DEF Init, NeverStranded, NoRecord
<1> QED
  BY <1>1, NextArmed, OwnerTypeCorrect, PTL DEF Spec

-----------------------------------------------------------------------------
(* A record that some invocation still holds was closed, if at all, on a   *)
(* status the ledger has settled for good.                                 *)
ReadIsSettled ==
    \A i \in Invocations : handler[i].read.observed # "none" => ledger \in Settled

ObservedInv == ObservedIsSettled /\ ReadIsSettled

LEMMA PollObserved ==
    ASSUME NEW i \in Invocations, NEW observation, NEW reenters,
           handler[i].read \in Record, PollOnce(i, observation, reenters)
    PROVE  /\ record'.observed = handler[i].read.observed
           /\ handler' = [handler EXCEPT ![i] = IdleHandler]
<1> DEFINE base == ClearRetryState(handler[i].read)
           waiting == [base EXCEPT !.status = "scheduled", !.polled = observation]
<1>1. base \in Record /\ base.observed = handler[i].read.observed
  <2>1. PICK r \in Record : r = handler[i].read
    OBVIOUS
  <2> QED
    BY <2>1, ClearRetryStateType DEF ClearRetryState, Record
<1>2. PICK elapsed \in Elapsed(handler[i].read, observation) :
         \/ Finish(i, [waiting EXCEPT !.waited = elapsed + 1], TRUE, observation)
         \/ Finish(i, [waiting EXCEPT !.waited = Deadline, !.reentries = @ + 1],
                   TRUE, observation)
         \/ Finish(i, [base EXCEPT !.status = "failed"], FALSE, observation)
  BY DEF PollOnce
<1> HIDE DEF base
<1> QED
  BY <1>1, <1>2 DEF Finish, Record

LEMMA NextObserved == TypeOK /\ ObservedInv /\ [Next]_vars => ObservedInv'
<1> SUFFICES ASSUME TypeOK, ObservedInv, [Next]_vars
             PROVE  ObservedInv'
  OBVIOUS
<1> USE DEF ObservedInv, ObservedIsSettled, ReadIsSettled
<1>1. record \in Record /\ handler \in [Invocations -> Handler]
  BY DEF TypeOK
<1>2. IdleHandler.read.observed = "none"
  BY DEF IdleHandler, NoRecord
<1>3. CASE Schedule
  <2>1. CASE StartNew
    BY <2>1 DEF StartNew, NoRecord
  <2>2. CASE StartControllerRetry
    BY <1>1, <2>2 DEF StartControllerRetry, Rescheduled, Record
  <2>3. CASE StartAgain \/ StartTerminal
    BY <2>3 DEF StartAgain, StartTerminal
  <2>4. CASE StartRevive
    BY <2>4 DEF StartRevive, Rescheduled, TypeOK, Record
  <2> QED
    BY <1>3, <2>1, <2>2, <2>3, <2>4 DEF Schedule
<1>4. ASSUME NEW i \in Invocations, Invocation(i) \/ Reset(i)
      PROVE  ObservedInv'
  <2>1. handler[i].read \in Record
    BY <1>1 DEF Handler
  <2>2. CASE BeginDispatch(i)
    BY <1>1, <2>2 DEF BeginDispatch, MarkRunning, ClearRetryState, Record
  <2>3. CASE DispatchReturns(i)
    BY <1>1, <2>3 DEF DispatchReturns, Handler
  <2>4. CASE Reset(i)
    BY <1>1, <1>2, <2>4 DEF Reset
  <2>5. CASE ReadSettled(i)
    BY <1>1, <1>2, <2>1, <2>5 DEF ReadSettled, Finish, ClearRetryState, Record
  <2>6. CASE ReadUnsettled(i)
    BY <1>1, <1>2, <2>1, <2>6, PollObserved DEF ReadUnsettled, PollController
  <2>7. CASE DispatchBusy(i)
    BY <1>1, <1>2, <2>1, <2>7 DEF DispatchBusy, Finish, Record
  <2>8. CASE DispatchRequeued(i)
    <3>1. record'.observed = record.observed
      BY <1>1, <2>8 DEF DispatchRequeued, Record
    <3>2. \A j \in Invocations :
            handler'[j] = handler[j] \/ handler'[j].read.observed = "none"
      BY <1>1, <1>2, <2>8 DEF DispatchRequeued, IdleHandler, NoRecord
    <3> QED
      BY <2>8, <3>1, <3>2 DEF DispatchRequeued
  <2>9. CASE DispatchFails(i)
    <3>1. record'.observed = handler[i].read.observed
      BY <2>1, <2>9 DEF DispatchFails, Finish, Record
    <3>2. \A j \in Invocations :
            handler'[j] = handler[j] \/ handler'[j].read.observed = "none"
      BY <1>1, <1>2, <2>9 DEF DispatchFails, Finish
    <3>3. ledger \in Settled => ledger' \in Settled
      BY <2>9 DEF DispatchFails, Settled
    <3> QED
      BY <3>1, <3>2, <3>3
  <2> QED
    BY <1>4, <2>2, <2>3, <2>4, <2>5, <2>6, <2>7, <2>8, <2>9 DEF Invocation
<1>5. CASE DrainDone
  BY <1>1, <1>2, <1>5 DEF DrainDone
<1>6. CASE LedgerMoves
  BY <1>6 DEF LedgerMoves, Settled
<1>7. CASE UNCHANGED vars
  BY <1>7 DEF vars
<1>8. CASE RepairSweep
  BY <1>1, <1>8 DEF RepairSweep, Rescheduled, NoRecord, Record
<1> QED
  BY <1>3, <1>4, <1>5, <1>6, <1>7, <1>8 DEF Next

(* The owner closes a record on a status only when the ledger settled the  *)
(* run, and no handler or start request that read it earlier undoes that.  *)
THEOREM OwnerObservedIsSettled == Spec => []ObservedIsSettled
<1>1. Init => ObservedInv
  BY DEF Init, ObservedInv, ObservedIsSettled, ReadIsSettled, NoRecord, IdleHandler
<1>2. ObservedInv => ObservedIsSettled
  BY DEF ObservedInv
<1> QED
  BY <1>1, <1>2, NextObserved, OwnerTypeCorrect, PTL DEF Spec
=============================================================================
