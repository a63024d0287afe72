--------------------------- MODULE AiQueueProofs ---------------------------
(***************************************************************************)
(* Proofs that the safety properties of AiQueue hold for any members,      *)
(* tasks, operations and API processes, any number of faults, and any      *)
(* deadlines ordered as core/ai_limits.py orders them.                     *)
(***************************************************************************)
EXTENDS AiQueue, TLAPS

\* A kind's running state is a running state, its succeeded state is stable.
LEMMA KindStates ==
    \A k \in AiOperationKind :
      /\ RunningState(k) \in RunningStates
      /\ SucceededState(k) \in StableStates
BY DEF AiOperationKind, RunningState, RunningStates, SucceededState,
       StableStates, TaskState

\* assert_transition lets a running state be entered only from a stable one.
LEMMA EnterFromStable ==
    ASSUME NEW s \in TaskState, NEW k \in AiOperationKind,
           AssertTransition(s, RunningState(k))
    PROVE  s \in StableStates
<1>1. RunningState(k) \in RunningStates
  BY KindStates
<1>2. RunningState(k) \in AllowedTransitions(s)
  BY <1>1 DEF AssertTransition, RunningStates
<1>3. s \notin RunningStates
  BY <1>1, <1>2 DEF AllowedTransitions, RunningStates
<1> QED BY <1>3 DEF StableStates

\* The constants of every step.
LEMMA Constants ==
    /\ \A t \in Tasks : OwnerOf[t] \in Members
    /\ None \notin Ops /\ None \notin Workers
    /\ CallBound \in Nat /\ LeaseTTL \in Nat /\ StaleAfter \in Nat
    /\ 0 < CallBound /\ CallBound < LeaseTTL /\ LeaseTTL < StaleAfter
BY TimingAssumption, ConstantsAssumption

\* Every initial state is well typed.
LEMMA TypeInit == Init => TypeOK
<1> SUFFICES ASSUME Init PROVE TypeOK
  OBVIOUS
<1>1. (CHOOSE t \in Tasks : TRUE) \in Tasks
  BY ConstantsAssumption
<1>2. NoOperation \in Operation
  BY <1>1, Constants
     DEF NoOperation, Operation, OpStatus, AiOperationKind, StableStates,
         TaskState, RunningStates
<1>3. op \in [Ops -> Operation]
  BY <1>2 DEF Init
<1>4. lease \in [Members -> [holder : Workers \cup {None}, ttl : 0..LeaseTTL]]
  BY Constants DEF Init, FreeLease
<1>5. job \in [Workers -> [Members -> Job]]
  BY DEF Init, IdleJob, Job, JobPC
<1>6. task \in [Tasks -> TaskState]
  BY ConstantsAssumption DEF Init, StableStates
<1> QED BY <1>3, <1>4, <1>5, <1>6 DEF Init, TypeOK

Jobs == [Workers -> [Members -> Job]]

\* What assigning one entry of the jobs dictionary does to every entry.
LEMMA SetJobEffect ==
    ASSUME NEW w \in Workers, NEW m \in Members, NEW pc \in JobPC,
           job \in Jobs, SetJob(w, m, pc)
    PROVE  /\ job' \in Jobs
           /\ job'[w][m].pc = pc /\ job'[w][m].op = job[w][m].op
           /\ \A v \in Workers, n \in Members :
                v # w \/ n # m => job'[v][n] = job[v][n]
<1> DEFINE j == [job[w][m] EXCEPT !.pc = pc]
           row == [job[w] EXCEPT ![m] = j]
<1>1. job[w][m] \in Job /\ job[w] \in [Members -> Job]
  BY DEF Jobs
<1>2. j \in Job /\ j.pc = pc /\ j.op = job[w][m].op
  BY <1>1 DEF Job
<1>3. job' = [job EXCEPT ![w] = row]
  BY <1>1 DEF SetJob, Jobs
<1> HIDE DEF j
<1>4. row \in [Members -> Job] /\ row[m] = j
      /\ \A n \in Members : n # m => row[n] = job[w][n]
  BY <1>1, <1>2
<1> HIDE DEF row
<1> QED BY <1>2, <1>3, <1>4 DEF Jobs

\* What removing a job from the dictionary does to every entry.
LEMMA EndJobEffect ==
    ASSUME NEW w \in Workers, NEW m \in Members, job \in Jobs, EndJob(w, m)
    PROVE  /\ job' \in Jobs
           /\ job'[w][m].pc = "idle"
           /\ \A v \in Workers, n \in Members :
                v # w \/ n # m => job'[v][n] = job[v][n]
<1> DEFINE row == [job[w] EXCEPT ![m] = IdleJob]
<1>1. IdleJob \in Job /\ IdleJob.pc = "idle"
  BY DEF IdleJob, Job, JobPC
<1>2. row \in [Members -> Job] /\ row[m] = IdleJob
      /\ \A n \in Members : n # m => row[n] = job[w][n]
  BY <1>1 DEF Jobs
<1>3. job' = [job EXCEPT ![w] = row]
  BY DEF EndJob, Jobs
<1> HIDE DEF row
<1> QED BY <1>1, <1>2, <1>3 DEF Jobs

Table == [Ops -> Operation]

PastStatuses == Finished \cup {"deleted"}

\* Columns no step rewrites once the row is inserted.
Kept(o) ==
    /\ op'[o].task = op[o].task
    /\ op'[o].kind = op[o].kind
    /\ op'[o].initial = op[o].initial
    /\ op'[o].created = op[o].created
    /\ op'[o].ahead = op[o].ahead

\* Row o gets status s, every other row is left alone.
OneRow(o, s) ==
    /\ op' \in Table
    /\ Kept(o) /\ op'[o].status = s
    /\ \A p \in Ops : p # o => op'[p] = op[p]

\* UPDATE ai_operations SET status on one row changes that column only.
LEMMA SetStatus ==
    ASSUME NEW o \in Ops, NEW s \in OpStatus, op \in Table,
           op' = [op EXCEPT ![o].status = s]
    PROVE  OneRow(o, s) /\ op'[o].age = op[o].age
<1> DEFINE r == [op[o] EXCEPT !.status = s]
<1>1. op[o] \in Operation
  BY DEF Table
<1>2. r \in Operation /\ r.status = s /\ r.task = op[o].task /\ r.kind = op[o].kind
      /\ r.initial = op[o].initial /\ r.created = op[o].created
      /\ r.ahead = op[o].ahead /\ r.age = op[o].age
  BY <1>1 DEF Operation
<1>3. op' = [op EXCEPT ![o] = r]
  BY DEF Table
<1> HIDE DEF r
<1> QED BY <1>2, <1>3 DEF Table, OneRow, Kept

\* The row submit() writes, column by column.
LEMMA ActionSubmitLock ==
    ASSUME TypeOK, NEW o \in Ops, NEW t \in Tasks, NEW k \in AiOperationKind,
           SubmitLock(o, t, k)
    PROVE  /\ op' \in Table
           /\ op'[o].status = "inserting" /\ op'[o].task = t /\ op'[o].created = clock
           /\ op'[o].ahead = {p \in Ops : Active(p) /\ Member(p) = OwnerOf[t]}
           /\ \A p \in Ops : p # o => op'[p] = op[p]
<1> DEFINE new == [status |-> "inserting", task |-> t, kind |-> k,
                   initial |-> task[t], created |-> clock, age |-> 0,
                   ahead |-> {p \in Ops : Active(p) /\ Member(p) = OwnerOf[t]}]
<1>1. task[t] \in StableStates
  BY EnterFromStable DEF TypeOK, SubmitLock
<1>2. 0 \in 0..StaleAfter + 1
  BY Constants
<1>3. new \in Operation
  BY <1>1, <1>2 DEF TypeOK, Operation, OpStatus
<1>4. op' = [op EXCEPT ![o] = new]
  BY DEF SubmitLock
<1>5. new.status = "inserting" /\ new.task = t /\ new.created = clock
      /\ new.ahead = {p \in Ops : Active(p) /\ Member(p) = OwnerOf[t]}
  OBVIOUS
<1> HIDE DEF new
<1> QED BY <1>3, <1>4, <1>5 DEF TypeOK, Table

-----------------------------------------------------------------------------
(* What a step can do to the two tables *)

\* A row leaves the queue, or stays as it is, and its task is either put into a
\* stable state or left alone because it was not waiting for this row.
Settle(o) ==
    \E s \in OpStatus :
      /\ op[o].status \notin {"absent", "inserting"}
      /\ s = op[o].status \/ s \in PastStatuses
      /\ OneRow(o, s) /\ op'[o].age = op[o].age
      /\ \/ /\ task' = task
            /\ s = op[o].status \/ ~Active(o) \/ task[op[o].task] # Running(o)
         \/ \E x \in StableStates : task' = [task EXCEPT ![op[o].task] = x]
      /\ UNCHANGED <<txn, clock>>

\* cancel() settles a queued row.
LEMMA CancelSettles ==
    ASSUME TypeOK, NEW o \in Ops, Cancel(o)
    PROVE  Settle(o) /\ op[o].status = "queued"
<1>1. OneRow(o, "cancelled") /\ op'[o].age = op[o].age
  BY SetStatus DEF TypeOK, Table, Cancel, OpStatus, Finished
<1>2. op[o].initial \in StableStates
  BY DEF TypeOK, Operation
<1> QED BY <1>1, <1>2 DEF Cancel, Settle, PastStatuses, Finished, OpStatus, Active

\* Jobs act on an operation of their member.
LEMMA JobOperation ==
    ASSUME TypeOK, JobsHaveOperations, NEW w \in Workers, NEW m \in Members,
           job[w][m].pc # "idle"
    PROVE  /\ job[w][m].op \in Ops
           /\ op[job[w][m].op].status \notin {"absent", "inserting"}
           /\ op[job[w][m].op].status \in OpStatus
           /\ op[job[w][m].op].task \in Tasks
           /\ op[job[w][m].op].kind \in AiOperationKind
           /\ op[job[w][m].op].initial \in StableStates
           /\ Member(job[w][m].op) = m
BY DEF TypeOK, JobsHaveOperations, Operation

\* The commit of recover_stale_operations settles the row it had read.
LEMMA RecoverWriteSettles ==
    ASSUME TypeOK, JobsHaveOperations, Claims,
           NEW w \in Workers, NEW m \in Members, RecoverWrite(w, m)
    PROVE  Settle(job[w][m].op)
<1> DEFINE o == job[w][m].op
           s == IF op[o].status = "deleted" THEN "deleted" ELSE "failed"
<1>1. job[w][m].pc = "recovering"
  BY DEF RecoverWrite
<1>2. o \in Ops /\ op[o].status \notin {"absent", "inserting"} /\ op[o].initial \in StableStates
  BY <1>1, JobOperation
<1>3. s \in PastStatuses /\ s \in OpStatus
  BY DEF PastStatuses, Finished, OpStatus
<1>4. op' = [op EXCEPT ![o].status = s]
  BY DEF RecoverWrite
<1>5. OneRow(o, s) /\ op'[o].age = op[o].age
  BY <1>2, <1>3, <1>4, SetStatus DEF TypeOK, Table
<1>6. \/ task' = [task EXCEPT ![op[o].task] = op[o].initial]
      \/ task' = task /\ (~job[w][m].reset \/ op[o].status = "deleted")
  BY DEF RecoverWrite
<1>7. Past(o) \/ (job[w][m].reset \/ task[op[o].task] # Running(o))
  BY <1>1 DEF Claims
<1>8. Past(o) => ~Active(o)
  BY DEF Past, Active, ACTIVE_STATUSES, Finished
<1>9. UNCHANGED <<txn, clock>>
  BY DEF RecoverWrite
<1>10. op[o].status = "deleted" => ~Active(o)
  BY DEF Active, ACTIVE_STATUSES
<1> HIDE DEF o, s
<1> QED BY <1>2, <1>3, <1>5, <1>6, <1>7, <1>8, <1>9, <1>10 DEF Settle, o

\* Recovery inside a job settles a stale operation of the member.
LEMMA RecoverInJobSettles ==
    ASSUME TypeOK, NEW w \in Workers, NEW m \in Members, RecoverInJob(w, m)
    PROVE  \E o \in Ops : Settle(o) /\ Stale(o)
<1>1. PICK o \in Ops :
        /\ Stale(o)
        /\ op' = [op EXCEPT ![o].status = "failed"]
        /\ task' = IF task[op[o].task] = Running(o)
                     THEN [task EXCEPT ![op[o].task] = op[o].initial]
                     ELSE task
  BY DEF RecoverInJob
<1>2. OneRow(o, "failed") /\ op'[o].age = op[o].age
  BY <1>1, SetStatus DEF TypeOK, Table, OpStatus, Finished
<1>3. op[o].initial \in StableStates /\ op[o].status = "running"
  BY <1>1 DEF TypeOK, Operation, Stale
<1>4. UNCHANGED <<txn, clock>>
  BY DEF RecoverInJob
<1> QED BY <1>1, <1>2, <1>3, <1>4 DEF Settle, PastStatuses, Finished, OpStatus

\* A success settles the row of the call.
LEMMA CallSucceedsSettles ==
    ASSUME TypeOK, JobsHaveOperations,
           NEW w \in Workers, NEW m \in Members, CallSucceeds(w, m)
    PROVE  Settle(job[w][m].op) /\ op'[job[w][m].op].status = "succeeded"
<1> DEFINE o == job[w][m].op
<1>1. o \in Ops /\ op[o].status \notin {"absent", "inserting"}
      /\ SucceededState(op[o].kind) \in StableStates
  BY JobOperation, KindStates DEF CallSucceeds, At
<1>2. op' = [op EXCEPT ![o].status = "succeeded"]
      /\ task' = [task EXCEPT ![op[o].task] = SucceededState(op[o].kind)]
      /\ UNCHANGED <<txn, clock>>
  BY DEF CallSucceeds, JobOp, JobTask
<1>3. "succeeded" \in PastStatuses /\ "succeeded" \in OpStatus
  BY DEF PastStatuses, Finished, OpStatus
<1>4. OneRow(o, "succeeded") /\ op'[o].age = op[o].age
  BY <1>1, <1>2, <1>3, SetStatus DEF TypeOK, Table
<1> HIDE DEF o
<1> QED BY <1>1, <1>2, <1>3, <1>4 DEF Settle, OneRow, o

\* _record_failure settles the row it is given.
LEMMA RecordFailureSettles ==
    ASSUME TypeOK, NEW o \in Ops, op[o].status \notin {"absent", "inserting"},
           NEW s \in {"failed", "cancelled"}, RecordFailure(o, s),
           UNCHANGED <<txn, clock>>
    PROVE  Settle(o) /\ op'[o].status = s
<1>1. op[o].initial \in StableStates
  BY DEF TypeOK, Operation
<1>2. s \in PastStatuses /\ s \in OpStatus
  BY DEF PastStatuses, Finished, OpStatus
<1>3. OneRow(o, s) /\ op'[o].age = op[o].age
  BY <1>2, SetStatus DEF TypeOK, Table, RecordFailure
<1> QED BY <1>1, <1>2, <1>3 DEF Settle, RecordFailure, OneRow

\* A failed call settles its row.
LEMMA CallFailsSettles ==
    ASSUME TypeOK, JobsHaveOperations,
           NEW w \in Workers, NEW m \in Members, CallFails(w, m)
    PROVE  Settle(job[w][m].op)
<1>1. job[w][m].op \in Ops /\ op[job[w][m].op].status \notin {"absent", "inserting"}
  BY JobOperation DEF CallFails, At
<1>2. RecordFailure(job[w][m].op, "failed") /\ UNCHANGED <<txn, clock>>
  BY DEF CallFails, JobOp
<1> QED BY <1>1, <1>2, RecordFailureSettles

\* A call interrupted by a shutdown settles its row.
LEMMA CancelClaimedSettles ==
    ASSUME TypeOK, JobsHaveOperations,
           NEW w \in Workers, NEW m \in Members, CancelClaimed(w, m)
    PROVE  \/ Settle(job[w][m].op)
           \/ UNCHANGED <<op, task, txn, clock>>
<1>1. job[w][m].op \in Ops /\ op[job[w][m].op].status \notin {"absent", "inserting"}
  BY JobOperation DEF CancelClaimed, Stopping
<1>2. UNCHANGED <<txn, clock>>
      /\ (RecordFailure(job[w][m].op, "cancelled") \/ UNCHANGED <<op, task>>)
  BY DEF CancelClaimed, JobOp
<1> QED BY <1>1, <1>2, RecordFailureSettles

\* execute()'s exception handler settles its row, whatever its status.
LEMMA HandleSettles ==
    ASSUME TypeOK, JobsHaveOperations,
           NEW w \in Workers, NEW m \in Members, Handle(w, m)
    PROVE  /\ Settle(job[w][m].op)
           /\ op[job[w][m].op].status # "queued" =>
                op'[job[w][m].op].status = op[job[w][m].op].status
<1> DEFINE o == job[w][m].op
           s == IF op[o].status = "queued" THEN "failed" ELSE op[o].status
<1>1. o \in Ops /\ op[o].status \notin {"absent", "inserting"}
      /\ op[o].initial \in StableStates /\ op[o].status \in OpStatus
  BY JobOperation DEF Handle, At
<1>2. s \in OpStatus /\ (s = op[o].status \/ s \in PastStatuses)
  BY <1>1 DEF PastStatuses, Finished, OpStatus
<1>3. op' = [op EXCEPT ![o].status = s] /\ task' = HandlerTask(o) /\ UNCHANGED <<txn, clock>>
  BY DEF Handle, HandlerStatus, JobOp
<1>4. OneRow(o, s) /\ op'[o].age = op[o].age
  BY <1>1, <1>2, <1>3, SetStatus DEF TypeOK, Table
<1>5. op[o].status = "deleted" => s = op[o].status
  OBVIOUS
<1>6. \/ task' = [task EXCEPT ![op[o].task] = op[o].initial]
      \/ task' = task /\ (s = op[o].status \/ task[op[o].task] # Running(o))
  BY <1>3, <1>5 DEF HandlerTask
<1>7. op[o].status # "queued" => s = op[o].status
  OBVIOUS
<1> HIDE DEF o, s
<1> QED BY <1>1, <1>2, <1>3, <1>4, <1>6, <1>7 DEF Settle, OneRow, o

\* The claim: one queued row starts running, its task is already there.
LEMMA ClaimEffect ==
    ASSUME TypeOK, JobsHaveOperations,
           NEW w \in Workers, NEW m \in Members, Claim(w, m)
    PROVE  /\ OneRow(job[w][m].op, "running") /\ op'[job[w][m].op].age = 0
           /\ op[job[w][m].op].status = "queued"
           /\ task' = task
           /\ task[op[job[w][m].op].task] = Running(job[w][m].op)
<1> DEFINE o == job[w][m].op
           r == [op[o] EXCEPT !.status = "running", !.age = 0]
<1>1. o \in Ops /\ op[o] \in Operation /\ op[o].task \in Tasks
  BY JobOperation DEF Claim, At, TypeOK
<1>2. "running" \in OpStatus /\ 0 \in 0..StaleAfter + 1
  BY Constants DEF OpStatus, ACTIVE_STATUSES
<1>3. r \in Operation /\ r.status = "running" /\ r.task = op[o].task /\ r.kind = op[o].kind
      /\ r.initial = op[o].initial /\ r.created = op[o].created
      /\ r.ahead = op[o].ahead /\ r.age = 0
  BY <1>1, <1>2 DEF Operation
<1>4. op' = [op EXCEPT ![o] = r]
  BY <1>1 DEF Claim, JobOp, TypeOK, Operation
<1>5. op[o].status = "queued" /\ task[op[o].task] = Running(o)
      /\ task' = [task EXCEPT ![op[o].task] = Running(o)]
  BY DEF Claim, Claimable, JobOp, JobTask
<1>6. task' = task
  BY <1>1, <1>5 DEF TypeOK
<1> HIDE DEF r, o
<1>7. OneRow(o, "running") /\ op'[o].age = 0
  BY <1>1, <1>3, <1>4 DEF TypeOK, Table, OneRow, Kept
<1> QED BY <1>5, <1>6, <1>7 DEF o

\* clear_completed removes finished rows and touches no other.
LEMMA ClearEffect ==
    ASSUME TypeOK, NEW m \in Members, ClearCompleted(m)
    PROVE  /\ op' \in Table
           /\ \A o \in Ops : Kept(o) /\ op'[o].age = op[o].age
                /\ \/ op'[o].status = op[o].status
                   \/ op[o].status \in Finished /\ op'[o].status = "deleted"
<1> SUFFICES ASSUME NEW o \in Ops
             PROVE  /\ op'[o] \in Operation /\ Kept(o) /\ op'[o].age = op[o].age
                    /\ \/ op'[o].status = op[o].status
                       \/ op[o].status \in Finished /\ op'[o].status = "deleted"
  BY DEF Table, ClearCompleted
<1>1. op[o] \in Operation /\ "deleted" \in OpStatus
  BY DEF TypeOK, OpStatus
<1>2. op'[o] = IF op[o].status \in Finished /\ Member(o) = m
                 THEN [op[o] EXCEPT !.status = "deleted"] ELSE op[o]
  BY DEF ClearCompleted
<1> QED BY <1>1, <1>2 DEF Operation, Kept

\* Time changes nothing but the age of running rows.
LEMMA TickEffect ==
    ASSUME TypeOK, TickClock
    PROVE  /\ op' \in Table
           /\ \A o \in Ops :
                /\ Kept(o) /\ op'[o].status = op[o].status
                /\ op'[o].age \in {op[o].age, op[o].age + 1}
<1> SUFFICES ASSUME NEW o \in Ops
             PROVE  /\ op'[o] \in Operation
                    /\ Kept(o) /\ op'[o].status = op[o].status
                    /\ op'[o].age \in {op[o].age, op[o].age + 1}
  BY DEF Table, TickClock
<1>1. op[o] \in Operation /\ op[o].age \in 0..StaleAfter + 1
  BY DEF TypeOK, Operation
<1>2. op[o].age <= StaleAfter => op[o].age + 1 \in 0..StaleAfter + 1
  BY <1>1, Constants
<1>3. op'[o] = IF op[o].status = "running" /\ op[o].age <= StaleAfter
                 THEN [op[o] EXCEPT !.age = op[o].age + 1] ELSE op[o]
  BY DEF TickClock
<1> QED BY <1>1, <1>2, <1>3 DEF Operation, Kept

\* The steps that leave both tables alone.
LEMMA QuietSteps ==
    ASSUME NEW w \in Workers, NEW m \in Members,
           \/ Poll(w, m) \/ JobFault(w, m)
           \/ PrepareReturn(w, m) \/ PrepareError(w, m)
           \/ AcquireLease(w, m) \/ LeaseBusy(w, m) \/ Recheck(w, m)
           \/ ClaimError(w, m) \/ ClaimRefused(w, m) \/ ClaimLost(w, m)
           \/ Refresh(w, m) \/ Release(w, m) \/ HandlerRead(w, m)
           \/ CancelOutside(w, m) \/ CancelAcquiring(w, m)
           \/ CancelUnrecorded(w, m) \/ CancelReleasing(w, m)
    PROVE  UNCHANGED <<op, task, txn, clock, drafted, saved, proc>>
BY DEF Poll, JobFault, RecoverRead, Pick, PrepareReturn, PrepareError,
       AcquireLease, LeaseBusy, Recheck, ClaimError, ClaimRefused, ClaimLost,
       Refresh, Release, HandlerRead, CancelOutside, CancelAcquiring, CancelUnrecorded,
       CancelReleasing, LeaseUnavailable, ReleaseLost, CallFailsUnrecorded, RefreshFails,
       HandleFails

\* Every step of the specification is one of these, as far as the tables go.
LEMMA TableStep ==
    ASSUME TypeOK, JobsHaveOperations, Claims, Next
    PROVE  \/ \E o \in Ops, t \in Tasks, k \in AiOperationKind : SubmitLock(o, t, k)
           \/ \E t \in Tasks : SubmitCommit(t) \/ SubmitAbort(t)
           \/ \E m \in Members : ClearCompleted(m)
           \/ \E o \in Ops : Settle(o)
           \/ \E w \in Workers, m \in Members : Claim(w, m)
           \/ TickClock
           \/ UNCHANGED <<op, task, txn, clock>>
<1>1. CASE Request
  <2>1. CASE \E o, old \in Ops : Retry(o, old)
    <3>1. PICK o \in Ops, old \in Ops : Retry(o, old)
      BY <2>1
    <3>2. op[old].task \in Tasks /\ op[old].kind \in AiOperationKind
      BY DEF TypeOK, Operation
    <3> QED BY <3>1, <3>2 DEF Retry
  <2>2. CASE \E o \in Ops : Cancel(o)
    BY <2>2, CancelSettles
  <2> QED BY <1>1, <2>1, <2>2 DEF Request
<1>2. CASE \E t \in Tasks : Transaction(t)
  BY <1>2 DEF Transaction
<1>3. ASSUME NEW w \in Workers, NEW m \in Members,
             Poll(w, m) \/ JobStep(w, m) \/ JobFault(w, m)
      PROVE  \/ \E o \in Ops : Settle(o)
             \/ Claim(w, m)
             \/ UNCHANGED <<op, task, txn, clock>>
  <2>1. CASE RecoverWrite(w, m)
    BY <2>1, RecoverWriteSettles, JobOperation DEF RecoverWrite
  <2>2. CASE CallSucceeds(w, m)
    BY <2>2, CallSucceedsSettles, JobOperation DEF CallSucceeds, At
  <2>3. CASE CallFails(w, m)
    BY <2>3, CallFailsSettles, JobOperation DEF CallFails, At
  <2>4. CASE Handle(w, m)
    BY <2>4, HandleSettles, JobOperation DEF Handle, At
  <2>5. CASE CancelClaimed(w, m)
    BY <2>5, CancelClaimedSettles, JobOperation DEF CancelClaimed, Stopping
  <2>6. CASE Claim(w, m)
    BY <2>6
  <2>7. CASE RecoverInJob(w, m)
    BY <2>7, RecoverInJobSettles
  <2> QED BY <1>3, <2>1, <2>2, <2>3, <2>4, <2>5, <2>6, <2>7, QuietSteps DEF JobStep
<1>4. CASE \E w \in Workers : Process(w)
  BY <1>4 DEF Process, Shutdown, Stopped, Crash, Restart
<1>5. CASE TickClock
  BY <1>5
<1> QED BY <1>1, <1>2, <1>3, <1>4, <1>5 DEF Next

\* Rows keep their columns, never return to an earlier stage of life, and once
\* past stay past.
LEMMA RowsMoveOn ==
    ASSUME TypeOK, RowLocks, JobsHaveOperations, Claims, Next, NEW o \in Ops,
           op[o].status # "absent"
    PROVE  /\ op' \in Table
           /\ Kept(o)
           /\ op'[o].status # "absent"
           /\ op[o].status # "inserting" => op'[o].status # "inserting"
           /\ Past(o) => Past(o)'
<1> USE DEF Past, Finished
<1>1. ASSUME NEW p \in Ops, NEW t \in Tasks, NEW k \in AiOperationKind, SubmitLock(p, t, k)
      PROVE  op' \in Table /\ op'[o] = op[o]
  BY <1>1, ActionSubmitLock DEF SubmitLock
<1>2. ASSUME NEW t \in Tasks, SubmitCommit(t) \/ SubmitAbort(t)
      PROVE  OneRow(txn[t], op'[txn[t]].status) /\ op[txn[t]].status = "inserting"
             /\ op'[txn[t]].status \in {"queued", "deleted"} /\ txn[t] \in Ops
  <2>1. txn[t] \in Ops /\ op[txn[t]].status = "inserting"
    BY <1>2 DEF TypeOK, RowLocks, SubmitCommit, SubmitAbort
  <2>2. "queued" \in OpStatus /\ "deleted" \in OpStatus
    BY DEF OpStatus, ACTIVE_STATUSES
  <2> QED BY <1>2, <2>1, <2>2, SetStatus DEF SubmitCommit, SubmitAbort, TypeOK, Table, OneRow
<1>3. ASSUME NEW t \in Tasks, SubmitCommit(t) \/ SubmitAbort(t)
      PROVE  op' \in Table /\ Kept(o) /\ op'[o].status # "absent"
             /\ (op[o].status = op'[o].status \/ op[o].status = "inserting")
  BY <1>2, <1>3 DEF OneRow, Kept
<1>4. ASSUME NEW p \in Ops, Settle(p)
      PROVE  op' \in Table /\ Kept(o)
             /\ (op'[o].status = op[o].status \/ op'[o].status \in PastStatuses)
  BY <1>4 DEF Settle, OneRow, Kept
<1>5. ASSUME NEW w \in Workers, NEW m \in Members, Claim(w, m)
      PROVE  op' \in Table /\ Kept(o)
             /\ (op'[o].status = op[o].status \/ (op[o].status = "queued" /\ op'[o].status = "running"))
  BY <1>5, ClaimEffect DEF OneRow, Kept
<1>6. UNCHANGED op => op' \in Table /\ Kept(o) /\ op'[o].status = op[o].status
  BY DEF Kept, TypeOK, Table
<1>7. PastStatuses = {"succeeded", "failed", "cancelled", "deleted"}
  BY DEF PastStatuses
<1> QED BY <1>1, <1>3, <1>4, <1>5, <1>6, <1>7, TableStep, ClearEffect, TickEffect DEF Kept

-----------------------------------------------------------------------------
(* The invariants of the tables *)

Tables == RowLocks /\ OneActivePerTask /\ NoStrandedTask

\* Settling a row adds no active row and opens no transaction.
LEMMA SettleKeepsTables ==
    ASSUME TypeOK, Tables, NEW o \in Ops, Settle(o)
    PROVE  Tables'
<1>1. PICK s \in OpStatus :
        /\ op[o].status \notin {"absent", "inserting"}
        /\ s = op[o].status \/ s \in PastStatuses
        /\ OneRow(o, s)
        /\ \/ /\ task' = task
              /\ s = op[o].status \/ ~Active(o) \/ task[op[o].task] # Running(o)
           \/ \E x \in StableStates : task' = [task EXCEPT ![op[o].task] = x]
        /\ UNCHANGED <<txn, clock>>
  BY DEF Settle
<1>2. \A p \in Ops : /\ Kept(p)
                     /\ Active(p)' => Active(p)
                     /\ (op'[p].status = "inserting") <=> (op[p].status = "inserting")
                     /\ p # o => Active(p)' = Active(p)
  BY <1>1 DEF OneRow, Kept, Active, ACTIVE_STATUSES, PastStatuses, Finished
<1>3. \A p \in Ops : Running(p)' = Running(p)
  BY <1>2 DEF Kept, Running
<1>4. RowLocks'
  <2>1. ASSUME NEW t \in Tasks, txn[t] # None
        PROVE  op'[txn[t]].status = "inserting" /\ op'[txn[t]].task = t /\ NoActive(t)'
    <3>1. txn[t] \in Ops /\ op[txn[t]].status = "inserting" /\ op[txn[t]].task = t
          /\ NoActive(t)
      BY <2>1 DEF Tables, RowLocks, TypeOK
    <3>2. NoActive(t)'
      BY <1>2, <3>1 DEF NoActive, Kept
    <3> QED BY <1>2, <3>1, <3>2 DEF Kept
  <2>2. ASSUME NEW p \in Ops, op'[p].status = "inserting"
        PROVE  txn[op'[p].task] = p
    BY <1>2, <2>2 DEF Tables, RowLocks, Kept
  <2> QED BY <1>1, <2>1, <2>2 DEF RowLocks
<1>5. OneActivePerTask'
  BY <1>2 DEF Tables, OneActivePerTask, Kept
<1>6. NoStrandedTask'
  <2> SUFFICES ASSUME NEW t \in Tasks, task'[t] \in RunningStates
               PROVE  \E p \in Ops : Active(p)' /\ op'[p].task = t /\ Running(p)' = task'[t]
    BY DEF NoStrandedTask
  <2>1. op[o].task \in Tasks /\ task \in [Tasks -> TaskState]
    BY DEF TypeOK, Operation
  <2>2. task'[t] = task[t]
    BY <1>1, <2>1 DEF StableStates
  <2>3. PICK p \in Ops : Active(p) /\ op[p].task = t /\ Running(p) = task[t]
    BY <2>2 DEF Tables, NoStrandedTask
  <2>4. CASE p # o
    BY <1>2, <1>3, <2>2, <2>3, <2>4 DEF Kept
  <2>5. CASE p = o
    <3>1. task' = task /\ s = op[o].status
      BY <1>1, <2>1, <2>2, <2>3, <2>5 DEF StableStates
    <3>2. Active(o)'
      BY <1>1, <2>3, <2>5, <3>1 DEF OneRow, Active
    <3> QED BY <1>2, <1>3, <2>2, <2>3, <2>5, <3>2 DEF Kept
  <2> QED BY <2>4, <2>5
<1> QED BY <1>4, <1>5, <1>6 DEF Tables

\* Under the row lock a submission is the only newcomer of its task.
LEMMA SubmitLockKeepsTables ==
    ASSUME TypeOK, Tables, NEW o \in Ops, NEW t \in Tasks, NEW k \in AiOperationKind,
           SubmitLock(o, t, k)
    PROVE  Tables'
<1>1. /\ op' \in Table /\ op'[o].status = "inserting" /\ op'[o].task = t
      /\ \A p \in Ops : p # o => op'[p] = op[p]
  BY ActionSubmitLock
<1>2. op[o].status = "absent" /\ txn[t] = None /\ NoActive(t)
      /\ txn' = [txn EXCEPT ![t] = o] /\ task' = task
  BY DEF SubmitLock
<1>3. \A p \in Ops : Active(p)' <=> Active(p)
  BY <1>1, <1>2 DEF Active, ACTIVE_STATUSES
<1>4. \A p \in Ops : Active(p) => op'[p] = op[p] /\ Running(p)' = Running(p)
  BY <1>1, <1>2 DEF Active, ACTIVE_STATUSES, Running
<1>5. \A u \in Tasks : NoActive(u) => NoActive(u)'
  BY <1>3, <1>4 DEF NoActive
<1>6. RowLocks'
  <2>1. ASSUME NEW u \in Tasks, txn'[u] # None
        PROVE  op'[txn'[u]].status = "inserting" /\ op'[txn'[u]].task = u /\ NoActive(u)'
    <3>1. CASE u = t
      BY <1>1, <1>2, <1>5, <3>1 DEF TypeOK
    <3>2. CASE u # t
      <4>1. txn'[u] = txn[u] /\ txn[u] \in Ops
        BY <1>2, <2>1, <3>2 DEF TypeOK
      <4>2. op[txn[u]].status = "inserting" /\ op[txn[u]].task = u /\ NoActive(u)
        BY <2>1, <4>1 DEF Tables, RowLocks
      <4> QED BY <1>1, <1>2, <1>5, <4>1, <4>2
    <3> QED BY <3>1, <3>2
  <2>2. ASSUME NEW p \in Ops, op'[p].status = "inserting"
        PROVE  txn'[op'[p].task] = p
    <3>1. CASE p = o
      BY <1>1, <1>2, <3>1 DEF TypeOK
    <3>2. CASE p # o
      <4>1. op'[p] = op[p] /\ op[p].task \in Tasks /\ txn[op[p].task] = p
        BY <1>1, <2>2, <3>2 DEF Tables, RowLocks, TypeOK, Operation
      <4>2. op[p].task # t
        BY <1>2, <4>1, Constants
      <4> QED BY <1>2, <4>1, <4>2 DEF TypeOK
    <3> QED BY <3>1, <3>2
  <2> QED BY <2>1, <2>2 DEF RowLocks
<1>7. OneActivePerTask'
  BY <1>3, <1>4 DEF Tables, OneActivePerTask
<1>8. NoStrandedTask'
  BY <1>2, <1>3, <1>4 DEF Tables, NoStrandedTask
<1> QED BY <1>6, <1>7, <1>8 DEF Tables

\* The end of a submission: queued with its task in the running state, or gone.
LEMMA TransactionKeepsTables ==
    ASSUME TypeOK, Tables, NEW t \in Tasks, SubmitCommit(t) \/ SubmitAbort(t)
    PROVE  Tables'
<1>1. PICK o \in Ops : /\ o = txn[t] /\ op[o].status = "inserting"
                       /\ op[o].task = t /\ NoActive(t)
  BY DEF TypeOK, Tables, RowLocks, SubmitCommit, SubmitAbort
<1>2. PICK s \in {"queued", "deleted"} :
        /\ op' = [op EXCEPT ![o].status = s]
        /\ txn' = [txn EXCEPT ![t] = None]
        /\ \/ s = "queued" /\ task' = [task EXCEPT ![t] = Running(o)]
           \/ s = "deleted" /\ task' = task
  BY <1>1 DEF SubmitCommit, SubmitAbort
<1>3. OneRow(o, s)
  BY <1>1, <1>2, SetStatus DEF TypeOK, Table, OpStatus, ACTIVE_STATUSES
<1>4. \A p \in Ops : Kept(p) /\ Running(p)' = Running(p)
  BY <1>3 DEF OneRow, Kept, Running
<1>5. \A p \in Ops : p # o => op'[p] = op[p] /\ (Active(p)' <=> Active(p))
  BY <1>3 DEF OneRow, Active
<1>6. ~Active(o) /\ (Active(o)' <=> s = "queued")
  BY <1>1, <1>3 DEF OneRow, Active, ACTIVE_STATUSES
<1>7. RowLocks'
  <2>1. ASSUME NEW u \in Tasks, txn'[u] # None
        PROVE  op'[txn'[u]].status = "inserting" /\ op'[txn'[u]].task = u /\ NoActive(u)'
    <3>1. u # t /\ txn'[u] = txn[u] /\ txn[u] \in Ops
      BY <1>2, <2>1 DEF TypeOK
    <3>2. op[txn[u]].status = "inserting" /\ op[txn[u]].task = u /\ NoActive(u)
      BY <2>1, <3>1 DEF Tables, RowLocks
    <3>3. txn[u] # o
      BY <1>1, <3>1, <3>2
    <3>4. NoActive(u)'
      BY <1>1, <1>4, <1>5, <3>1, <3>2 DEF NoActive, Kept
    <3> QED BY <1>5, <3>1, <3>2, <3>3, <3>4
  <2>2. ASSUME NEW p \in Ops, op'[p].status = "inserting"
        PROVE  txn'[op'[p].task] = p
    <3>1. p # o
      BY <1>2, <1>3, <2>2 DEF OneRow
    <3>2. op'[p] = op[p] /\ op[p].task \in Tasks /\ txn[op[p].task] = p
      BY <1>5, <2>2, <3>1 DEF Tables, RowLocks, TypeOK, Operation
    <3>3. op[p].task # t
      BY <1>1, <3>1, <3>2
    <3> QED BY <1>2, <3>2, <3>3 DEF TypeOK
  <2> QED BY <2>1, <2>2 DEF RowLocks
<1>8. OneActivePerTask'
  BY <1>1, <1>4, <1>5, <1>6 DEF Tables, OneActivePerTask, NoActive, Kept
<1>9. NoStrandedTask'
  <2> SUFFICES ASSUME NEW u \in Tasks, task'[u] \in RunningStates
               PROVE  \E p \in Ops : Active(p)' /\ op'[p].task = u /\ Running(p)' = task'[u]
    BY DEF NoStrandedTask
  <2>1. CASE u = t /\ s = "queued"
    BY <1>1, <1>2, <1>4, <1>6, <2>1 DEF Kept, TypeOK
  <2>2. CASE ~(u = t /\ s = "queued")
    <3>1. task'[u] = task[u]
      BY <1>2, <2>2 DEF TypeOK
    <3>2. PICK p \in Ops : Active(p) /\ op[p].task = u /\ Running(p) = task[u]
      BY <3>1 DEF Tables, NoStrandedTask
    <3> QED BY <1>4, <1>5, <1>6, <3>1, <3>2 DEF Kept
  <2> QED BY <2>1, <2>2
<1> QED BY <1>7, <1>8, <1>9 DEF Tables

\* Steps that neither add active rows, remove them, nor touch tasks and locks.
LEMMA SameActiveKeepsTables ==
    ASSUME TypeOK, Tables, UNCHANGED <<task, txn>>,
           \A p \in Ops : /\ Kept(p)
                          /\ Active(p)' <=> Active(p)
                          /\ (op'[p].status = "inserting") <=> (op[p].status = "inserting")
    PROVE  Tables'
<1>1. \A p \in Ops : Running(p)' = Running(p)
  BY DEF Kept, Running
<1>2. \A t \in Tasks : NoActive(t) => NoActive(t)'
  BY DEF NoActive, Kept
<1>3. RowLocks'
  <2>1. ASSUME NEW t \in Tasks, txn[t] # None
        PROVE  op'[txn[t]].status = "inserting" /\ op'[txn[t]].task = t /\ NoActive(t)'
    BY <1>2, <2>1 DEF Tables, RowLocks, TypeOK, Kept
  <2> QED BY <2>1 DEF Tables, RowLocks, Kept
<1>4. OneActivePerTask'
  BY DEF Tables, OneActivePerTask, Kept
<1>5. NoStrandedTask'
  BY <1>1 DEF Tables, NoStrandedTask, Kept
<1> QED BY <1>3, <1>4, <1>5 DEF Tables

\* Every step keeps row locks, one active operation per task, and no stranded task.
LEMMA TablesStep ==
    ASSUME TypeOK, Tables, JobsHaveOperations, Claims, Next
    PROVE  Tables'
<1>1. ASSUME NEW m \in Members, ClearCompleted(m) PROVE Tables'
  <2>1. UNCHANGED <<task, txn>>
    BY <1>1 DEF ClearCompleted
  <2> QED BY <1>1, <2>1, ClearEffect, SameActiveKeepsTables
          DEF Active, ACTIVE_STATUSES, Finished
<1>2. ASSUME NEW w \in Workers, NEW m \in Members, Claim(w, m) PROVE Tables'
  <2>1. UNCHANGED <<task, txn>>
    BY <1>2, ClaimEffect DEF Claim
  <2>2. \A p \in Ops : /\ Kept(p)
                       /\ Active(p)' <=> Active(p)
                       /\ (op'[p].status = "inserting") <=> (op[p].status = "inserting")
    BY <1>2, ClaimEffect DEF OneRow, Kept, Active, ACTIVE_STATUSES
  <2> QED BY <2>1, <2>2, SameActiveKeepsTables
<1>3. CASE TickClock
  <2>1. UNCHANGED <<task, txn>>
    BY <1>3 DEF TickClock
  <2> QED BY <1>3, <2>1, TickEffect, SameActiveKeepsTables DEF Active
<1>4. CASE UNCHANGED <<op, task, txn, clock>>
  BY <1>4, SameActiveKeepsTables DEF Active, Kept
<1> QED BY <1>1, <1>2, <1>3, <1>4, TableStep, SubmitLockKeepsTables,
           TransactionKeepsTables, SettleKeepsTables

-----------------------------------------------------------------------------
(* What a step can do to the jobs and leases *)

\* The steps of one job, from beginning to end.
Step(w, m) == Poll(w, m) \/ JobStep(w, m) \/ JobFault(w, m)

\* Job (w, m) keeps its operation and goes to pc.
Moves(w, m, pc) == /\ job[w][m].pc # "idle"
                   /\ job'[w][m].op = job[w][m].op
                   /\ job'[w][m].pc = pc

\* How a job can begin, go on and end.
JobMoves(w, m) ==
    \/ job'[w][m].pc = "idle"
    \/ \E pc \in {"picked", "returning", "raising", "handling", "resetting"} : Moves(w, m, pc)
    \/ AcquireLease(w, m) /\ Moves(w, m, "leased")
    \/ job[w][m].pc = "leased" /\ Moves(w, m, "checked") /\ lease' = lease
    \/ Claim(w, m) /\ Moves(w, m, "calling")
    \/ CallSucceeds(w, m) /\ Moves(w, m, "committed")
    \/ /\ RecoverRead(w, m)
       /\ \E o \in Ops : /\ Stale(o) /\ Member(o) = m
                         /\ job'[w][m].pc = "recovering" /\ job'[w][m].op = o
                         /\ job'[w][m].reset \/ task[op[o].task] # Running(o)
    \/ /\ Pick(w, m)
       /\ \E o \in Ops : /\ op[o].status = "queued" /\ Member(o) = m /\ FirstInQueue(o)
                         /\ job'[w][m].pc = "picked" /\ job'[w][m].op = o

OtherJobsKept(w, m) == \A v \in Workers, n \in Members :
                         v # w \/ n # m => job'[v][n] = job[v][n]

\* A new job record in an empty slot.
LEMMA StartJob ==
    ASSUME TypeOK, NEW w \in Workers, NEW m \in Members, NEW o \in Ops,
           NEW pc \in JobPC, NEW b \in BOOLEAN,
           job' = [job EXCEPT ![w][m] = [pc |-> pc, op |-> o, reset |-> b]]
    PROVE  /\ job' \in Jobs /\ OtherJobsKept(w, m)
           /\ job'[w][m] = [pc |-> pc, op |-> o, reset |-> b]
<1> DEFINE j == [pc |-> pc, op |-> o, reset |-> b]
           row == [job[w] EXCEPT ![m] = j]
<1>1. j \in Job
  BY DEF Job
<1>2. job' = [job EXCEPT ![w] = row]
  BY DEF TypeOK
<1> HIDE DEF j
<1>3. row \in [Members -> Job] /\ row[m] = j
      /\ \A n \in Members : n # m => row[n] = job[w][n]
  BY <1>1 DEF TypeOK
<1> HIDE DEF row
<1>4. job' \in Jobs /\ OtherJobsKept(w, m) /\ job'[w][m] = j
  BY <1>2, <1>3 DEF TypeOK, Jobs, OtherJobsKept
<1> QED BY <1>4 DEF j

\* Every step of a job changes only that job, in one of the ways of JobMoves.
LEMMA StepMovesJob ==
    ASSUME TypeOK, NEW w \in Workers, NEW m \in Members, Step(w, m)
    PROVE  job' \in Jobs /\ OtherJobsKept(w, m) /\ JobMoves(w, m)
<1> DEFINE Goal == job' \in Jobs /\ OtherJobsKept(w, m) /\ JobMoves(w, m)
<1> USE DEF TypeOK, OtherJobsKept
<1>0. job \in Jobs
  BY DEF Jobs
<1>1. CASE EndJob(w, m)
  BY <1>0, <1>1, EndJobEffect DEF JobMoves
<1>2. ASSUME NEW pc \in {"returning", "raising", "handling", "resetting"}, SetJob(w, m, pc),
             job[w][m].pc # "idle"
      PROVE  Goal
  <2>1. pc \in JobPC
    BY DEF JobPC
  <2> QED BY <1>0, <1>2, <2>1, SetJobEffect DEF JobMoves, Moves
<1>3. CASE RecoverRead(w, m)
  <2>1. PICK o \in Ops :
          /\ Stale(o) /\ Member(o) = m
          /\ job' = [job EXCEPT ![w][m] = [pc |-> "recovering", op |-> o,
                                           reset |-> task[op[o].task] = Running(o)]]
    BY <1>3 DEF RecoverRead
  <2>2. "recovering" \in JobPC
    BY DEF JobPC
  <2>3. /\ job' \in Jobs /\ OtherJobsKept(w, m)
        /\ job'[w][m].pc = "recovering" /\ job'[w][m].op = o
        /\ job'[w][m].reset \/ task[op[o].task] # Running(o)
    <3>1. PICK b \in BOOLEAN : b = (task[op[o].task] = Running(o))
      OBVIOUS
    <3>2. job' = [job EXCEPT ![w][m] = [pc |-> "recovering", op |-> o, reset |-> b]]
      BY <2>1, <3>1
    <3>3. job' \in Jobs /\ OtherJobsKept(w, m)
          /\ job'[w][m] = [pc |-> "recovering", op |-> o, reset |-> b]
      BY <2>2, <3>1, <3>2, StartJob, ZenonT(30)
    <3>4. job'[w][m].reset = b /\ job'[w][m].pc = "recovering" /\ job'[w][m].op = o
      BY <3>3
    <3>5. b \/ task[op[o].task] # Running(o)
      BY <3>1
    <3> QED BY <3>3, <3>4, <3>5, Zenon
  <2> QED BY <1>3, <2>1, <2>3 DEF JobMoves
<1>4. CASE Pick(w, m)
  <2>1. PICK o \in Ops :
          /\ op[o].status = "queued" /\ Member(o) = m /\ FirstInQueue(o)
          /\ job' = [job EXCEPT ![w][m] = [pc |-> "picked", op |-> o, reset |-> FALSE]]
    BY <1>4 DEF Pick
  <2>2. "picked" \in JobPC
    BY DEF JobPC
  <2> QED BY <1>4, <2>1, <2>2, StartJob, ZenonT(30) DEF JobMoves
<1>5. CASE AcquireLease(w, m)
  <2>1. SetJob(w, m, "leased") /\ job[w][m].pc # "idle" /\ "leased" \in JobPC
    BY <1>5 DEF AcquireLease, At, JobPC
  <2> QED BY <1>0, <1>5, <2>1, SetJobEffect DEF JobMoves, Moves
<1>6. CASE Claim(w, m)
  <2>1. SetJob(w, m, "calling") /\ job[w][m].pc # "idle" /\ "calling" \in JobPC
    BY <1>6 DEF Claim, At, JobPC
  <2> QED BY <1>0, <1>6, <2>1, SetJobEffect DEF JobMoves, Moves
<1>7. CASE CallSucceeds(w, m)
  <2>1. SetJob(w, m, "committed") /\ job[w][m].pc # "idle" /\ "committed" \in JobPC
    BY <1>7 DEF CallSucceeds, At, JobPC
  <2> QED BY <1>0, <1>7, <2>1, SetJobEffect DEF JobMoves, Moves
<1>8. CASE Recheck(w, m)
  <2>1. CASE SetJob(w, m, "checked")
    <3>1. job[w][m].pc = "leased" /\ "checked" \in JobPC /\ lease' = lease
      BY <1>8 DEF Recheck, At, JobPC
    <3> QED BY <1>0, <2>1, <3>1, SetJobEffect DEF JobMoves, Moves
  <2> QED BY <1>2, <1>8, <2>1 DEF Recheck, At
<1>9. CASE Release(w, m) \/ ReleaseLost(w, m)
  BY <1>1, <1>2, <1>9 DEF Release, ReleaseLost, LeaveLease, At
<1>10. CASE \/ PrepareError(w, m) \/ ClaimError(w, m) \/ ClaimRefused(w, m) \/ ClaimLost(w, m)
            \/ CallFails(w, m) \/ CallFailsUnrecorded(w, m) \/ Refresh(w, m)
            \/ RefreshFails(w, m) \/ HandlerRead(w, m)
  BY <1>1, <1>2, <1>10 DEF PrepareError, ClaimError, ClaimRefused, ClaimLost, CallFails,
                     CallFailsUnrecorded, Refresh, RefreshFails, HandlerRead, At
<1>11. CASE \/ PrepareReturn(w, m) \/ LeaseBusy(w, m) \/ LeaseUnavailable(w, m)
            \/ RecoverWrite(w, m) \/ Handle(w, m) \/ HandleFails(w, m)
            \/ CancelOutside(w, m) \/ CancelAcquiring(w, m) \/ CancelUnrecorded(w, m)
            \/ CancelReleasing(w, m) \/ CancelClaimed(w, m)
  BY <1>1, <1>11 DEF PrepareReturn, LeaseBusy, LeaseUnavailable, RecoverWrite, Handle,
                     HandleFails, CancelOutside, CancelAcquiring, CancelUnrecorded,
                     CancelReleasing, CancelClaimed
<1>12. CASE RecoverInJob(w, m)
  BY <1>12, SMTT(30) DEF RecoverInJob, At, Jobs, JobMoves, Moves
<1> QED BY <1>3, <1>4, <1>5, <1>6, <1>7, <1>8, <1>9, <1>10, <1>11, <1>12
        DEF Step, Poll, JobStep, JobFault

Leases == [Members -> [holder : Workers \cup {None}, ttl : 0..LeaseTTL]]

\* A step of a job leaves the leases alone, takes the free lease of its member, for
\* itself or for nobody, or gives its own back when it no longer needs it.
LEMMA StepLease ==
    ASSUME TypeOK, NEW w \in Workers, NEW m \in Members, Step(w, m)
    PROVE  /\ lease' \in Leases
           /\ \A k \in Members \ {m} : lease'[k] = lease[k]
           /\ \/ lease' = lease
              \/ /\ AcquireLease(w, m) \/ job'[w][m].pc = "idle"
                 /\ lease[m].holder = None
                 /\ lease'[m] = [holder |-> w, ttl |-> LeaseTTL]
              \/ /\ lease[m].holder = w
                 /\ job'[w][m].pc \in {"idle", "handling"}
<1> USE DEF Leases, TypeOK
<1>0. /\ Granted(w, m) \in Leases /\ Granted(w, m)[m] = [holder |-> w, ttl |-> LeaseTTL]
      /\ \A n \in Members : n # m => Granted(w, m)[n] = lease[n]
  BY Constants DEF Granted
<1>1. CASE AcquireLease(w, m)
  BY <1>0, <1>1 DEF AcquireLease, LeaseFree
<1>2. ReleasedLease(w, m) \in Leases
  BY Constants DEF ReleasedLease, FreeLease
<1>3. \A n \in Members : n # m => ReleasedLease(w, m)[n] = lease[n]
  BY DEF ReleasedLease
<1>4. ReleasedLease(w, m) = lease \/ lease[m].holder = w
  BY DEF ReleasedLease
<1>5. EndJob(w, m) \/ SetJob(w, m, "handling") => job'[w][m].pc \in {"idle", "handling"}
  <2>1. job \in Jobs /\ "handling" \in JobPC
    BY DEF Jobs, JobPC
  <2> QED BY <2>1, EndJobEffect, SetJobEffect
<1>8. CASE LeaseUnavailable(w, m) \/ CancelAcquiring(w, m)
  <2>1. SetUnanswered(w, m) /\ EndJob(w, m)
    BY <1>8 DEF LeaseUnavailable, CancelAcquiring
  <2>2. job'[w][m].pc = "idle"
    BY <2>1, EndJobEffect DEF Jobs
  <2> QED BY <1>0, <2>1, <2>2 DEF SetUnanswered, LeaseFree
<1>6. CASE Release(w, m) \/ CancelUnrecorded(w, m) \/ CancelReleasing(w, m) \/ CancelClaimed(w, m)
  <2>1. lease' \in {lease, ReleasedLease(w, m)} /\ (EndJob(w, m) \/ SetJob(w, m, "handling"))
    BY <1>6 DEF Release, LeaveLease, CancelUnrecorded, CancelReleasing, CancelClaimed
  <2> QED BY <1>2, <1>3, <1>4, <1>5, <2>1
<1>7. CASE UNCHANGED lease
  BY <1>7
<1> QED BY <1>1, <1>6, <1>7, <1>8
        DEF Step, Poll, JobStep, JobFault, RecoverRead, Pick, RecoverWrite,
            PrepareReturn, PrepareError, RecoverInJob, LeaseBusy, Recheck, ClaimError,
            ClaimRefused, ClaimLost, Claim, CallSucceeds, CallFails, Refresh,
            HandlerRead, Handle, CancelOutside, ReleaseLost,
            CallFailsUnrecorded, RefreshFails, HandleFails

\* A step of another job leaves a lease that is held alone.
LEMMA OtherLeaseKept ==
    ASSUME TypeOK, NEW w \in Workers, NEW m \in Members, Step(w, m),
           NEW v \in Workers, NEW n \in Members, lease[n].holder = v, v # w \/ n # m
    PROVE  lease'[n] = lease[n]
<1>1. lease' = lease \/ lease[m].holder = None \/ lease[m].holder = w
  BY StepLease
<1>2. CASE n # m
  <2>1. n \in Members \ {m}
    BY <1>2
  <2>2. \A k \in Members \ {m} : lease'[k] = lease[k]
    BY StepLease, Zenon
  <2> QED BY <2>1, <2>2
<1>3. CASE n = m
  <2>1. lease[m].holder # None /\ lease[m].holder # w
    BY <1>3, Constants
  <2> QED BY <1>1, <1>3, <2>1
<1> QED BY <1>2, <1>3

\* Time takes one from every running key.
LEMMA TickLease ==
    ASSUME TypeOK, TickClock, NEW m \in Members
    PROVE  /\ lease'[m] \in [holder : Workers \cup {None}, ttl : 0..LeaseTTL]
           /\ lease[m].ttl > 1 => lease'[m].holder = lease[m].holder
                                  /\ lease'[m].ttl = lease[m].ttl - 1
<1>1. lease[m] \in [holder : Workers \cup {None}, ttl : 0..LeaseTTL]
  BY DEF TypeOK
<1>2. lease'[m] = Expire(lease[m])
  BY DEF TickClock
<1> QED BY <1>1, <1>2, Constants DEF Expire, FreeLease

\* Every step that is not a job's leaves jobs and leases alone, or is a crash,
\* or is the passing of time.
LEMMA JobsStep ==
    ASSUME Next
    PROVE  \/ \E w \in Workers, m \in Members : Step(w, m)
           \/ UNCHANGED <<job, lease>>
           \/ \E w \in Workers : Crash(w)
           \/ TickClock
BY DEF Next, Step, Request, Transaction, Process, SubmitLock, Retry, Cancel,
       ClearCompleted, SubmitCommit, SubmitAbort, Shutdown, Stopped, Restart

\* A crash empties the slots of one process.
LEMMA CrashEffect ==
    ASSUME TypeOK, NEW w \in Workers, Crash(w)
    PROVE  /\ job' \in Jobs /\ lease' = lease
           /\ \A v \in Workers, m \in Members :
                job'[v][m] = job[v][m] \/ job'[v][m].pc = "idle"
<1>1. IdleJob \in Job /\ IdleJob.pc = "idle"
  BY DEF IdleJob, Job, JobPC
<1> QED BY <1>1 DEF Crash, TypeOK, Jobs

-----------------------------------------------------------------------------
(* The invariants of jobs and leases *)

\* A job that is busy after a step was busy with the same operation before it,
\* or has just been started.
LEMMA BusyBefore ==
    ASSUME TypeOK, Next, NEW v \in Workers, NEW n \in Members,
           job'[v][n].pc # "idle"
    PROVE  \/ job[v][n].pc # "idle" /\ job'[v][n].op = job[v][n].op
           \/ RecoverRead(v, n) /\ \E o \in Ops : /\ job'[v][n].op = o /\ Stale(o)
                                                  /\ Member(o) = n
           \/ Pick(v, n) /\ \E o \in Ops : /\ job'[v][n].op = o /\ op[o].status = "queued"
                                           /\ Member(o) = n /\ FirstInQueue(o)
<1>1. ASSUME NEW w \in Workers, NEW m \in Members, Step(w, m), v # w \/ n # m
      PROVE  job'[v][n] = job[v][n]
  BY <1>1, StepMovesJob DEF OtherJobsKept
<1>2. CASE Step(v, n)
  BY <1>2, StepMovesJob DEF JobMoves, Moves
<1>3. TickClock => job' = job
  BY DEF TickClock
<1> QED BY <1>1, <1>2, <1>3, JobsStep, CrashEffect

\* Every step keeps jobs on committed operations of their member.
LEMMA JobsHaveOperationsStep ==
    ASSUME TypeOK, RowLocks, JobsHaveOperations, Claims, Next
    PROVE  JobsHaveOperations'
<1> SUFFICES ASSUME NEW v \in Workers, NEW n \in Members, job'[v][n].pc # "idle"
             PROVE  /\ job'[v][n].op \in Ops
                    /\ op'[job'[v][n].op].status \notin {"absent", "inserting"}
                    /\ OwnerOf[op'[job'[v][n].op].task] = n
  BY DEF JobsHaveOperations, Member
<1>1. PICK o \in Ops : /\ job'[v][n].op = o
                       /\ op[o].status \notin {"absent", "inserting"}
                       /\ OwnerOf[op[o].task] = n
  BY BusyBefore DEF JobsHaveOperations, Member, Stale
<1>2. Kept(o) /\ op'[o].status \notin {"absent", "inserting"}
  BY <1>1, RowsMoveOn
<1> QED BY <1>1, <1>2 DEF Kept

\* Every step keeps the lease with the job that needs it.
LEMMA LeaseCoversStep ==
    ASSUME TypeOK, LeaseCovers, Next
    PROVE  LeaseCovers'
<1> SUFFICES ASSUME NEW v \in Workers, NEW n \in Members, job'[v][n].pc \in Holding
             PROVE  lease'[n].holder = v /\ lease'[n].ttl >= LeaseTTL - CallBound
  BY DEF LeaseCovers
<1>1. ASSUME job'[v][n] = job[v][n], lease'[n] = lease[n]
      PROVE  lease'[n].holder = v /\ lease'[n].ttl >= LeaseTTL - CallBound
  BY <1>1 DEF LeaseCovers
<1>2. CASE Step(v, n)
  <2>1. CASE AcquireLease(v, n)
    <3>1. lease'[n] = [holder |-> v, ttl |-> LeaseTTL]
      BY <2>1 DEF AcquireLease, Granted, TypeOK
    <3> QED BY <3>1, Constants
  <2>2. CASE ~AcquireLease(v, n)
    <3>1. lease' = lease
      BY <1>2, <2>2, StepLease DEF Holding
    <3>2. job[v][n].pc \in Holding
      BY <1>2, <2>2, StepMovesJob
         DEF JobMoves, Moves, Holding, Claim, CallSucceeds, At
    <3> QED BY <3>1, <3>2 DEF LeaseCovers
  <2> QED BY <2>1, <2>2
<1>3. ASSUME NEW w \in Workers, NEW m \in Members, Step(w, m), v # w \/ n # m
      PROVE  lease'[n].holder = v /\ lease'[n].ttl >= LeaseTTL - CallBound
  <2>1. job'[v][n] = job[v][n]
    BY <1>3, StepMovesJob DEF OtherJobsKept
  <2>2. lease[n].holder = v
    BY <2>1 DEF LeaseCovers
  <2>3. lease'[n] = lease[n]
    BY <1>3, <2>2, OtherLeaseKept
  <2> QED BY <1>1, <2>1, <2>3
<1>4. CASE UNCHANGED <<job, lease>>
  BY <1>1, <1>4
<1>5. CASE \E w \in Workers : Crash(w)
  BY <1>1, <1>5, CrashEffect DEF Holding
<1>6. CASE TickClock
  <2>1. job' = job /\ lease[n].ttl > LeaseTTL - CallBound
    BY <1>6 DEF TickClock
  <2>2. lease[n].holder = v /\ lease[n].ttl \in 0..LeaseTTL
    BY <2>1 DEF LeaseCovers, TypeOK
  <2> QED BY <1>6, <2>1, <2>2, TickLease, Constants
<1> QED BY <1>2, <1>3, <1>4, <1>5, <1>6, JobsStep

\* The lease keeps two jobs of one member out of the lease block at once.
LEMMA OneHolder ==
    ASSUME LeaseCovers, NEW v \in Workers, NEW w \in Workers, NEW m \in Members,
           job[v][m].pc \in Holding, job[w][m].pc \in Holding
    PROVE  v = w
BY DEF LeaseCovers

\* An operation in a call is younger than the stale limit.
LEMMA CallIsFresh ==
    ASSUME TypeOK, LeaseCovers, Claims, JobsHaveOperations,
           NEW v \in Workers, NEW n \in Members, job[v][n].pc = "calling"
    PROVE  ~Stale(job[v][n].op)
<1>1. op[job[v][n].op].age + lease[n].ttl <= LeaseTTL
  BY DEF Claims
<1>2. lease[n].ttl >= LeaseTTL - CallBound /\ lease[n].ttl \in 0..LeaseTTL
  BY DEF LeaseCovers, Holding, TypeOK
<1>3. op[job[v][n].op].age \in 0..StaleAfter + 1
  BY JobOperation DEF TypeOK, Operation
<1> QED BY <1>1, <1>2, <1>3, Constants DEF Stale

\* While a job stays in its call, nobody else moves its operation.
LEMMA CallKept ==
    ASSUME TypeOK, RowLocks, JobsHaveOperations, LeaseCovers, Claims, Next,
           NEW v \in Workers, NEW n \in Members, NEW o \in Ops,
           job[v][n].pc = "calling", job[v][n].op = o, job'[v][n].pc = "calling"
    PROVE  /\ op'[o].status = "running"
           /\ TickClock \/ op'[o].age = op[o].age
<1>1. op[o].status = "running" /\ OwnerOf[op[o].task] = n /\ ~Stale(o)
  BY CallIsFresh DEF Claims, JobsHaveOperations, Member
<1>2. ASSUME NEW w \in Workers, NEW m \in Members, Step(w, m), v # w \/ n # m
      PROVE  op'[o].status = "running" /\ op'[o].age = op[o].age
  <2>1. ASSUME job[w][m].pc \in Holding PROVE job[w][m].op # o
    <3>1. job[w][m].op = o => m = n
      BY <1>1, <2>1 DEF JobsHaveOperations, Member, Holding
    <3> QED BY <1>2, <2>1, <3>1, OneHolder DEF Holding
  <2>2. CASE CallSucceeds(w, m) \/ CallFails(w, m) \/ CancelClaimed(w, m) \/ Claim(w, m)
    <3>1. job[w][m].op # o /\ job[w][m].op \in Ops
      BY <2>1, <2>2, JobOperation
         DEF CallSucceeds, CallFails, CancelClaimed, Claim, At, Stopping, Holding
    <3>2. \/ Settle(job[w][m].op)
          \/ OneRow(job[w][m].op, "running")
          \/ op' = op
      BY <2>2, CallSucceedsSettles, CallFailsSettles, CancelClaimedSettles, ClaimEffect
    <3>3. op'[o] = op[o]
      BY <3>1, <3>2, Zenon DEF Settle, OneRow
    <3> QED BY <1>1, <3>3
  <2>3. CASE RecoverWrite(w, m)
    <3>1. job[w][m].op # o /\ job[w][m].op \in Ops
      BY <1>1, <2>3, JobOperation DEF RecoverWrite, Claims, Past, Finished
    <3>2. op'[o] = op[o]
      BY <2>3, <3>1, RecoverWriteSettles DEF Settle, OneRow
    <3> QED BY <1>1, <3>2
  <2>4. CASE Handle(w, m)
    BY <1>1, <2>4, HandleSettles DEF Settle, OneRow
  <2>5. CASE RecoverInJob(w, m)
    BY <1>1, <2>5, RecoverInJobSettles DEF Settle, OneRow
  <2> QED BY <1>1, <1>2, <2>2, <2>3, <2>4, <2>5, QuietSteps DEF Step, JobStep
<1>3. CASE Step(v, n)
  <2>1. Claim(v, n)
    BY <1>3, StepMovesJob DEF JobMoves, Moves
  <2> QED BY <2>1 DEF Claim, At
<1>4. CASE Request
  <2>1. CASE \E p \in Ops : Cancel(p)
    BY <1>1, <2>1, CancelSettles DEF Settle, OneRow
  <2>2. CASE \E m \in Members : ClearCompleted(m)
    BY <1>1, <2>2, ClearEffect DEF Finished
  <2>3. CASE \E p \in Ops, t \in Tasks, k \in AiOperationKind : SubmitLock(p, t, k)
    BY <1>1, <2>3, ActionSubmitLock DEF SubmitLock
  <2>4. CASE \E p, old \in Ops : Retry(p, old)
    <3>1. PICK p \in Ops, old \in Ops : Retry(p, old)
      BY <2>4
    <3>2. op[old].task \in Tasks /\ op[old].kind \in AiOperationKind
      BY DEF TypeOK, Operation
    <3> QED BY <2>3, <3>1, <3>2 DEF Retry
  <2> QED BY <1>4, <2>1, <2>2, <2>3, <2>4 DEF Request
<1>5. CASE \E t \in Tasks : Transaction(t)
  <2>1. PICK t \in Tasks : SubmitCommit(t) \/ SubmitAbort(t)
    BY <1>5 DEF Transaction
  <2>2. txn[t] \in Ops /\ op[txn[t]].status = "inserting"
    BY <2>1 DEF TypeOK, RowLocks, SubmitCommit, SubmitAbort
  <2>3. txn[t] # o
    BY <1>1, <2>2
  <2> QED BY <1>1, <2>1, <2>2, <2>3 DEF SubmitCommit, SubmitAbort, TypeOK
<1>6. CASE \E w \in Workers : Process(w)
  BY <1>1, <1>6 DEF Process, Shutdown, Stopped, Crash, Restart
<1>7. CASE TickClock
  BY <1>1, <1>7, TickEffect
<1> QED BY <1>2, <1>3, <1>4, <1>5, <1>6, <1>7 DEF Next, Step

\* A stale row whose task has moved on stays so until it is past: no step puts
\* the task of an active operation into a running state.
LEMMA StaleStays ==
    ASSUME TypeOK, Tables, JobsHaveOperations, Claims, Next, NEW o \in Ops, Stale(o)
    PROVE  /\ Past(o)' \/ Stale(o)'
           /\ task[op[o].task] # Running(o) =>
                Past(o)' \/ (task[op[o].task] # Running(o))'
<1> DEFINE t == op[o].task
<1>1. op[o].status = "running" /\ op[o].age > StaleAfter /\ op[o].age \in Nat
      /\ t \in Tasks /\ Active(o) /\ Running(o) \in RunningStates
  BY Constants, KindStates DEF Stale, TypeOK, Operation, Active, ACTIVE_STATUSES, Running
<1>2. Kept(o) /\ Running(o)' = Running(o)
  BY <1>1, RowsMoveOn DEF Tables, Kept, Running
<1>3. UNCHANGED op => Stale(o)'
  BY <1>1 DEF Stale
<1>4. ASSUME NEW p \in Ops, NEW u \in Tasks, NEW k \in AiOperationKind, SubmitLock(p, u, k)
      PROVE  op'[o] = op[o] /\ task' = task
  BY <1>1, <1>4, ActionSubmitLock DEF SubmitLock
<1>5. ASSUME NEW u \in Tasks, SubmitCommit(u) \/ SubmitAbort(u)
      PROVE  op'[o] = op[o] /\ task'[t] = task[t]
  <2>1. txn[u] \in Ops /\ op[txn[u]].status = "inserting" /\ NoActive(u)
    BY <1>5 DEF Tables, RowLocks, TypeOK, SubmitCommit, SubmitAbort
  <2>2. txn[u] # o /\ u # t
    BY <1>1, <2>1 DEF NoActive
  <2> QED BY <1>1, <1>5, <2>1, <2>2 DEF SubmitCommit, SubmitAbort, TypeOK
<1>6. ASSUME NEW m \in Members, ClearCompleted(m)
      PROVE  op'[o].status = "running" /\ op'[o].age = op[o].age /\ task' = task
  BY <1>1, <1>6, ClearEffect DEF Finished, ClearCompleted
<1>7. ASSUME NEW p \in Ops, Settle(p)
      PROVE  /\ Past(o)' \/ (op'[o].status = "running" /\ op'[o].age = op[o].age)
             /\ task'[t] = task[t] \/ task'[t] \in StableStates
  <2>1. Past(o)' \/ (op'[o].status = "running" /\ op'[o].age = op[o].age)
    BY <1>1, <1>7 DEF Settle, OneRow, Past, PastStatuses
  <2>2. task'[t] = task[t] \/ task'[t] \in StableStates
    <3>1. CASE task' = task
      BY <3>1
    <3>2. ASSUME NEW x \in StableStates, task' = [task EXCEPT ![op[p].task] = x]
          PROVE  task'[t] = task[t] \/ task'[t] \in StableStates
      BY <1>1, <3>2 DEF TypeOK
    <3> QED BY <1>7, <3>1, <3>2 DEF Settle
  <2> QED BY <2>1, <2>2
<1>8. ASSUME NEW w \in Workers, NEW m \in Members, Claim(w, m)
      PROVE  op'[o] = op[o] /\ task' = task
  <2>1. job[w][m].op # o
    BY <1>1, <1>8, ClaimEffect
  <2> QED BY <1>8, <2>1, ClaimEffect DEF OneRow
<1>9. CASE TickClock
  <2>1. op'[o].status = "running" /\ op'[o].age >= op[o].age /\ op'[o].age \in Nat
    BY <1>1, <1>9, TickEffect
  <2>2. task' = task
    BY <1>9 DEF TickClock
  <2> QED BY <1>1, <1>2, <2>1, <2>2, Constants DEF Stale, Kept
<1>10. CASE UNCHANGED <<op, task, txn, clock>>
  BY <1>1, <1>3, <1>10 DEF Running
<1>11. StableStates \cap RunningStates = {}
  BY DEF StableStates
<1>12. op'[o].status = "running" /\ op'[o].age = op[o].age => Stale(o)'
  BY <1>1 DEF Stale
<1> HIDE DEF t
<1> QED BY <1>1, <1>2, <1>4, <1>5, <1>6, <1>7, <1>8, <1>9, <1>10, <1>11, <1>12, TableStep
        DEF t, Kept

\* Every step keeps calls and recoveries entitled to their operation.
LEMMA ClaimsStep ==
    ASSUME TypeOK, Tables, JobsHaveOperations, LeaseCovers, Claims, Next
    PROVE  Claims'
<1> SUFFICES ASSUME NEW v \in Workers, NEW n \in Members
             PROVE  /\ job'[v][n].pc = "calling" =>
                         /\ op'[job'[v][n].op].status = "running"
                         /\ op'[job'[v][n].op].age + lease'[n].ttl <= LeaseTTL
                    /\ job'[v][n].pc = "committed" => Past(job[v][n].op)'
                    /\ job'[v][n].pc = "recovering" =>
                         \/ Past(job[v][n].op)'
                         \/ /\ Stale(job[v][n].op)'
                            /\ \/ job'[v][n].reset
                               \/ (task[op[job[v][n].op].task] # Running(job[v][n].op))'
  BY DEF Claims
<1> USE DEF Holding
<1>0. RowLocks
  BY DEF Tables
<1>1. ASSUME job'[v][n].pc = "calling"
      PROVE  /\ op'[job'[v][n].op].status = "running"
             /\ op'[job'[v][n].op].age + lease'[n].ttl <= LeaseTTL
  <2>1. CASE Claim(v, n)
    <3>1. PICK o \in Ops : o = job[v][n].op
      BY <2>1, JobOperation DEF Claim, At
    <3>2. OneRow(o, "running") /\ op'[o].age = 0
      BY <2>1, <3>1, ClaimEffect
    <3>3. job'[v][n].op = o
      BY <1>1, <2>1, <3>1, StepMovesJob DEF Step, JobStep, JobMoves, Moves, Claim, At,
                                      AcquireLease, RecoverRead, Pick, CallSucceeds
    <3>4. lease'[n].ttl \in 0..LeaseTTL
      BY <2>1 DEF Claim, TypeOK
    <3> QED BY <3>2, <3>3, <3>4, Constants DEF OneRow
  <2>2. CASE ~Claim(v, n)
    <3>1. job[v][n].pc = "calling" /\ job'[v][n].op = job[v][n].op
      <4>1. CASE Step(v, n)
        BY <1>1, <2>2, <4>1, StepMovesJob DEF JobMoves, Moves
      <4>2. CASE ~Step(v, n)
        <5>1. job'[v][n] = job[v][n] \/ job'[v][n].pc = "idle"
          BY <4>2, JobsStep, StepMovesJob, CrashEffect DEF OtherJobsKept, TickClock
        <5> QED BY <1>1, <5>1
      <4> QED BY <4>1, <4>2
    <3>2. PICK o \in Ops : o = job[v][n].op
      BY <3>1, JobOperation
    <3>3. op'[o].status = "running" /\ (TickClock \/ op'[o].age = op[o].age)
      BY <1>0, <1>1, <3>1, <3>2, CallKept
    <3>4. op[o].age + lease[n].ttl <= LeaseTTL /\ op[o].age \in Nat /\ lease[n].ttl \in Nat
      BY <3>1, <3>2, Constants DEF Claims, TypeOK, Operation
    <3>5. CASE TickClock
      <4>1. lease[n].ttl > LeaseTTL - CallBound
        BY <3>1, <3>5 DEF TickClock
      <4>2. lease'[n].ttl = lease[n].ttl - 1
        BY <3>4, <3>5, <4>1, TickLease, Constants
      <4>3. op'[o].age \in {op[o].age, op[o].age + 1}
        BY <3>5, TickEffect
      <4> QED BY <3>1, <3>2, <3>3, <3>4, <4>2, <4>3, Constants
    <3>6. CASE ~TickClock
      <4>1. lease[n].holder = v
        BY <3>1 DEF LeaseCovers
      <4>2. ASSUME NEW w \in Workers, NEW m \in Members, Step(w, m)
            PROVE  lease'[n] = lease[n]
        <5>1. CASE w = v /\ m = n
          <6>1. ~AcquireLease(v, n)
            BY <3>1 DEF AcquireLease, At
          <6>2. job'[v][n].pc \notin {"idle", "handling"}
            BY <1>1
          <6> QED BY <4>2, <5>1, <6>1, <6>2, StepLease
        <5>2. CASE w # v \/ m # n
          BY <4>1, <4>2, <5>2, OtherLeaseKept
        <5> QED BY <5>1, <5>2
      <4>3. lease'[n] = lease[n]
        BY <3>6, <4>2, JobsStep, CrashEffect
      <4> QED BY <3>1, <3>2, <3>3, <3>4, <3>6, <4>3
    <3> QED BY <3>5, <3>6
  <2> QED BY <2>1, <2>2
<1>2. ASSUME job'[v][n].pc = "committed"
      PROVE  Past(job[v][n].op)'
  <2>1. CASE CallSucceeds(v, n)
    <3>1. op'[job[v][n].op].status = "succeeded"
      BY <2>1, CallSucceedsSettles
    <3>2. job'[v][n].op = job[v][n].op
      BY <1>2, <2>1, StepMovesJob DEF Step, JobStep, JobMoves, Moves
    <3> QED BY <3>1, <3>2 DEF Past, Finished
  <2>2. CASE ~CallSucceeds(v, n)
    <3>1. job[v][n].pc = "committed" /\ job'[v][n].op = job[v][n].op
      <4>1. CASE Step(v, n)
        BY <1>2, <2>2, <4>1, StepMovesJob DEF JobMoves, Moves
      <4>2. CASE ~Step(v, n)
        <5>1. job'[v][n] = job[v][n] \/ job'[v][n].pc = "idle"
          BY <4>2, JobsStep, StepMovesJob, CrashEffect DEF OtherJobsKept, TickClock
        <5> QED BY <1>2, <5>1
      <4> QED BY <4>1, <4>2
    <3>2. PICK o \in Ops : o = job[v][n].op
      BY <3>1, JobOperation
    <3>3. Past(o) /\ op[o].status # "absent"
      BY <3>1, <3>2 DEF Claims, Past, Finished
    <3>4. Past(o)'
      BY <1>0, <3>3, RowsMoveOn
    <3> QED BY <3>1, <3>2, <3>4 DEF Past
  <2> QED BY <2>1, <2>2
<1>3. ASSUME job'[v][n].pc = "recovering"
      PROVE  \/ Past(job[v][n].op)'
             \/ /\ Stale(job[v][n].op)'
                /\ \/ job'[v][n].reset
                   \/ (task[op[job[v][n].op].task] # Running(job[v][n].op))'
  <2>1. CASE RecoverRead(v, n)
    <3>1. PICK o \in Ops : /\ Stale(o) /\ job'[v][n].op = o
                           /\ job'[v][n].reset \/ task[op[o].task] # Running(o)
      BY <1>3, <2>1, StepMovesJob DEF Step, Poll, JobMoves, Moves, RecoverRead
    <3>2. UNCHANGED <<op, task>>
      BY <2>1 DEF RecoverRead
    <3> QED BY <3>1, <3>2 DEF Stale, Running
  <2>2. CASE ~RecoverRead(v, n)
    <3>1. job'[v][n] = job[v][n]
      <4>1. CASE Step(v, n)
        BY <1>3, <2>2, <4>1, StepMovesJob DEF JobMoves, Moves
      <4>2. CASE ~Step(v, n)
        <5>1. job'[v][n] = job[v][n] \/ job'[v][n].pc = "idle"
          BY <4>2, JobsStep, StepMovesJob, CrashEffect DEF OtherJobsKept, TickClock
        <5> QED BY <1>3, <5>1
      <4> QED BY <4>1, <4>2
    <3>2. job[v][n].pc = "recovering"
      BY <1>3, <3>1
    <3>3. PICK o \in Ops : o = job[v][n].op /\ op[o].status # "absent"
      BY <3>2, JobOperation
    <3>4. CASE Past(o)
      <4>1. Past(o)'
        BY <1>0, <3>3, <3>4, RowsMoveOn
      <4> QED BY <3>1, <3>3, <4>1 DEF Past
    <3>5. CASE Stale(o) /\ (job[v][n].reset \/ task[op[o].task] # Running(o))
      <4>1. Past(o)' \/ (Stale(o)' /\ (job[v][n].reset \/ (task[op[o].task] # Running(o))'))
        BY <3>5, StaleStays
      <4> QED BY <3>1, <3>3, <4>1 DEF Past, Stale, Running
    <3> QED BY <3>2, <3>3, <3>4, <3>5 DEF Claims
  <2> QED BY <2>1, <2>2
<1> QED BY <1>1, <1>2, <1>3

\* A row that is neither new nor active is past.
LEMMA NotActiveIsPast ==
    ASSUME TypeOK, NEW p \in Ops, op[p].status \notin {"absent", "inserting"}, ~Active(p)
    PROVE  Past(p)
BY DEF TypeOK, Operation, OpStatus, Active, Past

\* Every step keeps the order of the queue.
LEMMA AheadStep ==
    ASSUME TypeOK, RowLocks, JobsHaveOperations, Claims, Ahead, Next
    PROVE  Ahead'
<1>1. clock \in Nat /\ clock' \in Nat /\ clock' >= clock
  <2>1. clock \in Nat
    BY DEF TypeOK
  <2>2. clock' = clock \/ clock' = clock + 1
    <3>1. \A m \in Members : ClearCompleted(m) => clock' = clock
      BY DEF ClearCompleted
    <3> QED BY <3>1, TableStep DEF SubmitLock, SubmitCommit, SubmitAbort, Settle, Claim, TickClock
  <2> QED BY <2>1, <2>2
<1>2. ASSUME NEW o \in Ops, op'[o].status # "absent"
      PROVE  /\ op'[o].created < clock'
             /\ \A p \in op'[o].ahead :
                  /\ op'[p].status \notin {"absent", "inserting"}
                  /\ op'[p].created < op'[o].created
                  /\ OwnerOf[op'[p].task] = OwnerOf[op'[o].task]
  <2>1. CASE op[o].status # "absent"
    <3>1. Kept(o) /\ op[o].created \in Nat /\ op[o].ahead \subseteq Ops
      BY <2>1, RowsMoveOn DEF TypeOK, Operation
    <3>2. op[o].created < clock
      BY <2>1 DEF Ahead
    <3>3. ASSUME NEW p \in op[o].ahead
          PROVE  /\ op'[p].status \notin {"absent", "inserting"}
                 /\ op'[p].created < op'[o].created
                 /\ OwnerOf[op'[p].task] = OwnerOf[op'[o].task]
      <4>1. p \in Ops /\ op[p].status \notin {"absent", "inserting"}
            /\ op[p].created < op[o].created /\ OwnerOf[op[p].task] = OwnerOf[op[o].task]
        BY <2>1, <3>1 DEF Ahead, Member
      <4>2. Kept(p) /\ op'[p].status \notin {"absent", "inserting"}
        BY <4>1, RowsMoveOn
      <4> QED BY <3>1, <4>1, <4>2 DEF Kept
    <3> QED BY <1>1, <3>1, <3>2, <3>3 DEF Kept
  <2>2. CASE op[o].status = "absent"
    <3>1. PICK t \in Tasks, k \in AiOperationKind : SubmitLock(o, t, k)
      <4>1. ASSUME NEW q \in Ops, NEW t \in Tasks, NEW k \in AiOperationKind,
                   SubmitLock(q, t, k), q # o
            PROVE  FALSE
        BY <1>2, <2>2, <4>1, ActionSubmitLock
      <4>2. ASSUME NEW t \in Tasks, SubmitCommit(t) \/ SubmitAbort(t)
            PROVE  FALSE
        <5>1. txn[t] \in Ops /\ op[txn[t]].status = "inserting"
          BY <4>2 DEF TypeOK, RowLocks, SubmitCommit, SubmitAbort
        <5>2. op'[o] = op[o]
          BY <2>2, <4>2, <5>1 DEF TypeOK, SubmitCommit, SubmitAbort
        <5> QED BY <1>2, <2>2, <5>2
      <4>3. ASSUME NEW q \in Ops, Settle(q) PROVE FALSE
        BY <1>2, <2>2, <4>3 DEF Settle, OneRow
      <4>4. ASSUME NEW w \in Workers, NEW m \in Members, Claim(w, m) PROVE FALSE
        BY <1>2, <2>2, <4>4, ClaimEffect DEF OneRow
      <4>5. ASSUME NEW m \in Members, ClearCompleted(m) PROVE FALSE
        BY <1>2, <2>2, <4>5, ClearEffect DEF Finished
      <4>6. ~TickClock
        BY <1>2, <2>2, TickEffect
      <4> QED BY <1>2, <2>2, <4>1, <4>2, <4>3, <4>4, <4>5, <4>6, TableStep
    <3>2. /\ op'[o].task = t /\ op'[o].created = clock
          /\ op'[o].ahead = {p \in Ops : Active(p) /\ Member(p) = OwnerOf[t]}
          /\ \A p \in Ops : p # o => op'[p] = op[p]
      BY <3>1, ActionSubmitLock
    <3>3. clock' = clock + 1
      BY <3>1 DEF SubmitLock
    <3>4. ASSUME NEW p \in op'[o].ahead
          PROVE  /\ op'[p].status \notin {"absent", "inserting"}
                 /\ op'[p].created < op'[o].created
                 /\ OwnerOf[op'[p].task] = OwnerOf[op'[o].task]
      <4>1. p \in Ops /\ Active(p) /\ Member(p) = OwnerOf[t]
        BY <3>2
      <4>2. op[p].status \notin {"absent", "inserting"}
        BY <4>1 DEF Active, ACTIVE_STATUSES
      <4>3. op'[p] = op[p] /\ op[p].created < clock
        BY <2>2, <3>2, <4>1, <4>2 DEF Ahead
      <4> QED BY <3>2, <4>1, <4>2, <4>3 DEF Member
    <3> QED BY <1>1, <3>2, <3>3, <3>4
  <2> QED BY <2>1, <2>2
<1>3. \A p \in Ops : op[p].status # "absent" /\ Past(p) => Past(p)'
  BY RowsMoveOn
<1>4. ASSUME NEW o \in Ops, op[o].status \notin {"absent", "inserting"},
             \A p \in op[o].ahead : Past(p)
      PROVE  \A p \in op'[o].ahead : Past(p)'
  <2>1. op'[o].ahead = op[o].ahead /\ op[o].ahead \subseteq Ops
    BY <1>4, RowsMoveOn DEF Kept, TypeOK, Operation
  <2> QED BY <1>3, <1>4, <2>1 DEF Ahead
<1>5. ASSUME NEW v \in Workers, NEW n \in Members, job'[v][n].pc # "idle"
      PROVE  \A p \in op'[job'[v][n].op].ahead : Past(p)'
  <2>1. CASE job[v][n].pc # "idle" /\ job'[v][n].op = job[v][n].op
    <3>1. PICK o \in Ops : o = job[v][n].op /\ op[o].status \notin {"absent", "inserting"}
      BY <2>1, JobOperation
    <3>2. \A p \in op[o].ahead : Past(p)
      BY <2>1, <3>1 DEF Ahead
    <3> QED BY <1>4, <2>1, <3>1, <3>2
  <2>2. ASSUME NEW o \in Ops, job'[v][n].op = o, Stale(o)
        PROVE  \A p \in op'[job'[v][n].op].ahead : Past(p)'
    <3>1. op[o].status = "running" /\ \A p \in op[o].ahead : Past(p)
      BY <2>2 DEF Stale, Ahead
    <3> QED BY <1>4, <2>2, <3>1
  <2>3. ASSUME NEW o \in Ops, job'[v][n].op = o, op[o].status = "queued", FirstInQueue(o)
        PROVE  \A p \in op'[job'[v][n].op].ahead : Past(p)'
    <3>1. ASSUME NEW p \in op[o].ahead PROVE Past(p)
      <4>1. p \in Ops /\ op[p].status \notin {"absent", "inserting"}
            /\ op[p].created < op[o].created /\ Member(p) = Member(o)
        BY <2>3 DEF Ahead, TypeOK, Operation
      <4>2. op[p].created \in Nat /\ op[o].created \in Nat
        BY <4>1 DEF TypeOK, Operation
      <4>3. ~Active(p)
        BY <2>3, <4>1, <4>2 DEF FirstInQueue
      <4> QED BY <4>1, <4>3, NotActiveIsPast
    <3> QED BY <1>4, <2>3, <3>1
  <2> QED BY <1>5, <2>1, <2>2, <2>3, BusyBefore
<1>6. ASSUME NEW o \in Ops, op'[o].status = "running"
      PROVE  \A p \in op'[o].ahead : Past(p)'
  <2>1. CASE op[o].status = "running"
    BY <1>4, <2>1 DEF Ahead
  <2>2. CASE op[o].status # "running"
    <3>1. PICK w \in Workers, m \in Members : Claim(w, m) /\ job[w][m].op = o
      <4>1. ASSUME NEW w \in Workers, NEW m \in Members, Claim(w, m), job[w][m].op # o
            PROVE  FALSE
        BY <1>6, <2>2, <4>1, ClaimEffect DEF OneRow
      <4>2. ASSUME NEW t \in Tasks, SubmitCommit(t) \/ SubmitAbort(t)
            PROVE  FALSE
        <5>1. txn[t] \in Ops /\ op[txn[t]].status = "inserting"
          BY <4>2 DEF TypeOK, RowLocks, SubmitCommit, SubmitAbort
        <5>2. op'[o] = op[o] \/ op'[o].status \in {"queued", "deleted"}
          BY <4>2, <5>1 DEF TypeOK, SubmitCommit, SubmitAbort, Operation
        <5> QED BY <1>6, <2>2, <5>2
      <4>3. ASSUME NEW q \in Ops, NEW t \in Tasks, NEW k \in AiOperationKind, SubmitLock(q, t, k)
            PROVE  FALSE
        BY <1>6, <2>2, <4>3, ActionSubmitLock
      <4>4. ASSUME NEW q \in Ops, Settle(q) PROVE FALSE
        BY <1>6, <2>2, <4>4 DEF Settle, OneRow, PastStatuses, Finished
      <4>5. ASSUME NEW m \in Members, ClearCompleted(m) PROVE FALSE
        BY <1>6, <2>2, <4>5, ClearEffect
      <4>6. ~TickClock
        BY <1>6, <2>2, TickEffect
      <4> QED BY <1>6, <2>2, <4>1, <4>2, <4>3, <4>4, <4>5, <4>6, TableStep
    <3>2. op[o].status = "queued" /\ \A p \in op[o].ahead : Past(p)
      BY <3>1, ClaimEffect DEF Ahead, Claim, At
    <3> QED BY <1>4, <3>2
  <2> QED BY <2>1, <2>2
<1> QED BY <1>2, <1>5, <1>6 DEF Ahead, Member

-----------------------------------------------------------------------------
(* Types *)

\* Every step is well typed.
LEMMA TypeStep ==
    ASSUME TypeOK, RowLocks, JobsHaveOperations, Claims, Next
    PROVE  TypeOK'
<1> DEFINE Goal == /\ op' \in Table /\ task' \in [Tasks -> TaskState]
                   /\ txn' \in [Tasks -> Ops \cup {None}] /\ clock' \in Nat
<1>1. Goal
  <2> USE DEF TypeOK
  <2>1. ASSUME NEW o \in Ops, NEW t \in Tasks, NEW k \in AiOperationKind, SubmitLock(o, t, k)
        PROVE  Goal
    <3>1. op' \in Table
      BY <2>1, ActionSubmitLock
    <3>2. /\ task' = task /\ clock' = clock + 1
          /\ txn' = [txn EXCEPT ![t] = o]
      BY <2>1 DEF SubmitLock
    <3> QED BY <3>1, <3>2
  <2>2. ASSUME NEW t \in Tasks, SubmitCommit(t) \/ SubmitAbort(t)
        PROVE  Goal
    <3>1. PICK o \in Ops : o = txn[t]
      BY <2>2 DEF SubmitCommit, SubmitAbort
    <3>2. Running(o) \in TaskState
      BY KindStates DEF Running, Operation, RunningStates, TaskState
    <3>3. PICK s \in {"queued", "deleted"} : op' = [op EXCEPT ![o].status = s]
      BY <2>2, <3>1 DEF SubmitCommit, SubmitAbort
    <3>4. op' \in Table
      BY <3>3, SetStatus DEF OpStatus, ACTIVE_STATUSES, Table, OneRow
    <3>5. task' = task \/ task' = [task EXCEPT ![t] = Running(o)]
      BY <2>2, <3>1 DEF SubmitCommit, SubmitAbort
    <3>6. task' \in [Tasks -> TaskState]
      BY <3>2, <3>5
    <3>7. txn' = [txn EXCEPT ![t] = None] /\ clock' = clock
      BY <2>2 DEF SubmitCommit, SubmitAbort
    <3>8. txn' \in [Tasks -> Ops \cup {None}]
      BY <3>7
    <3> QED BY <3>4, <3>6, <3>7, <3>8
  <2>3. ASSUME NEW m \in Members, ClearCompleted(m)
        PROVE  Goal
    BY <2>3, ClearEffect DEF ClearCompleted
  <2>4. ASSUME NEW o \in Ops, Settle(o)
        PROVE  Goal
    <3>1. ASSUME NEW x \in StableStates PROVE [task EXCEPT ![op[o].task] = x] \in [Tasks -> TaskState]
      BY DEF StableStates
    <3> QED BY <2>4, <3>1 DEF Settle, OneRow
  <2>5. ASSUME NEW w \in Workers, NEW m \in Members, Claim(w, m)
        PROVE  Goal
    BY <2>5, ClaimEffect DEF OneRow, Claim
  <2>6. CASE TickClock
    BY <2>6, TickEffect DEF TickClock
  <2>7. CASE UNCHANGED <<op, task, txn, clock>>
    BY <2>7 DEF Table
  <2> QED BY <2>1, <2>2, <2>3, <2>4, <2>5, <2>6, <2>7, TableStep
<1>2. job' \in Jobs
  <2>1. TickClock => job' = job
    BY DEF TickClock
  <2> QED BY <2>1, JobsStep, StepMovesJob, CrashEffect DEF TypeOK, Jobs
<1>3. lease' \in Leases
  <2>1. CASE TickClock
    <3>1. \A m \in Members : lease'[m] \in [holder : Workers \cup {None}, ttl : 0..LeaseTTL]
      BY <2>1, TickLease
    <3>2. lease' = [m \in Members |-> lease'[m]]
      BY <2>1 DEF TickClock
    <3> QED BY <3>1, <3>2 DEF Leases
  <2>2. lease \in Leases
    BY DEF TypeOK, Leases
  <2> QED BY <2>1, <2>2, JobsStep, StepLease, CrashEffect
<1>4. drafted' \subseteq Tasks /\ saved' \subseteq Ops
  <2> USE DEF TypeOK
  <2>1. ASSUME NEW w \in Workers, NEW m \in Members, CallSucceeds(w, m)
        PROVE  drafted' \subseteq Tasks /\ saved' \subseteq Ops
    BY <2>1, JobOperation DEF CallSucceeds, At, JobOp, JobTask
  <2>2. ASSUME NEW w \in Workers, NEW m \in Members, Step(w, m), ~CallSucceeds(w, m)
        PROVE  UNCHANGED <<drafted, saved>>
    BY <2>2, QuietSteps
       DEF Step, JobStep, RecoverWrite, RecoverInJob, Claim, CallFails, Handle, CancelClaimed
  <2>3. CASE Request
    BY <2>3 DEF Request, SubmitLock, Retry, Cancel, ClearCompleted
  <2>4. CASE \E t \in Tasks : Transaction(t)
    BY <2>4 DEF Transaction, SubmitCommit, SubmitAbort
  <2>5. CASE \E w \in Workers : Process(w)
    BY <2>5 DEF Process, Shutdown, Stopped, Crash, Restart
  <2>6. CASE TickClock
    BY <2>6 DEF TickClock
  <2> QED BY <2>1, <2>2, <2>3, <2>4, <2>5, <2>6 DEF Next, Step
<1>5. proc' \in [Workers -> {"up", "stopping", "down"}] /\ faults' \in Nat
  <2> USE DEF TypeOK
  <2>1. ASSUME NEW w \in Workers, Process(w)
        PROVE  proc' \in [Workers -> {"up", "stopping", "down"}] /\ faults' \in Nat
    <3>1. faults' = faults \/ faults' = faults + 1
      BY <2>1 DEF Process, Shutdown, Stopped, Crash, Restart, Fault
    <3>2. \E x \in {"up", "stopping", "down"} : proc' = [proc EXCEPT ![w] = x]
      BY <2>1, SMTT(30) DEF Process, Shutdown, Stopped, Crash, Restart
    <3> QED BY <3>1, <3>2
  <2>2. ASSUME NEW w \in Workers, NEW m \in Members, Step(w, m)
        PROVE  proc' = proc /\ (faults' = faults \/ faults' = faults + 1)
    BY <2>2 DEF Step, Poll, JobStep, JobFault, Fault, RecoverRead, Pick, RecoverWrite,
            PrepareReturn, PrepareError, RecoverInJob, AcquireLease, LeaseBusy, Recheck,
            ClaimError, ClaimRefused, ClaimLost, Claim, CallSucceeds, CallFails, Refresh,
            Release, HandlerRead, Handle, CancelOutside, CancelAcquiring, CancelUnrecorded,
            CancelReleasing, CancelClaimed, LeaseUnavailable, ReleaseLost,
            CallFailsUnrecorded, RefreshFails, HandleFails
  <2>3. CASE Request
    BY <2>3 DEF Request, SubmitLock, Retry, Cancel, ClearCompleted
  <2>4. CASE \E t \in Tasks : Transaction(t)
    BY <2>4 DEF Transaction, SubmitCommit, SubmitAbort, Fault
  <2>5. CASE TickClock
    BY <2>5 DEF TickClock
  <2> QED BY <2>1, <2>2, <2>3, <2>4, <2>5 DEF Next, Step
<1> QED BY <1>1, <1>2, <1>3, <1>4, <1>5 DEF TypeOK, Table, Jobs, Leases

-----------------------------------------------------------------------------
(* Theorems *)

\* The invariant holds initially.
LEMMA InvInit == Init => IInv
<1> SUFFICES ASSUME Init PROVE IInv
  OBVIOUS
<1>1. TypeOK
  BY TypeInit
<1>2. /\ \A o \in Ops : op[o].status = "absent"
      /\ \A w \in Workers, m \in Members : job[w][m].pc = "idle"
      /\ \A t \in Tasks : txn[t] = None
  BY DEF Init, NoOperation, IdleJob
<1>3. \A t \in Tasks : task[t] \notin RunningStates
  BY ConstantsAssumption DEF Init, StableStates
<1>4. \A o \in Ops : ~Active(o)
  BY <1>2 DEF Active, ACTIVE_STATUSES
<1>5. RowLocks /\ OneActivePerTask /\ NoStrandedTask
  BY <1>2, <1>3, <1>4 DEF RowLocks, OneActivePerTask, NoStrandedTask
<1>6. JobsHaveOperations /\ LeaseCovers /\ Claims /\ Ahead
  BY <1>2 DEF JobsHaveOperations, LeaseCovers, Claims, Ahead, Holding
<1> QED BY <1>1, <1>5, <1>6 DEF IInv

\* Every step, stuttering included, keeps the invariant.
LEMMA InvStep == IInv /\ [Next]_vars => IInv'
<1>1. ASSUME IInv, Next PROVE IInv'
  <2>1. TypeOK /\ Tables /\ RowLocks /\ JobsHaveOperations /\ LeaseCovers /\ Claims /\ Ahead
    BY <1>1 DEF IInv, Tables
  <2>2. TypeOK' /\ JobsHaveOperations' /\ Ahead'
    BY <1>1, <2>1, TypeStep, JobsHaveOperationsStep, AheadStep
  <2>3. Tables' /\ LeaseCovers' /\ Claims'
    BY <1>1, <2>1, TablesStep, LeaseCoversStep, ClaimsStep
  <2> QED BY <2>2, <2>3 DEF IInv, Tables
<1>2. ASSUME IInv, UNCHANGED vars PROVE IInv'
  <2>1. TypeOK' /\ LeaseCovers' /\ JobsHaveOperations'
    BY <1>2 DEF vars, IInv, TypeOK, LeaseCovers, JobsHaveOperations, Member
  <2>2. RowLocks' /\ OneActivePerTask' /\ NoStrandedTask'
    BY <1>2 DEF vars, IInv, RowLocks, OneActivePerTask, NoStrandedTask, NoActive, Active, Running
  <2>3. Claims'
    BY <1>2 DEF vars, IInv, Claims, Past, Stale, Running
  <2>4. Ahead'
    BY <1>2 DEF vars, IInv, Ahead, Member, Past
  <2> QED BY <2>1, <2>2, <2>3, <2>4 DEF IInv
<1> QED BY <1>1, <1>2

\* The strengthened invariant holds in every reachable state.
THEOREM InductiveInvariant == Spec => []IInv
BY InvInit, InvStep, PTL DEF Spec

\* Every variable keeps its type.
THEOREM TypeCorrect == Spec => []TypeOK
<1>1. IInv => TypeOK
  BY DEF IInv
<1> QED BY <1>1, InductiveInvariant, PTL

\* submit()'s check under the row lock keeps a document at one active operation.
THEOREM OneActive == Spec => []OneActivePerTask
<1>1. IInv => OneActivePerTask
  BY DEF IInv
<1> QED BY <1>1, InductiveInvariant, PTL

\* However operations end, no task is left in a running state with nothing
\* queued or running that could move it on.
THEOREM NeverStranded == Spec => []NoStrandedTask
<1>1. IInv => NoStrandedTask
  BY DEF IInv
<1> QED BY <1>1, InductiveInvariant, PTL

\* The lease outlives the call it protects.
THEOREM LeaseHeld == Spec => []CallHoldsLease
<1>1. IInv => CallHoldsLease
  BY DEF IInv, LeaseCovers, CallHoldsLease, Holding
<1> QED BY <1>1, InductiveInvariant, PTL

\* So a member never has two AI calls at once, whatever the number of processes.
THEOREM OneCall == Spec => []OneCallPerMember
<1>1. IInv => OneCallPerMember
  BY DEF IInv, LeaseCovers, OneCallPerMember, Holding
<1> QED BY <1>1, InductiveInvariant, PTL

\* Neither cancel() nor another process's recovery takes a running call away.
THEOREM CallSafe == Spec => []CallOwnsOperation
<1>1. IInv => CallOwnsOperation
  BY DEF IInv, Claims, CallOwnsOperation
<1> QED BY <1>1, InductiveInvariant, PTL

\* Operations of a member start in submission order.
THEOREM InOrder == Spec => []SubmissionOrder
<1>1. \A p : Past(p) => ~Active(p)
  BY DEF Past, Active, Finished, ACTIVE_STATUSES
<1>2. IInv => SubmissionOrder
  BY <1>1 DEF IInv, Ahead, SubmissionOrder
<1> QED BY <1>2, InductiveInvariant, PTL

\* A running row stays running or is past.
LEMMA RunningMovesOn ==
    ASSUME TypeOK, RowLocks, JobsHaveOperations, Claims, Next, NEW o \in Ops,
           op[o].status = "running"
    PROVE  op'[o].status # "queued"
<1>1. ASSUME NEW t \in Tasks, SubmitCommit(t) \/ SubmitAbort(t)
      PROVE  op'[o] = op[o]
  <2>1. txn[t] \in Ops /\ op[txn[t]].status = "inserting"
    BY <1>1 DEF TypeOK, RowLocks, SubmitCommit, SubmitAbort
  <2>2. txn[t] # o
    BY <2>1
  <2> QED BY <1>1, <2>1, <2>2 DEF SubmitCommit, SubmitAbort, TypeOK
<1>2. ASSUME NEW p \in Ops, NEW t \in Tasks, NEW k \in AiOperationKind, SubmitLock(p, t, k)
      PROVE  op'[o] = op[o]
  BY <1>2, ActionSubmitLock DEF SubmitLock
<1>3. ASSUME NEW p \in Ops, Settle(p) PROVE op'[o].status # "queued"
  BY <1>3 DEF Settle, OneRow, PastStatuses, Finished
<1>4. ASSUME NEW w \in Workers, NEW m \in Members, Claim(w, m) PROVE op'[o].status # "queued"
  BY <1>4, ClaimEffect DEF OneRow
<1> QED BY <1>1, <1>2, <1>3, <1>4, TableStep, ClearEffect, TickEffect

\* No operation is ever executed a second time.
THEOREM NoSecondRun == Spec => NeverRunTwice
<1> DEFINE Step1(o) ==
      /\ op[o].status \in Finished \cup {"deleted"} => op'[o].status \notin ACTIVE_STATUSES
      /\ op[o].status = "running" => op'[o].status # "queued"
<1>1. IInv /\ [Next]_vars => [\A o \in Ops : Step1(o)]_vars
  <2> SUFFICES ASSUME IInv, Next, NEW o \in Ops PROVE Step1(o)
    OBVIOUS
  <2>1. TypeOK /\ RowLocks /\ JobsHaveOperations /\ Claims
    BY DEF IInv
  <2>2. op[o].status \in Finished \cup {"deleted"} => op'[o].status \in Finished \cup {"deleted"}
    BY <2>1, RowsMoveOn DEF Past, Finished
  <2> QED BY <2>1, <2>2, RunningMovesOn DEF Finished, ACTIVE_STATUSES
<1> QED BY <1>1, InductiveInvariant, PTL DEF Spec, NeverRunTwice

-----------------------------------------------------------------------------
(* The life of an operation *)

\* A shutdown reaches a job after its commit and writes over the success.
Overwritten(o) ==
    \E w \in Workers, m \in Members :
      /\ CancelClaimed(w, m) /\ job[w][m].pc = "committed" /\ job[w][m].op = o
      /\ op[o].status = "succeeded" /\ op'[o].status = "cancelled"

\* The changes of status a step can make.
StatusMoves(o) ==
    \/ op'[o].status = op[o].status
    \/ op[o].status = "absent" /\ op'[o].status = "inserting"
    \/ op[o].status = "inserting" /\ op'[o].status \in {"queued", "deleted"}
    \/ op[o].status = "queued" /\ op'[o].status \in {"running", "cancelled", "failed"}
    \/ /\ op[o].status = "running" /\ op'[o].status \in Finished
       /\ Stale(o) => op'[o].status = "failed"
    \/ op[o].status \in Finished /\ op'[o].status = "deleted"
    \/ Overwritten(o)

\* What the member's requests do to a status.
LEMMA RequestStatus ==
    ASSUME IInv, NEW o \in Ops, Request \/ \E t \in Tasks : Transaction(t)
    PROVE  StatusMoves(o)
<1>0. TypeOK /\ op \in Table /\ RowLocks
  BY DEF IInv, TypeOK, Table
<1>1. ASSUME NEW p \in Ops, NEW t \in Tasks, NEW k \in AiOperationKind, SubmitLock(p, t, k)
      PROVE  StatusMoves(o)
  BY <1>0, <1>1, ActionSubmitLock DEF SubmitLock, StatusMoves
<1>2. CASE \E p, old \in Ops : Retry(p, old)
  <2>1. PICK p \in Ops, old \in Ops : Retry(p, old)
    BY <1>2
  <2>2. op[old].task \in Tasks /\ op[old].kind \in AiOperationKind
    BY <1>0 DEF TypeOK, Operation
  <2> QED BY <1>1, <2>1, <2>2 DEF Retry
<1>3. ASSUME NEW p \in Ops, Cancel(p)
      PROVE  StatusMoves(o)
  <2>1. "cancelled" \in OpStatus /\ op' = [op EXCEPT ![p].status = "cancelled"]
        /\ op[p].status = "queued"
    BY <1>3 DEF Cancel, OpStatus, Finished
  <2>2. OneRow(p, "cancelled")
    BY <1>0, <2>1, SetStatus
  <2> QED BY <2>1, <2>2 DEF StatusMoves, OneRow
<1>4. ASSUME NEW m \in Members, ClearCompleted(m)
      PROVE  StatusMoves(o)
  BY <1>0, <1>4, ClearEffect DEF StatusMoves
<1>5. ASSUME NEW t \in Tasks, Transaction(t)
      PROVE  StatusMoves(o)
  <2>1. PICK p : p = txn[t]
    OBVIOUS
  <2>2. p \in Ops /\ op[p].status = "inserting"
    BY <1>0, <1>5, <2>1 DEF TypeOK, RowLocks, Transaction, SubmitCommit, SubmitAbort
  <2>3. PICK s \in {"queued", "deleted"} : op' = [op EXCEPT ![p].status = s]
    BY <1>5, <2>1 DEF Transaction, SubmitCommit, SubmitAbort
  <2>4. s \in OpStatus
    BY DEF OpStatus, ACTIVE_STATUSES
  <2>5. OneRow(p, s)
    BY <1>0, <2>2, <2>3, <2>4, SetStatus
  <2> QED BY <2>2, <2>5 DEF StatusMoves, OneRow
<1> QED BY <1>1, <1>2, <1>3, <1>4, <1>5 DEF Request

\* What a job does to a status: a call ends a running operation that is not stale,
\* a recovery fails what is stale, the exception handler what is still queued.
LEMMA JobStatus ==
    ASSUME IInv, Recorded, NEW o \in Ops, NEW w \in Workers, NEW m \in Members, Step(w, m)
    PROVE  StatusMoves(o)
<1>0. TypeOK /\ op \in Table /\ JobsHaveOperations /\ Claims /\ LeaseCovers
  BY DEF IInv, TypeOK, Table
<1>p. PICK p : p = job[w][m].op
  OBVIOUS
<1>1. ASSUME job[w][m].pc # "idle"
      PROVE  p \in Ops /\ op[p].status \in OpStatus
  BY <1>p, <1>0, <1>1, JobOperation
<1>2. ASSUME job[w][m].pc = "calling"
      PROVE  op[p].status = "running" /\ ~Stale(p)
  BY <1>p, <1>0, <1>2, CallIsFresh DEF Claims
<1>3. CASE RecoverWrite(w, m)
  <2>1. PICK s : s = IF op[p].status = "deleted" THEN op[p].status ELSE "failed"
    OBVIOUS
  <2>2. /\ op' = [op EXCEPT ![p].status = s] /\ s \in OpStatus /\ p \in Ops
        /\ job[w][m].pc = "recovering"
    BY <1>p, <1>1, <1>3, <2>1 DEF RecoverWrite, OpStatus, Finished
  <2>3. OneRow(p, s)
    BY <1>0, <2>2, SetStatus
  <2>4. op[p].status \in {"running", "failed", "deleted"}
    BY <1>p, <2>2 DEF Recorded, Stale
  <2> QED BY <2>1, <2>3, <2>4 DEF StatusMoves, OneRow, Finished
<1>4. CASE RecoverInJob(w, m)
  <2>1. PICK q \in Ops : Stale(q) /\ op' = [op EXCEPT ![q].status = "failed"]
    BY <1>4 DEF RecoverInJob
  <2>2. "failed" \in OpStatus /\ op[q].status = "running"
    BY <2>1 DEF OpStatus, Finished, Stale
  <2>3. OneRow(q, "failed")
    BY <1>0, <2>1, <2>2, SetStatus
  <2> QED BY <2>2, <2>3 DEF StatusMoves, OneRow, Finished
<1>5. CASE Claim(w, m)
  <2>1. OneRow(p, "running") /\ op[p].status = "queued"
    BY <1>p, <1>0, <1>5, ClaimEffect
  <2> QED BY <2>1 DEF OneRow, StatusMoves
<1>6. ASSUME NEW s \in Finished, op' = [op EXCEPT ![p].status = s], job[w][m].pc = "calling"
      PROVE  StatusMoves(o)
  <2>1. s \in OpStatus /\ p \in Ops
    BY <1>1, <1>6 DEF OpStatus
  <2>2. OneRow(p, s)
    BY <1>0, <1>6, <2>1, SetStatus
  <2> QED BY <1>2, <1>6, <2>2 DEF StatusMoves, OneRow
<1>7. CASE CallSucceeds(w, m)
  <2>1. "succeeded" \in Finished /\ op' = [op EXCEPT ![p].status = "succeeded"]
        /\ job[w][m].pc = "calling"
    BY <1>p, <1>7 DEF CallSucceeds, JobOp, At, Finished
  <2> QED BY <1>6, <2>1
<1>8. CASE CallFails(w, m)
  <2>1. "failed" \in Finished /\ op' = [op EXCEPT ![p].status = "failed"]
        /\ job[w][m].pc = "calling"
    BY <1>p, <1>8 DEF CallFails, RecordFailure, JobOp, At, Finished
  <2> QED BY <1>6, <2>1
<1>9. CASE Handle(w, m)
  <2>1. PICK s : s = IF op[p].status = "queued" THEN "failed" ELSE op[p].status
    OBVIOUS
  <2>2. op' = [op EXCEPT ![p].status = s] /\ s \in OpStatus /\ p \in Ops
    BY <1>p, <1>1, <1>9, <2>1 DEF Handle, HandlerStatus, JobOp, At, OpStatus, Finished
  <2>3. OneRow(p, s)
    BY <1>0, <2>2, SetStatus
  <2> QED BY <2>1, <2>3 DEF StatusMoves, OneRow
<1>10. CASE CancelClaimed(w, m)
  <2>1. CASE op[p].status = "deleted"
    BY <1>p, <1>10, <2>1 DEF CancelClaimed, JobOp, StatusMoves
  <2>2. CASE op[p].status # "deleted"
    <3>1. "cancelled" \in Finished /\ op' = [op EXCEPT ![p].status = "cancelled"]
          /\ job[w][m].pc \in {"calling", "committed"}
      BY <1>p, <1>10, <2>2 DEF CancelClaimed, RecordFailure, Stopping, JobOp, Finished
    <3>2. CASE job[w][m].pc = "calling"
      BY <1>6, <3>1, <3>2
    <3>3. CASE job[w][m].pc = "committed"
      <4>1. op[p].status = "succeeded"
        BY <1>p, <2>2, <3>3 DEF Recorded
      <4>2. "cancelled" \in OpStatus /\ p \in Ops
        BY <1>1, <3>3 DEF OpStatus, Finished
      <4>3. OneRow(p, "cancelled")
        BY <1>0, <3>1, <4>2, SetStatus
      <4> QED BY <1>p, <1>10, <3>3, <4>1, <4>3 DEF StatusMoves, OneRow, Overwritten
    <3> QED BY <3>1, <3>2, <3>3
  <2> QED BY <2>1, <2>2
<1>11. CASE UNCHANGED op
  BY <1>11 DEF StatusMoves
<1> QED BY <1>3, <1>4, <1>5, <1>7, <1>8, <1>9, <1>10, <1>11, QuietSteps DEF Step, JobStep

\* Every step makes one of these changes to a status.
LEMMA StatusStep ==
    ASSUME IInv, Recorded, Next, NEW o \in Ops
    PROVE  StatusMoves(o)
<1>1. ASSUME NEW w \in Workers, NEW m \in Members,
             Poll(w, m) \/ JobStep(w, m) \/ JobFault(w, m)
      PROVE  StatusMoves(o)
  BY <1>1, JobStatus DEF Step
<1>2. CASE \E w \in Workers : Process(w)
  BY <1>2 DEF Process, Shutdown, Stopped, Crash, Restart, StatusMoves
<1>3. CASE TickClock
  <2>1. TypeOK
    BY DEF IInv
  <2> QED BY <1>3, <2>1, TickEffect DEF StatusMoves
<1> QED BY <1>1, <1>2, <1>3, RequestStatus DEF Next

\* Jobs that still have to write keep finding what they may overwrite.
LEMMA RecordedStep ==
    ASSUME IInv, Recorded, Next
    PROVE  Recorded'
<1>0. TypeOK /\ Tables /\ JobsHaveOperations /\ Claims /\ LeaseCovers
  BY DEF IInv, Tables
<1> SUFFICES ASSUME NEW v \in Workers, NEW n \in Members
             PROVE  /\ job'[v][n].pc = "committed" =>
                         op'[job'[v][n].op].status \in {"succeeded", "deleted"}
                    /\ job'[v][n].pc = "recovering" =>
                         Stale(job[v][n].op)' \/ op'[job'[v][n].op].status \in {"failed", "deleted"}
  BY DEF Recorded
<1>1. ASSUME ~Step(v, n)
      PROVE  job'[v][n] = job[v][n] \/ job'[v][n].pc = "idle"
  BY <1>0, <1>1, JobsStep, StepMovesJob, CrashEffect DEF OtherJobsKept, TickClock
<1>2. ASSUME job'[v][n].pc = "committed"
      PROVE  op'[job'[v][n].op].status \in {"succeeded", "deleted"}
  <2>1. CASE CallSucceeds(v, n)
    <3>1. op'[job[v][n].op].status = "succeeded"
      BY <1>0, <2>1, CallSucceedsSettles
    <3>2. job'[v][n].op = job[v][n].op
      BY <1>0, <1>2, <2>1, StepMovesJob DEF Step, JobStep, JobMoves, Moves
    <3> QED BY <3>1, <3>2
  <2>2. CASE ~CallSucceeds(v, n)
    <3>1. job[v][n].pc = "committed" /\ job'[v][n].op = job[v][n].op
      <4>1. CASE Step(v, n)
        BY <1>0, <1>2, <2>2, <4>1, StepMovesJob DEF JobMoves, Moves
      <4> QED BY <1>1, <1>2, <4>1
    <3>2. PICK o \in Ops : o = job[v][n].op /\ Member(o) = n
      BY <1>0, <3>1, JobOperation
    <3>3. op[o].status \in {"succeeded", "deleted"}
      BY <3>1, <3>2 DEF Recorded
    <3>4. ~Overwritten(o)
      <4>1. SUFFICES ASSUME NEW w \in Workers, NEW m \in Members,
                            CancelClaimed(w, m), job[w][m].pc = "committed", job[w][m].op = o
                     PROVE  FALSE
        BY DEF Overwritten
      <4>2. m = n
        BY <1>0, <3>2, <4>1, JobOperation
      <4>3. w = v
        BY <1>0, <3>1, <4>1, <4>2, OneHolder DEF Holding
      <4>4. EndJob(v, n)
        BY <4>1, <4>2, <4>3 DEF CancelClaimed
      <4>5. job \in Jobs
        BY <1>0 DEF TypeOK, Jobs
      <4> QED BY <1>2, <4>4, <4>5, EndJobEffect
    <3>5. op'[o].status \in {"succeeded", "deleted"}
      BY <3>3, <3>4, StatusStep DEF StatusMoves, Finished
    <3> QED BY <3>1, <3>2, <3>5
  <2> QED BY <2>1, <2>2
<1>3. ASSUME job'[v][n].pc = "recovering"
      PROVE  Stale(job[v][n].op)' \/ op'[job'[v][n].op].status \in {"failed", "deleted"}
  <2>1. CASE RecoverRead(v, n)
    <3>1. PICK o \in Ops : Stale(o) /\ job'[v][n].op = o
      BY <1>0, <1>3, <2>1, StepMovesJob DEF Step, Poll, JobMoves, Moves, RecoverRead
    <3>2. UNCHANGED op
      BY <2>1 DEF RecoverRead
    <3> QED BY <3>1, <3>2 DEF Stale
  <2>2. CASE ~RecoverRead(v, n)
    <3>1. job'[v][n] = job[v][n]
      <4>1. CASE Step(v, n)
        BY <1>0, <1>3, <2>2, <4>1, StepMovesJob DEF JobMoves, Moves
      <4> QED BY <1>1, <1>3, <4>1
    <3>2. job[v][n].pc = "recovering"
      BY <1>3, <3>1
    <3>3. PICK o \in Ops : o = job[v][n].op
      BY <1>0, <3>2, JobOperation
    <3>4. Stale(o) \/ op[o].status \in {"failed", "deleted"}
      BY <3>2, <3>3 DEF Recorded
    <3>5. CASE Stale(o)
      <4>1. Past(o)' \/ Stale(o)'
        BY <1>0, <3>5, StaleStays
      <4>2. op[o].status = "running"
        BY <3>5 DEF Stale
      <4>3. ~Past(o)' \/ op'[o].status \in {"failed", "deleted"}
        BY <3>5, <4>2, StatusStep DEF StatusMoves, Overwritten, Past, Finished
      <4> QED BY <3>1, <3>3, <4>1, <4>3 DEF Stale
    <3>6. CASE op[o].status \in {"failed", "deleted"}
      <4>1. op'[o].status \in {"failed", "deleted"}
        BY <3>6, StatusStep DEF StatusMoves, Overwritten, Finished
      <4> QED BY <3>1, <3>3, <4>1
    <3> QED BY <3>4, <3>5, <3>6
  <2> QED BY <2>1, <2>2
<1> QED BY <1>2, <1>3

\* A job that still has to write finds a success it recorded, a stale row or one
\* that was failed already, or none: nothing else can be overwritten.
THEOREM WritesExpected == Spec => []Recorded
<1>1. Init => Recorded
  BY DEF Init, IdleJob, Recorded
<1>2. IInv /\ Recorded /\ [Next]_vars => Recorded'
  <2>1. ASSUME IInv, Recorded, UNCHANGED vars PROVE Recorded'
    BY <2>1 DEF Recorded, Stale, vars
  <2> QED BY <2>1, RecordedStep
<1> QED BY <1>1, <1>2, InductiveInvariant, PTL DEF Spec

\* The life of an operation: queued, running, finished, cleared, whichever process
\* writes late, and only a shutdown between a commit and the end of its job may
\* write "cancelled" over a success.
THEOREM StatusesInOrder == Spec => StatusOrder
<1> DEFINE Order(o) == op'[o].status # op[o].status =>
      \/ <<op[o].status, op'[o].status>> \in
           ({"absent"} \X {"inserting"}) \cup ({"inserting"} \X {"queued", "deleted"})
           \cup ({"queued"} \X {"running", "cancelled", "failed"})
           \cup ({"running"} \X Finished) \cup (Finished \X {"deleted"})
      \/ op'[o].status = "cancelled" /\ op[o].status = "succeeded" /\ LateCancel(o)
<1>1. IInv /\ Recorded /\ [Next]_vars => [\A o \in Ops : Order(o)]_vars
  <2> SUFFICES ASSUME IInv, Recorded, Next, NEW o \in Ops PROVE Order(o)
    OBVIOUS
  <2>1. Overwritten(o) => op'[o].status = "cancelled" /\ op[o].status = "succeeded" /\ LateCancel(o)
    BY DEF Overwritten, CancelClaimed, Stopping, LateCancel
  <2> QED BY <2>1, StatusStep DEF StatusMoves
<1> QED BY <1>1, InductiveInvariant, WritesExpected, PTL DEF Spec, StatusOrder

-----------------------------------------------------------------------------
(* The queue implements BilledCalls *)

\* One row moves on, or none does.
LEMMA StageAfter ==
    /\ (\A o \in Ops : Stage(op'[o].status) = Stage(op[o].status)) =>
         [o \in Ops |-> Stage(op'[o].status)] = [o \in Ops |-> Stage(op[o].status)]
    /\ \A p \in Ops : (\A o \in Ops : o # p => Stage(op'[o].status) = Stage(op[o].status)) =>
         [o \in Ops |-> Stage(op'[o].status)] =
           [[o \in Ops |-> Stage(op[o].status)] EXCEPT ![p] = Stage(op'[p].status)]
OBVIOUS

\* A row that is settled is past, and so is a row whose insert is rolled back.
LEMMA StageStep ==
    ASSUME IInv, Next, \A w \in Workers, m \in Members : ~Claim(w, m)
    PROVE  \/ \A o \in Ops : Stage(op'[o].status) = Stage(op[o].status)
           \/ \E p \in Ops :
                /\ \A o \in Ops : o # p => Stage(op'[o].status) = Stage(op[o].status)
                /\ \/ Stage(op[p].status) = "new" /\ Stage(op'[p].status) = "waiting"
                   \/ Stage(op[p].status) # "closed" /\ Stage(op'[p].status) = "closed"
<1>0. TypeOK /\ op \in Table /\ RowLocks /\ JobsHaveOperations /\ Claims
  BY DEF IInv, TypeOK, Table
<1>1. CASE \E o \in Ops, t \in Tasks, k \in AiOperationKind : SubmitLock(o, t, k)
  <2>1. PICK p \in Ops, t \in Tasks, k \in AiOperationKind : SubmitLock(p, t, k)
    BY <1>1
  <2>2. op[p].status = "absent" /\ op'[p].status = "inserting"
    BY <1>0, <2>1, ActionSubmitLock DEF SubmitLock
  <2>3. \A o \in Ops : o # p => op'[o] = op[o]
    BY <1>0, <2>1, ActionSubmitLock
  <2> QED BY <2>2, <2>3 DEF Stage
<1>2. CASE \E t \in Tasks : SubmitCommit(t) \/ SubmitAbort(t)
  <2>1. PICK t \in Tasks : SubmitCommit(t) \/ SubmitAbort(t)
    BY <1>2
  <2>2. PICK p \in Ops : p = txn[t] /\ op[p].status = "inserting"
    BY <1>0, <2>1 DEF TypeOK, RowLocks, SubmitCommit, SubmitAbort
  <2>3. PICK s \in {"queued", "deleted"} : op' = [op EXCEPT ![p].status = s]
    BY <2>1, <2>2 DEF SubmitCommit, SubmitAbort
  <2>4. s \in OpStatus
    BY DEF OpStatus, ACTIVE_STATUSES
  <2>5. OneRow(p, s)
    BY <1>0, <2>3, <2>4, SetStatus
  <2> QED BY <2>2, <2>5 DEF OneRow, Stage
<1>3. CASE \E m \in Members : ClearCompleted(m)
  BY <1>0, <1>3, ClearEffect DEF Stage, Finished
<1>4. CASE \E p \in Ops : Settle(p)
  <2>1. PICK p \in Ops : Settle(p)
    BY <1>4
  <2>2. PICK s \in OpStatus : /\ op[p].status \notin {"absent", "inserting"}
                              /\ s = op[p].status \/ s \in PastStatuses
                              /\ OneRow(p, s)
    BY <2>1 DEF Settle
  <2>3. \/ Stage(s) = Stage(op[p].status)
        \/ Stage(op[p].status) # "closed" /\ Stage(s) = "closed"
    BY <2>2 DEF Stage, PastStatuses, Finished
  <2> QED BY <2>2, <2>3 DEF OneRow
<1>5. CASE TickClock
  BY <1>0, <1>5, TickEffect
<1>6. CASE UNCHANGED <<op, task, txn, clock>>
  BY <1>6
<1> QED BY <1>0, <1>1, <1>2, <1>3, <1>4, <1>5, <1>6, TableStep

\* The end of a call changes no stage: its operation was closed when it was claimed.
LEMMA StageOfCall ==
    ASSUME IInv, NEW w \in Workers, NEW m \in Members, Step(w, m), job[w][m].pc = "calling",
           NEW o \in Ops
    PROVE  Stage(op'[o].status) = Stage(op[o].status)
<1>0. TypeOK /\ op \in Table /\ JobsHaveOperations /\ Claims
  BY DEF IInv, TypeOK, Table
<1>1. PICK p \in Ops : p = job[w][m].op /\ op[p].status = "running"
  BY <1>0, JobOperation DEF Claims
<1>2. CASE UNCHANGED op
  BY <1>2
<1>3. ASSUME NEW s \in Finished, op' = [op EXCEPT ![p].status = s]
      PROVE  Stage(op'[o].status) = Stage(op[o].status)
  <2>1. s \in OpStatus
    BY DEF OpStatus
  <2>2. OneRow(p, s)
    BY <1>0, <1>3, <2>1, SetStatus
  <2> QED BY <1>1, <2>2 DEF OneRow, Stage, Finished
<1>4. CASE CallSucceeds(w, m)
  BY <1>1, <1>3, <1>4 DEF CallSucceeds, JobOp, Finished
<1>5. CASE CallFails(w, m)
  BY <1>1, <1>3, <1>5 DEF CallFails, RecordFailure, JobOp, Finished
<1>6. CASE CancelClaimed(w, m)
  BY <1>1, <1>2, <1>3, <1>6 DEF CancelClaimed, RecordFailure, JobOp, Finished
<1>7. CASE Handle(w, m) \/ RecoverWrite(w, m) \/ RecoverInJob(w, m) \/ Claim(w, m)
  BY <1>7 DEF Handle, RecoverWrite, RecoverInJob, Claim, At
<1> QED BY <1>2, <1>4, <1>5, <1>6, <1>7, QuietSteps DEF Step, JobStep

\* The calls of the members whose jobs neither enter nor leave a call.
LEMMA CallsKept ==
    ASSUME NEW m \in Members,
           \A v \in Workers : \/ job'[v][m] = job[v][m]
                              \/ job[v][m].pc # "calling" /\ job'[v][m].pc # "calling"
    PROVE  Calls(job', m) = Calls(job, m)
BY DEF Calls

\* A job of member m moves, the jobs of the other members do not.
LEMMA CallsOfOthers ==
    ASSUME TypeOK, NEW w \in Workers, NEW m \in Members, Step(w, m)
    PROVE  /\ \A n \in Members : n # m => Calls(job', n) = Calls(job, n)
           /\ \A v \in Workers : v # w => job'[v][m] = job[v][m]
<1>1. OtherJobsKept(w, m)
  BY StepMovesJob
<1> QED BY <1>1, CallsKept DEF OtherJobsKept

\* A job enters a call by claiming its operation, and its next step leaves the call.
LEMMA CallByClaim ==
    ASSUME TypeOK, NEW w \in Workers, NEW m \in Members, Step(w, m)
    PROVE  /\ Claim(w, m) => job'[w][m].pc = "calling" /\ job'[w][m].op = job[w][m].op
           /\ job'[w][m].pc = "calling" => Claim(w, m) /\ job[w][m].pc # "calling"
<1>1. ASSUME Claim(w, m)
      PROVE  job'[w][m].pc = "calling" /\ job'[w][m].op = job[w][m].op
  <2>1. SetJob(w, m, "calling") /\ "calling" \in JobPC /\ job \in Jobs
    BY <1>1 DEF Claim, JobPC, TypeOK, Jobs
  <2> QED BY <2>1, SetJobEffect
<1>2. job'[w][m].pc = "calling" => Claim(w, m)
  BY StepMovesJob DEF JobMoves, Moves
<1>3. Claim(w, m) => job[w][m].pc # "calling"
  BY DEF Claim, At
<1> QED BY <1>1, <1>2, <1>3

\* Every step is one of BilledCalls, or changes nothing it sees.
LEMMA BilledStep ==
    ASSUME IInv, Next
    PROVE  Billed!Next \/ UNCHANGED Billed!vars
<1>0. TypeOK /\ JobsHaveOperations /\ Claims /\ LeaseCovers
  BY DEF IInv
<1>1. CASE \E w \in Workers, m \in Members : Claim(w, m)
  <2>1. PICK w \in Workers, m \in Members : Claim(w, m)
    BY <1>1
  <2>2. Step(w, m) /\ job[w][m].pc = "checked"
    BY <2>1 DEF Step, JobStep, Claim, At
  <2>3. PICK p \in Ops : p = job[w][m].op
    BY <1>0, <2>2, JobOperation
  <2>4. OneRow(p, "running") /\ op[p].status = "queued"
    BY <1>0, <2>1, <2>3, ClaimEffect
  <2>5. /\ Stage(op[p].status) = "waiting" /\ Stage(op'[p].status) = "closed"
        /\ \A o \in Ops : o # p => Stage(op'[o].status) = Stage(op[o].status)
    BY <2>4 DEF OneRow, Stage
  <2>6. \A v \in Workers : job[v][m].pc # "calling"
    BY <1>0, <2>2, OneHolder DEF Holding
  <2>7. job'[w][m].pc = "calling" /\ job'[w][m].op = p
    BY <1>0, <2>1, <2>2, <2>3, CallByClaim
  <2>8. Calls(job, m) = {}
    BY <2>6 DEF Calls
  <2>9. Calls(job', m) = {<<w, p>>}
    BY <1>0, <2>2, <2>6, <2>7, CallsOfOthers DEF Calls
  <2>10. [n \in Members |-> Calls(job', n)]
           = [[n \in Members |-> Calls(job, n)] EXCEPT ![m] = {<<w, p>>}]
    BY <1>0, <2>2, <2>9, CallsOfOthers
  <2>11. Billed!Call(w, m, p)
    BY <2>5, <2>8, <2>10, StageAfter DEF Billed!Call
  <2> QED BY <2>11 DEF Billed!Next
<1>2. CASE \E w \in Workers, m \in Members : Step(w, m) /\ job[w][m].pc = "calling"
  <2>1. PICK w \in Workers, m \in Members : Step(w, m) /\ job[w][m].pc = "calling"
    BY <1>2
  <2>2. \A v \in Workers : v # w => job[v][m].pc # "calling"
    BY <1>0, <2>1, OneHolder DEF Holding
  <2>3. job'[w][m].pc # "calling"
    BY <1>0, <2>1, CallByClaim
  <2>4. Calls(job', m) = {}
    BY <1>0, <2>1, <2>2, <2>3, CallsOfOthers DEF Calls
  <2>5. [n \in Members |-> Calls(job', n)]
          = [[n \in Members |-> Calls(job, n)] EXCEPT ![m] = {}]
    BY <1>0, <2>1, <2>4, CallsOfOthers
  <2>6. \A o \in Ops : Stage(op'[o].status) = Stage(op[o].status)
    BY <2>1, StageOfCall
  <2>7. Billed!Return(m)
    BY <2>5, <2>6, StageAfter DEF Billed!Return
  <2> QED BY <2>7 DEF Billed!Next
<1>3. CASE \E w \in Workers : Crash(w)
  <2>1. PICK w \in Workers : Crash(w)
    BY <1>3
  <2>2. op' = op
    BY <2>1 DEF Crash
  <2>3. \A n \in Members : /\ job'[w][n].pc # "calling"
                           /\ \A v \in Workers : v # w => job'[v][n] = job[v][n]
    BY <1>0, <2>1 DEF Crash, TypeOK, IdleJob
  <2>4. \A n \in Members : Calls(job', n) = {c \in Calls(job, n) : c[1] # w}
    BY <2>3 DEF Calls
  <2>5. Billed!Lose(w)
    BY <2>2, <2>4 DEF Billed!Lose
  <2> QED BY <2>5 DEF Billed!Next
<1>4. CASE /\ \A w \in Workers, m \in Members :
                ~Claim(w, m) /\ ~(Step(w, m) /\ job[w][m].pc = "calling")
           /\ \A w \in Workers : ~Crash(w)
  <2>1. \A n \in Members : Calls(job', n) = Calls(job, n)
    <3>1. CASE UNCHANGED job
      BY <3>1, CallsKept
    <3>2. ASSUME NEW w \in Workers, NEW m \in Members, Step(w, m)
          PROVE  \A n \in Members : Calls(job', n) = Calls(job, n)
      <4>1. job[w][m].pc # "calling" /\ job'[w][m].pc # "calling"
        BY <1>0, <1>4, <3>2, CallByClaim
      <4> QED BY <1>0, <3>2, <4>1, CallsOfOthers, CallsKept
    <3> QED BY <1>4, <3>1, <3>2, JobsStep DEF TickClock
  <2>2. [n \in Members |-> Calls(job', n)] = [n \in Members |-> Calls(job, n)]
    BY <2>1
  <2>3. CASE \A o \in Ops : Stage(op'[o].status) = Stage(op[o].status)
    BY <2>2, <2>3, StageAfter DEF Billed!vars
  <2>4. CASE \E p \in Ops :
                /\ \A o \in Ops : o # p => Stage(op'[o].status) = Stage(op[o].status)
                /\ \/ Stage(op[p].status) = "new" /\ Stage(op'[p].status) = "waiting"
                   \/ Stage(op[p].status) # "closed" /\ Stage(op'[p].status) = "closed"
    <3>1. PICK p \in Ops :
                /\ \A o \in Ops : o # p => Stage(op'[o].status) = Stage(op[o].status)
                /\ \/ Stage(op[p].status) = "new" /\ Stage(op'[p].status) = "waiting"
                   \/ Stage(op[p].status) # "closed" /\ Stage(op'[p].status) = "closed"
      BY <2>4
    <3>2. Billed!Enter(p) \/ Billed!Drop(p)
      BY <2>2, <3>1, StageAfter DEF Billed!Enter, Billed!Drop
    <3> QED BY <3>2 DEF Billed!Next
  <2> QED BY <1>4, <2>3, <2>4, StageStep
<1> QED BY <1>1, <1>2, <1>3, <1>4

\* Whatever its processes, leases, recoveries and retries do, the queue makes billed
\* calls as BilledCalls allows: one at a time for a member, one ever for an operation.
THEOREM QueueImplementsBilledCalls == Spec => ImplementsBilledCalls
<1>1. Init => Billed!Init
  <2> SUFFICES ASSUME Init PROVE Billed!Init
    OBVIOUS
  <2>1. \A o \in Ops : Stage(op[o].status) = "new"
    BY DEF Init, NoOperation, Stage
  <2>2. \A m \in Members : Calls(job, m) = {}
    BY DEF Init, IdleJob, Calls
  <2> QED BY <2>1, <2>2 DEF Billed!Init
<1>2. IInv /\ [Next]_vars => [Billed!Next]_(Billed!vars)
  <2>1. UNCHANGED vars => UNCHANGED Billed!vars
    BY DEF vars, Billed!vars
  <2> QED BY <2>1, BilledStep
<1> QED BY <1>1, <1>2, InductiveInvariant, PTL DEF Spec, ImplementsBilledCalls, Billed!Spec
=============================================================================
