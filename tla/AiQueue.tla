------------------------------ MODULE AiQueue ------------------------------
(***************************************************************************)
(* The durable queue of AI operations: members submit, cancel, retry and   *)
(* clear operations over HTTP (ai_queue.py); one AiQueueWorker per API     *)
(* process polls the table and executes each member's operations one at a  *)
(* time under a Redis lease (ai_worker.py, ai_operations.py, ai_lock.py).  *)
(*                                                                         *)
(* A step is what one database transaction or one Redis command makes      *)
(* visible; between two steps of a job anything else may happen.  Requests *)
(* here carry no idempotency key (ai_queue.py:174 returns at once then).   *)
(***************************************************************************)
EXTENDS Integers, TaskDomain

CONSTANTS Members,      \* accounts
          Tasks,        \* rewrite tasks
          OwnerOf,      \* the member that owns each task
          Ops,          \* ids of AI operations, never reused
          Workers,      \* API processes, each with one AiQueueWorker
          CallBound,    \* longest a job keeps the lease (provider deadline)
          LeaseTTL,     \* AI_LOCK_LEASE_SECONDS
          StaleAfter,   \* AI_OPERATION_STALE_SECONDS
          InitStates,   \* task states the instance starts from
          Faults,       \* the kinds of fault this instance may suffer
          MaxFaults,    \* how many faults happen in one behaviour
          None

FaultKinds == {"redis", "database", "shutdown", "crash"}

\* core/ai_limits.py: each window contains the one before it.
ASSUME TimingAssumption ==
    /\ CallBound \in Nat /\ LeaseTTL \in Nat /\ StaleAfter \in Nat
    /\ 0 < CallBound /\ CallBound < LeaseTTL /\ LeaseTTL < StaleAfter

ASSUME ConstantsAssumption ==
    /\ OwnerOf \in [Tasks -> Members]
    /\ Tasks # {}
    /\ None \notin Ops /\ None \notin Workers
    /\ InitStates \subseteq StableStates
    /\ Faults \subseteq FaultKinds
    /\ MaxFaults \in Nat

VARIABLES
    task,       \* rewrite_tasks.state
    drafted,    \* tasks with a script version
    op,         \* the ai_operations table
    saved,      \* operations whose result rows are committed
    txn,        \* the submission that holds a task's row lock, before its commit
    clock,      \* source of created_at
    lease,      \* the member's Redis key: token holder and remaining seconds
    job,        \* AiQueueWorker.jobs: what each process is doing for a member
    proc,       \* life of each API process
    faults      \* faults so far

vars == <<task, drafted, op, saved, txn, clock, lease, job, proc, faults>>

ACTIVE_STATUSES == {"queued", "running"}
Finished == {"succeeded", "failed", "cancelled"}

\* "absent": no such row yet; "inserting": written by an open transaction;
\* "deleted": removed by clear_completed, or its insert was rolled back.
OpStatus == ACTIVE_STATUSES \cup Finished \cup {"absent", "inserting", "deleted"}

Operation == [status  : OpStatus,
              task    : Tasks,
              kind    : AiOperationKind,
              initial : StableStates,    \* initial_task_state
              created : Nat,             \* created_at
              ahead   : SUBSET Ops,      \* active operations of the member at created_at
              age     : 0..StaleAfter + 1]  \* now - started_at, capped

Active(o) == op[o].status \in ACTIVE_STATUSES
Member(o) == OwnerOf[op[o].task]
Running(o) == RunningState(op[o].kind)      \* running_task_state

\* Where a job is.  "picked": execute() has begun; "leased": holds the lease;
\* "checked": re-read its operation as queued; "calling": claimed it;
\* "committed": its success is committed, refresh() pending; "returning" and
\* "raising": leaving the lease block; "handling": in execute()'s exception
\* handler, which has found its row when "resetting"; "recovering": tick() has
\* read a stale operation.
JobPC == {"idle", "picked", "leased", "checked", "calling", "committed",
          "returning", "raising", "handling", "resetting", "recovering"}
Holding == {"leased", "checked", "calling", "committed"}

Job == [pc : JobPC, op : Ops \cup {None}, reset : BOOLEAN]
IdleJob == [pc |-> "idle", op |-> None, reset |-> FALSE]
FreeLease == [holder |-> None, ttl |-> 0]

NoOperation == [status |-> "absent", task |-> CHOOSE t \in Tasks : TRUE,
                kind |-> "analysis", initial |-> "draft", created |-> 0,
                ahead |-> {}, age |-> 0]

Init ==
    /\ task \in [Tasks -> InitStates]
    /\ drafted = {t \in Tasks : task[t] \in {"editing", "finalized"}}
    /\ op = [o \in Ops |-> NoOperation]
    /\ saved = {}
    /\ txn = [t \in Tasks |-> None]
    /\ clock = 0
    /\ lease = [m \in Members |-> FreeLease]
    /\ job = [w \in Workers |-> [m \in Members |-> IdleJob]]
    /\ proc = [w \in Workers |-> "up"]
    /\ faults = 0

Fault(kind) == /\ kind \in Faults /\ faults < MaxFaults
               /\ faults' = faults + 1

-----------------------------------------------------------------------------
(* Requests of the member: ai_queue.py *)

\* Slip: submit() forgets the active check.
NoActiveUnchecked(t) == TRUE

\* The test of submit() under the row lock: no queued or running operation.
NoActive(t) == \A o \in Ops : op[o].task = t => ~Active(o)

\* submit() up to its commit: lock the task row, check, stamp created_at.
SubmitLock(o, t, kind) ==
    /\ op[o].status = "absent"
    /\ txn[t] = None
    /\ NoActive(t)
    /\ AssertTransition(task[t], RunningState(kind))
    /\ op' = [op EXCEPT ![o] =
                [status |-> "inserting", task |-> t, kind |-> kind,
                 initial |-> task[t], created |-> clock, age |-> 0,
                 ahead |-> {p \in Ops : Active(p) /\ Member(p) = OwnerOf[t]}]]
    /\ txn' = [txn EXCEPT ![t] = o]
    /\ clock' = clock + 1
    /\ UNCHANGED <<task, drafted, saved, lease, job, proc, faults>>

\* submit()'s commit: the operation and the task's running state together.
SubmitCommit(t) ==
    /\ txn[t] # None
    /\ op' = [op EXCEPT ![txn[t]].status = "queued"]
    /\ task' = [task EXCEPT ![t] = Running(txn[t])]
    /\ txn' = [txn EXCEPT ![t] = None]
    /\ UNCHANGED <<drafted, saved, clock, lease, job, proc, faults>>

\* The database connection is lost before the commit.
SubmitAbort(t) ==
    /\ txn[t] # None
    /\ Fault("database")
    /\ op' = [op EXCEPT ![txn[t]].status = "deleted"]
    /\ txn' = [txn EXCEPT ![t] = None]
    /\ UNCHANGED <<task, drafted, saved, clock, lease, job, proc>>

\* retry(): the saved inputs of a failed or cancelled operation, resubmitted.
Retry(o, old) ==
    /\ op[old].status \in {"failed", "cancelled"}
    /\ SubmitLock(o, op[old].task, op[old].kind)

\* cancel(): conditional update of a queued operation, the task put back.
Cancel(o) ==
    /\ op[o].status = "queued"
    /\ op' = [op EXCEPT ![o].status = "cancelled"]
    /\ task' = IF task[op[o].task] = Running(o)
                 THEN [task EXCEPT ![op[o].task] = op[o].initial]
                 ELSE task
    /\ UNCHANGED <<drafted, saved, txn, clock, lease, job, proc, faults>>

\* clear_completed(): one DELETE of the member's finished operations.
ClearCompleted(m) ==
    /\ \E o \in Ops : op[o].status \in Finished /\ Member(o) = m
    /\ op' = [o \in Ops |->
                IF op[o].status \in Finished /\ Member(o) = m
                  THEN [op[o] EXCEPT !.status = "deleted"]
                  ELSE op[o]]
    /\ UNCHANGED <<task, drafted, saved, txn, clock, lease, job, proc, faults>>

-----------------------------------------------------------------------------
(* The worker's poll: AiQueueWorker.tick *)

SetJob(w, m, pc) == job' = [job EXCEPT ![w][m].pc = pc]
EndJob(w, m) == job' = [job EXCEPT ![w][m] = IdleJob]

\* Slip: recovery ignores the cutoff.
StaleWithoutCutoff(o) == op[o].status = "running"

\* started_at < now - STALE_OPERATION_AFTER
Stale(o) == op[o].status = "running" /\ op[o].age > StaleAfter

\* recover_stale_operations, the reads: tick() does it only for members it has
\* no job for, and remembers the task as it is loaded.
RecoverRead(w, m) ==
    /\ proc[w] = "up" /\ job[w][m].pc = "idle"
    /\ \E o \in Ops :
        /\ Stale(o) /\ Member(o) = m
        /\ job' = [job EXCEPT ![w][m] =
                     [pc |-> "recovering", op |-> o,
                      reset |-> task[op[o].task] = Running(o)]]
    /\ UNCHANGED <<task, drafted, op, saved, txn, clock, lease, proc, faults>>

\* recover_stale_operations, the commit: nothing is re-read or locked.
RecoverWrite(w, m) ==
    LET o == job[w][m].op  t == op[o].task IN
    /\ proc[w] = "up" /\ job[w][m].pc = "recovering"
    /\ txn[t] = None
    /\ op' = [op EXCEPT ![o].status = IF @ = "deleted" THEN @ ELSE "failed"]
    /\ task' = IF job[w][m].reset /\ op[o].status # "deleted"
                 THEN [task EXCEPT ![t] = op[o].initial] ELSE task
    /\ EndJob(w, m)
    /\ UNCHANGED <<drafted, saved, txn, clock, lease, proc, faults>>

\* Slip: the poll orders by created_at descending.
NewestInQueue(o) == \A p \in Ops : Active(p) /\ Member(p) = Member(o) =>
                                       op[o].created >= op[p].created

\* The head of a member's queue: the first active row by created_at.
FirstInQueue(o) == \A p \in Ops : Active(p) /\ Member(p) = Member(o) =>
                            op[o].created <= op[p].created

\* tick() starts a job for a member that has none and runs nothing.
Pick(w, m) ==
    /\ proc[w] = "up" /\ job[w][m].pc = "idle"
    /\ \A p \in Ops : Member(p) = m => op[p].status # "running"
    /\ \E o \in Ops :
        /\ op[o].status = "queued" /\ Member(o) = m /\ FirstInQueue(o)
        /\ job' = [job EXCEPT ![w][m] =
                     [pc |-> "picked", op |-> o, reset |-> FALSE]]
    /\ UNCHANGED <<task, drafted, op, saved, txn, clock, lease, proc, faults>>

-----------------------------------------------------------------------------
(* A job: AiQueueWorker.execute and TaskAiOperationService._execute *)

\* The member's lease is free: SET NX succeeds.
LeaseFree(m) == lease[m].holder = None

At(w, m, pc) == proc[w] = "up" /\ job[w][m].pc = pc
JobOp(w, m) == job[w][m].op
JobTask(w, m) == op[job[w][m].op].task

\* execute() finds its operation no longer queued, or gone.
PrepareReturn(w, m) ==
    /\ At(w, m, "picked")
    /\ op[JobOp(w, m)].status # "queued"
    /\ EndJob(w, m)
    /\ UNCHANGED <<task, drafted, op, saved, txn, clock, lease, proc, faults>>

\* An error before the lease: disabled member, unreadable payload, a method's
\* own preconditions, the database.
PrepareError(w, m) ==
    /\ At(w, m, "picked")
    /\ SetJob(w, m, "handling")
    /\ UNCHANGED <<task, drafted, op, saved, txn, clock, lease, proc, faults>>

\* analyze(), suggest(), create_first_draft() and revise() recover the member's
\* stale operations before they ask for the lease; the reads and the commit are
\* one step here, their gap is explored by RecoverRead and RecoverWrite.
RecoverInJob(w, m) ==
    /\ At(w, m, "picked")
    /\ \E o \in Ops :
        /\ Stale(o) /\ Member(o) = m
        /\ op' = [op EXCEPT ![o].status = "failed"]
        /\ task' = IF task[op[o].task] = Running(o)
                     THEN [task EXCEPT ![op[o].task] = op[o].initial]
                     ELSE task
    /\ UNCHANGED <<drafted, saved, txn, clock, lease, job, proc, faults>>

\* MemberAiCallLock.acquire: SET key token NX EX ttl
Granted(w, m) == [lease EXCEPT ![m] = [holder |-> w, ttl |-> LeaseTTL]]

AcquireLease(w, m) ==
    /\ At(w, m, "picked")
    /\ LeaseFree(m)
    /\ lease' = Granted(w, m)
    /\ SetJob(w, m, "leased")
    /\ UNCHANGED <<task, drafted, op, saved, txn, clock, proc, faults>>

\* MemberAiCallBusyError: the operation stays queued.
LeaseBusy(w, m) ==
    /\ At(w, m, "picked")
    /\ lease[m].holder # None
    /\ EndJob(w, m)
    /\ UNCHANGED <<task, drafted, op, saved, txn, clock, lease, proc, faults>>

\* The SET gets no answer: Redis may have run it, and the key then stays until it
\* expires, as nobody has its token.
SetUnanswered(w, m) == lease' = lease \/ (LeaseFree(m) /\ lease' = Granted(w, m))

\* AiLockUnavailableError: the operation stays queued.
LeaseUnavailable(w, m) ==
    /\ At(w, m, "picked")
    /\ Fault("redis")
    /\ SetUnanswered(w, m)
    /\ EndJob(w, m)
    /\ UNCHANGED <<task, drafted, op, saved, txn, clock, proc>>

\* refresh(operation) under the lease: not queued any more is a plain return,
\* a deleted row raises operation_not_found.
Recheck(w, m) ==
    /\ At(w, m, "leased")
    /\ SetJob(w, m, CASE op[JobOp(w, m)].status = "queued"  -> "checked"
                      [] op[JobOp(w, m)].status = "deleted" -> "raising"
                      [] OTHER                              -> "returning")
    /\ UNCHANGED <<task, drafted, op, saved, txn, clock, lease, proc, faults>>

\* With the task row locked: the provider setting is gone or unreadable, or the
\* database breaks a deadlock with cancel() against this transaction.
ClaimError(w, m) ==
    /\ At(w, m, "checked")
    /\ SetJob(w, m, "raising")
    /\ UNCHANGED <<task, drafted, op, saved, txn, clock, lease, proc, faults>>

\* The task is not in the operation's running state: invalid_task_state.
ClaimRefused(w, m) ==
    /\ At(w, m, "checked")
    /\ txn[JobTask(w, m)] = None
    /\ task[JobTask(w, m)] # Running(JobOp(w, m))
    /\ SetJob(w, m, "raising")
    /\ UNCHANGED <<task, drafted, op, saved, txn, clock, lease, proc, faults>>

\* The conditional update matched no row.
ClaimLost(w, m) ==
    /\ At(w, m, "checked")
    /\ txn[JobTask(w, m)] = None
    /\ task[JobTask(w, m)] = Running(JobOp(w, m))
    /\ op[JobOp(w, m)].status # "queued"
    /\ SetJob(w, m, "returning")
    /\ UNCHANGED <<task, drafted, op, saved, txn, clock, lease, proc, faults>>

\* Slip: the claiming UPDATE loses its WHERE status = queued.
ClaimableAlways(o) == TRUE

\* What the claiming UPDATE requires of the row.
Claimable(o) == op[o].status = "queued"

\* UPDATE ... SET status = running WHERE status = queued, task.state, commit.
Claim(w, m) ==
    LET o == JobOp(w, m)  t == JobTask(w, m) IN
    /\ At(w, m, "checked")
    /\ txn[t] = None
    /\ task[t] = Running(o)
    /\ Claimable(o)
    /\ op' = [op EXCEPT ![o].status = "running", ![o].age = 0]
    /\ task' = [task EXCEPT ![t] = Running(o)]
    /\ SetJob(w, m, "calling")
    /\ UNCHANGED <<drafted, saved, txn, clock, lease, proc, faults>>

\* The provider answers, persist() and the success are one transaction.  A
\* first draft is refused on a task that has one, a revision on one that has none.
CallSucceeds(w, m) ==
    LET o == JobOp(w, m)  t == JobTask(w, m)  k == op[o].kind IN
    /\ At(w, m, "calling")
    /\ k = "first_draft" => t \notin drafted
    /\ k = "revision" => t \in drafted
    /\ op' = [op EXCEPT ![o].status = "succeeded"]
    /\ task' = [task EXCEPT ![t] = SucceededState(k)]
    /\ saved' = saved \cup {o}
    /\ drafted' = IF k = "first_draft" THEN drafted \cup {t} ELSE drafted
    /\ SetJob(w, m, "committed")
    /\ UNCHANGED <<txn, clock, lease, proc, faults>>

\* refresh(operation) after the commit; if the row was cleared meanwhile it
\* raises and the recovery branch finds no operation.
Refresh(w, m) ==
    /\ At(w, m, "committed")
    /\ SetJob(w, m, IF op[JobOp(w, m)].status = "deleted" THEN "raising" ELSE "returning")
    /\ UNCHANGED <<task, drafted, op, saved, txn, clock, lease, proc, faults>>

\* The refresh fails, and so does the recovery branch's look at the operation.
RefreshFails(w, m) ==
    /\ At(w, m, "committed")
    /\ Fault("database")
    /\ SetJob(w, m, "raising")
    /\ UNCHANGED <<task, drafted, op, saved, txn, clock, lease, proc>>

\* _record_failure: the task goes back to its initial state, unconditionally.
RecordFailure(o, status) ==
    /\ op' = [op EXCEPT ![o].status = status]
    /\ task' = [task EXCEPT ![op[o].task] = op[o].initial]

\* Provider error, timeout, invalid result or failed persist().
CallFails(w, m) ==
    /\ At(w, m, "calling")
    /\ RecordFailure(JobOp(w, m), "failed")
    /\ SetJob(w, m, "raising")
    /\ UNCHANGED <<drafted, saved, txn, clock, lease, proc, faults>>

\* The same, but the commit of _record_failure fails too.
CallFailsUnrecorded(w, m) ==
    /\ At(w, m, "calling")
    /\ Fault("database")
    /\ SetJob(w, m, "raising")
    /\ UNCHANGED <<task, drafted, op, saved, txn, clock, lease, proc>>

\* Slip: the release deletes the key without comparing the token.
ReleasedAnyToken(w, m) == [lease EXCEPT ![m] = FreeLease]

\* The release script deletes the key only if it still holds this token.
ReleasedLease(w, m) == IF lease[m].holder = w THEN [lease EXCEPT ![m] = FreeLease]
                                              ELSE lease

\* MemberAiLease.__aexit__, then the return or the exception goes on.
LeaveLease(w, m) ==
    IF job[w][m].pc = "raising" THEN SetJob(w, m, "handling") ELSE EndJob(w, m)

Release(w, m) ==
    /\ At(w, m, "returning") \/ At(w, m, "raising")
    /\ lease' = ReleasedLease(w, m)
    /\ LeaveLease(w, m)
    /\ UNCHANGED <<task, drafted, op, saved, txn, clock, proc, faults>>

\* A Redis error on release is swallowed: the key stays until it expires.
ReleaseLost(w, m) ==
    /\ At(w, m, "returning") \/ At(w, m, "raising")
    /\ Fault("redis")
    /\ LeaveLease(w, m)
    /\ UNCHANGED <<task, drafted, op, saved, txn, clock, lease, proc>>

\* Slip: the handler fails the operation and forgets the task.
HandlerForgetsTask(o) == task

\* execute()'s exception handler.  The task is put back whenever it is in this
\* operation's running state, on account of another operation or not; the operation
\* fails only if still queued.
HandlerTask(o) == IF task[op[o].task] = Running(o)
                    THEN [task EXCEPT ![op[o].task] = op[o].initial] ELSE task

\* Slip: the handler's UPDATE loses its WHERE status = queued.
HandlerOverwrites(o) == "failed"

HandlerStatus(o) == IF op[o].status = "queued" THEN "failed" ELSE op[o].status

\* session.get(AiOperation): a row that is gone leaves nothing to put back or fail.
HandlerRead(w, m) ==
    /\ At(w, m, "handling")
    /\ IF op[JobOp(w, m)].status = "deleted" THEN EndJob(w, m) ELSE SetJob(w, m, "resetting")
    /\ UNCHANGED <<task, drafted, op, saved, txn, clock, lease, proc, faults>>

\* The two conditional updates and their commit.
Handle(w, m) ==
    LET o == JobOp(w, m) IN
    /\ At(w, m, "resetting")
    /\ task' = HandlerTask(o)
    /\ op' = [op EXCEPT ![o].status = HandlerStatus(o)]
    /\ EndJob(w, m)
    /\ UNCHANGED <<drafted, saved, txn, clock, lease, proc, faults>>

\* The handler's own transaction fails: the next tick() only logs the job.
HandleFails(w, m) ==
    /\ At(w, m, "handling") \/ At(w, m, "resetting")
    /\ Fault("database")
    /\ EndJob(w, m)
    /\ UNCHANGED <<task, drafted, op, saved, txn, clock, lease, proc>>

-----------------------------------------------------------------------------
(* Processes and time *)

\* Graceful shutdown: run() leaves its loop and cancels every job.
Shutdown(w) ==
    /\ proc[w] = "up"
    /\ Fault("shutdown")
    /\ proc' = [proc EXCEPT ![w] = "stopping"]
    /\ UNCHANGED <<task, drafted, op, saved, txn, clock, lease, job>>

Stopping(w, m, pcs) == proc[w] = "stopping" /\ job[w][m].pc \in pcs

\* CancelledError outside the lease: the operation keeps its status.
CancelOutside(w, m) ==
    /\ Stopping(w, m, {"handling", "resetting", "recovering"})
    /\ EndJob(w, m)
    /\ UNCHANGED <<task, drafted, op, saved, txn, clock, lease, proc, faults>>

\* CancelledError before the lease is there, the SET perhaps on its way.
CancelAcquiring(w, m) ==
    /\ Stopping(w, m, {"picked"})
    /\ SetUnanswered(w, m)
    /\ EndJob(w, m)
    /\ UNCHANGED <<task, drafted, op, saved, txn, clock, proc, faults>>

\* CancelledError where nothing records it: before the claim, in the claim's commit
\* or in the _record_failure of a failed call.  The lease block releases the key,
\* and a claimed operation stays running.
CancelUnrecorded(w, m) ==
    /\ Stopping(w, m, {"leased", "checked", "calling"})
    /\ lease' = ReleasedLease(w, m)
    /\ EndJob(w, m)
    /\ UNCHANGED <<task, drafted, op, saved, txn, clock, proc, faults>>

\* CancelledError in release(): Redis may or may not have run the script.
CancelReleasing(w, m) ==
    /\ Stopping(w, m, {"returning", "raising"})
    /\ lease' \in {lease, ReleasedLease(w, m)}
    /\ EndJob(w, m)
    /\ UNCHANGED <<task, drafted, op, saved, txn, clock, proc, faults>>

\* CancelledError in the provider call or in the refresh() after the success:
\* _record_cancellation writes over whatever status the operation has.
CancelClaimed(w, m) ==
    LET o == JobOp(w, m) IN
    /\ Stopping(w, m, {"calling", "committed"})
    /\ txn[op[o].task] = None
    /\ IF op[o].status = "deleted"
         THEN UNCHANGED <<op, task>>
         ELSE RecordFailure(o, "cancelled")
    /\ lease' = ReleasedLease(w, m)
    /\ EndJob(w, m)
    /\ UNCHANGED <<drafted, saved, txn, clock, proc, faults>>

\* gather() has seen every job end.
Stopped(w) ==
    /\ proc[w] = "stopping"
    /\ \A m \in Members : job[w][m].pc = "idle"
    /\ proc' = [proc EXCEPT ![w] = "down"]
    /\ UNCHANGED <<task, drafted, op, saved, txn, clock, lease, job, faults>>

\* A hard exit: jobs vanish, database rows and Redis keys stay.
Crash(w) ==
    /\ proc[w] # "down"
    /\ Fault("crash")
    /\ proc' = [proc EXCEPT ![w] = "down"]
    /\ job' = [job EXCEPT ![w] = [m \in Members |-> IdleJob]]
    /\ UNCHANGED <<task, drafted, op, saved, txn, clock, lease>>

\* systemd starts the process again; lifespan() starts a new worker.
Restart(w) ==
    /\ proc[w] = "down"
    /\ proc' = [proc EXCEPT ![w] = "up"]
    /\ UNCHANGED <<task, drafted, op, saved, txn, clock, lease, job, faults>>

\* Slip: SET without EX.
ExpireNever(l) == l

\* Time passes: keys expire and running operations age.  A job that holds the
\* lease has its result recorded within CallBound (the provider deadline and its
\* margin); only the release itself may come late.
Expire(l) == IF l.ttl > 1 THEN [l EXCEPT !.ttl = l.ttl - 1] ELSE FreeLease

TickClock ==
    /\ \/ \E m \in Members : lease[m].holder # None
       \/ \E o \in Ops : op[o].status = "running" /\ op[o].age <= StaleAfter
    /\ \A w \in Workers, m \in Members :
         job[w][m].pc \in Holding => lease[m].ttl > LeaseTTL - CallBound
    /\ lease' = [m \in Members |-> Expire(lease[m])]
    /\ op' = [o \in Ops |-> IF op[o].status = "running" /\ op[o].age <= StaleAfter
                              THEN [op[o] EXCEPT !.age = op[o].age + 1] ELSE op[o]]
    /\ UNCHANGED <<task, drafted, saved, txn, clock, job, proc, faults>>

-----------------------------------------------------------------------------
Request ==
    \/ \E o \in Ops, t \in Tasks, k \in AiOperationKind : SubmitLock(o, t, k)
    \/ \E o, old \in Ops : Retry(o, old)
    \/ \E o \in Ops : Cancel(o)
    \/ \E m \in Members : ClearCompleted(m)

Transaction(t) == SubmitCommit(t) \/ SubmitAbort(t)

Poll(w, m) == RecoverRead(w, m) \/ Pick(w, m)

\* The steps of a job that its event loop takes without a fault.
JobStep(w, m) ==
    \/ RecoverWrite(w, m)
    \/ PrepareReturn(w, m) \/ PrepareError(w, m) \/ RecoverInJob(w, m)
    \/ AcquireLease(w, m) \/ LeaseBusy(w, m) \/ Recheck(w, m)
    \/ ClaimError(w, m) \/ ClaimRefused(w, m) \/ ClaimLost(w, m) \/ Claim(w, m)
    \/ CallSucceeds(w, m) \/ CallFails(w, m) \/ Refresh(w, m)
    \/ Release(w, m) \/ HandlerRead(w, m) \/ Handle(w, m)
    \/ CancelOutside(w, m) \/ CancelAcquiring(w, m) \/ CancelUnrecorded(w, m)
    \/ CancelReleasing(w, m) \/ CancelClaimed(w, m)

JobFault(w, m) ==
    \/ LeaseUnavailable(w, m) \/ ReleaseLost(w, m)
    \/ CallFailsUnrecorded(w, m) \/ RefreshFails(w, m) \/ HandleFails(w, m)

Process(w) == Shutdown(w) \/ Stopped(w) \/ Crash(w) \/ Restart(w)

Next ==
    \/ Request
    \/ \E t \in Tasks : Transaction(t)
    \/ \E w \in Workers, m \in Members :
         Poll(w, m) \/ JobStep(w, m) \/ JobFault(w, m)
    \/ \E w \in Workers : Process(w)
    \/ TickClock

\* Transactions end, workers poll every second and run their jobs, processes
\* are restarted and time passes.  Members need not do anything, and nothing
\* is assumed of faults except that a behaviour has at most MaxFaults of them.
Fairness ==
    /\ \A t \in Tasks : WF_vars(SubmitCommit(t))
    /\ \A w \in Workers, m \in Members :
         WF_vars(Poll(w, m)) /\ WF_vars(JobStep(w, m))
    /\ \A w \in Workers : WF_vars(Stopped(w)) /\ WF_vars(Restart(w))
    /\ WF_vars(TickClock)

Spec == Init /\ [][Next]_vars /\ Fairness

-----------------------------------------------------------------------------
(* Properties *)

\* Every variable keeps its type: the columns of the two tables, the Redis keys
\* and the jobs dictionary only hold values the code writes there.
TypeOK ==
    /\ task \in [Tasks -> TaskState]
    /\ drafted \subseteq Tasks
    /\ op \in [Ops -> Operation]
    /\ saved \subseteq Ops
    /\ txn \in [Tasks -> Ops \cup {None}]
    /\ clock \in Nat
    /\ lease \in [Members -> [holder : Workers \cup {None}, ttl : 0..LeaseTTL]]
    /\ job \in [Workers -> [Members -> Job]]
    /\ proc \in [Workers -> {"up", "stopping", "down"}]
    /\ faults \in Nat

\* A document has at most one queued or running operation, whatever the order
\* of submissions, retries, cancellations and recoveries (API_CONTRACT.md:84).
\* The row lock and the check under it are enough: the partial unique index of
\* models.py:188 is left out of the model, and so never has to refuse a commit.
OneActivePerTask ==
    \A o, p \in Ops : Active(o) /\ Active(p) /\ op[o].task = op[p].task => o = p

\* At most one AI call per member, across competing API processes and through
\* crashes and lost releases (ARCHITECTURE.md:63).
OneCallPerMember ==
    \A m \in Members, v, w \in Workers :
      job[v][m].pc = "calling" /\ job[w][m].pc = "calling" => v = w

\* The lease outlives the call it protects, and no late release by another
\* process takes it away (ARCHITECTURE.md:78-80).
CallHoldsLease ==
    \A w \in Workers, m \in Members :
      job[w][m].pc = "calling" => lease[m].holder = w

\* While a process waits for the provider its operation is running: neither a
\* cancellation nor another process's stale recovery has taken it away.
CallOwnsOperation ==
    \A w \in Workers, m \in Members :
      job[w][m].pc = "calling" => op[job[w][m].op].status = "running"

\* A task is in analyzing, suggesting, generating or revising only while an
\* operation of that kind is queued or running on it: no cancellation, failure,
\* recovery, crash or shutdown leaves a task that nothing will ever move on.
NoStrandedTask ==
    \A t \in Tasks : task[t] \in RunningStates =>
      \E o \in Ops : Active(o) /\ op[o].task = t /\ Running(o) = task[t]

\* A member's operations start in submission order: when one runs, nothing that
\* was already in the member's queue when it was submitted is still waiting.
SubmissionOrder ==
    \A o \in Ops : op[o].status = "running" =>
      \A p \in op[o].ahead : ~Active(p)

\* A process that is shutting down cancels its jobs; one that reaches a job between
\* its commit and its end is recorded although the operation has succeeded
\* (ai_operations.py:626 has no guard, unlike 636).
LateCancel(o) ==
    \E w \in Workers, m \in Members :
      proc[w] = "stopping" /\ job[w][m].pc = "committed" /\ job[w][m].op = o

\* No provider call is made twice for one operation: once finished, cancelled or
\* cleared it never becomes active again, and once running it is never requeued
\* (ARCHITECTURE.md:76-77).
NeverRunTwice ==
    [][\A o \in Ops :
         /\ op[o].status \in Finished \cup {"deleted"} => op'[o].status \notin ACTIVE_STATUSES
         /\ op[o].status = "running" => op'[o].status # "queued"]_vars

\* A finished operation never changes again except to be cleared, and a queued one
\* is claimed, cancelled or failed, whatever process handles it late: the exception
\* handler and the recovery leave what others have recorded, and only the
\* cancellation of a shutdown may still overwrite a success.
StatusOrder ==
    [][\A o \in Ops : op'[o].status # op[o].status =>
         \/ <<op[o].status, op'[o].status>> \in
              ({"absent"} \X {"inserting"}) \cup ({"inserting"} \X {"queued", "deleted"})
              \cup ({"queued"} \X {"running", "cancelled", "failed"})
              \cup ({"running"} \X Finished) \cup (Finished \X {"deleted"})
         \/ op'[o].status = "cancelled" /\ op[o].status = "succeeded" /\ LateCancel(o)]_vars

\* The queue as BilledCalls sees it: where the operations are with their calls, and the
\* jobs that wait for the provider.
Stage(status) ==
    IF status \in {"absent", "inserting"} THEN "new"
    ELSE IF status = "queued" THEN "waiting" ELSE "closed"
Calls(jobs, m) ==
    {<<w, jobs[w][m].op>> : w \in {v \in Workers : jobs[v][m].pc = "calling"}}

Billed == INSTANCE BilledCalls WITH stage <- [o \in Ops |-> Stage(op[o].status)],
                                    calls <- [m \in Members |-> Calls(job, m)]

\* Every step of the queue is a step of BilledCalls or none at all: across competing
\* processes, crashes, expired leases, stale recoveries and retries a member has one
\* call at a time, and no operation is ever called a second time.
ImplementsBilledCalls == Billed!Spec

\* Every submitted operation finishes: crashes, expired and orphaned leases,
\* failures of earlier operations and Redis outages only delay it.
EveryOperationFinishes ==
    \A o \in Ops : op[o].status \in ACTIVE_STATUSES
                     ~> op[o].status \in Finished \cup {"deleted"}

-----------------------------------------------------------------------------
(* The inductive invariant behind the safety properties *)

\* An open submission owns its row, and its task has no active operation.
RowLocks ==
    /\ \A t \in Tasks : txn[t] # None =>
         op[txn[t]].status = "inserting" /\ op[txn[t]].task = t /\ NoActive(t)
    /\ \A o \in Ops : op[o].status = "inserting" => txn[op[o].task] = o

\* A job works on a committed operation of its member.
JobsHaveOperations ==
    \A w \in Workers, m \in Members : job[w][m].pc # "idle" =>
      /\ job[w][m].op \in Ops
      /\ op[job[w][m].op].status \notin {"absent", "inserting"}
      /\ Member(job[w][m].op) = m

\* A job that needs the lease has it, with at least the margin left.
LeaseCovers ==
    \A w \in Workers, m \in Members : job[w][m].pc \in Holding =>
      lease[m].holder = w /\ lease[m].ttl >= LeaseTTL - CallBound

\* A call is no older than its lease; recovery only ever targets operations that
\* are past the stale limit or already finished.
Past(o) == op[o].status \in Finished \cup {"deleted"}

Claims ==
    \A w \in Workers, m \in Members :
      LET o == job[w][m].op IN
      /\ job[w][m].pc = "calling" =>
           op[o].status = "running" /\ op[o].age + lease[m].ttl <= LeaseTTL
      /\ job[w][m].pc = "committed" => Past(o)
      /\ job[w][m].pc = "recovering" =>
           \/ Past(o)
           \/ Stale(o) /\ (job[w][m].reset \/ task[op[o].task] # Running(o))

\* What a job that still has to write finds in its row: after its commit the success
\* or nothing, in a recovery what it has read or what another recovery has written.
Recorded ==
    \A w \in Workers, m \in Members :
      LET o == job[w][m].op IN
      /\ job[w][m].pc = "committed" => op[o].status \in {"succeeded", "deleted"}
      /\ job[w][m].pc = "recovering" => Stale(o) \/ op[o].status \in {"failed", "deleted"}

\* Everything ahead of an operation has an earlier stamp, and is past before the
\* operation is picked.
Ahead ==
    /\ \A o \in Ops : op[o].status # "absent" =>
         /\ op[o].created < clock
         /\ \A p \in op[o].ahead :
              /\ op[p].status \notin {"absent", "inserting"}
              /\ op[p].created < op[o].created
              /\ Member(p) = Member(o)
    /\ \A w \in Workers, m \in Members : job[w][m].pc # "idle" =>
         \A p \in op[job[w][m].op].ahead : Past(p)
    /\ \A o \in Ops : op[o].status = "running" => \A p \in op[o].ahead : Past(p)

IInv == /\ TypeOK /\ RowLocks /\ OneActivePerTask /\ NoStrandedTask
        /\ JobsHaveOperations /\ LeaseCovers /\ Claims /\ Ahead
=============================================================================
