---------------------------- MODULE TaskDocument ----------------------------
(***************************************************************************)
(* One document and the HTTP handlers of router.py that change it, racing  *)
(* with each other and with the AI operations of the queue.                *)
(*                                                                         *)
(* Every handler first loads the task and its version (_owned_task,        *)
(* _owned_version), then takes the row lock and counts active operations   *)
(* (_assert_no_active_ai), and at last commits.  The lock selects only the *)
(* task's id, so what a handler decides on is the task as it was loaded.   *)
(* The queue appears by its effect on the document: AiQueue has its steps. *)
(* An operation that has ended may still have a process that resets its    *)
(* task: those late writes take no lock they could fail on and do not look *)
(* for a newer operation.                                                  *)
(***************************************************************************)
EXTENDS Integers, FiniteSetsExt, TaskDomain

CONSTANTS Requests,     \* handler invocations
          Versions,     \* ids of script versions
          Length,       \* characters in every version
          InitStates,   \* states the document starts from, before any version
          Kinds,        \* the handlers this instance runs
          MaxSubmits,   \* AI operations submitted in one behaviour
          None

RequestKind == {"update", "notes", "archive", "restore", "manual_edit",
                "create_lock", "delete_lock", "finalize"}

ASSUME DocumentAssumption ==
    /\ Length \in Nat /\ MaxSubmits \in Nat
    /\ InitStates \subseteq {"draft", "analysis_ready", "suggestions_ready"}
    /\ Kinds \subseteq RequestKind
    /\ None \notin Versions /\ None \notin Requests /\ None \notin TaskState

VARIABLES
    state,      \* rewrite_tasks.state
    from,       \* archived_from_state
    active,     \* the queued or running operation of the task, if any
    ended,      \* the operations that were active before
    submits,    \* operations submitted so far
    versions,   \* script_versions of the task
    drafts,     \* those of kind first_draft
    final,      \* those with is_current_final
    locks,      \* locked_fragments
    inputs,     \* who last wrote the source text, settings, analysis or suggestions
    row,        \* the request that holds the row lock
    req,        \* the requests
    prev        \* history: the state the task left when it was last archived

vars == <<state, from, active, ended, submits, versions, drafts, final, locks, inputs,
          row, req, prev>>
document == <<versions, drafts, final, locks, inputs>>

Ranges == {r \in [start : 0..Length, end : 0..Length] : r.start < r.end}
Fragment == [version : Versions, range : Ranges, order : Nat]

\* abandoned: claimed, and its worker gone without recording how it ended.
Operation == [kind : AiOperationKind, initial : TaskState,
              phase : {"queued", "running", "abandoned"}]

\* seen and seenFrom are the loaded columns, order the computed order_index or
\* the id of the fragment to delete.
Request == [pc : {"new", "loaded", "locked", "done"}, kind : RequestKind,
            seen : TaskState, seenFrom : TaskState \cup {None},
            version : Versions \cup {None}, range : Ranges \cup {None}, order : Nat]
NewRequest == [pc |-> "new", kind |-> "notes", seen |-> "draft", seenFrom |-> None,
               version |-> None, range |-> None, order |-> 0]

Init ==
    /\ state \in InitStates
    /\ from = None /\ active = None /\ ended = {} /\ submits = 0
    /\ versions = {} /\ drafts = {} /\ final = {} /\ locks = {}
    /\ inputs = None /\ row = None /\ prev = None
    /\ req = [r \in Requests |-> NewRequest]

\* The version a writer inserts gets an unused id.
Fresh(v) == v \in Versions \ versions

-----------------------------------------------------------------------------
(* AI operations, by their effect on the document *)

\* submit(): the task row is locked and read again before anything is decided.
Submit(kind) ==
    /\ row = None /\ active = None /\ submits < MaxSubmits
    /\ AssertTransition(state, RunningState(kind))
    /\ active' = [kind |-> kind, initial |-> state, phase |-> "queued"]
    /\ state' = RunningState(kind)
    /\ submits' = submits + 1
    /\ UNCHANGED <<from, ended, document, row, req, prev>>

\* A worker claims a queued operation only in its running state.
Claim ==
    /\ active # None /\ row = None
    /\ active.phase = "queued" /\ state = RunningState(active.kind)
    /\ active' = [active EXCEPT !.phase = "running"]
    /\ UNCHANGED <<state, from, ended, submits, document, row, req, prev>>

\* Slip: create_first_draft does not look for an existing first draft.
DraftAlwaysAllowed(kind) == TRUE

\* has_first_draft decides between a first draft and a revision.
DraftAllowed(kind) == /\ kind = "first_draft" => drafts = {}
                      /\ kind = "revision" => drafts # {}

\* A success commits the result rows and the new state together.
Succeed ==
    /\ active # None /\ row = None
    /\ active.phase = "running" /\ DraftAllowed(active.kind)
    /\ \/ /\ active.kind \in {"first_draft", "revision"}
          /\ \E v \in Versions :
              /\ Fresh(v)
              /\ versions' = versions \cup {v}
              /\ drafts' = IF active.kind = "first_draft" THEN drafts \cup {v} ELSE drafts
          /\ UNCHANGED inputs
       \/ /\ active.kind \in {"analysis", "suggestions"}
          /\ inputs' = None
          /\ UNCHANGED <<versions, drafts>>
    /\ state' = SucceededState(active.kind)
    /\ active' = None /\ ended' = ended \cup {active}
    /\ UNCHANGED <<from, submits, final, locks, row, req, prev>>

\* The task as an operation leaves it when it looks at its state first.
ResetFrom(o) == IF state = RunningState(o.kind) THEN o.initial ELSE state

\* A failure or a cancellation puts the task back: cancel(), a recovery and the
\* handler of an operation that was not claimed only from its running state,
\* _record_failure and a recovery that read the task before from any.
Fail ==
    /\ active # None /\ row = None
    /\ \/ state' = ResetFrom(active)
       \/ active.phase # "queued" /\ state' = active.initial
    /\ active' = None /\ ended' = ended \cup {active}
    /\ UNCHANGED <<from, submits, document, row, req, prev>>

\* The worker is gone and the row says running: after a crash nothing is written,
\* after a failure that could not be recorded the handler has put the task back.
Abandon ==
    /\ active # None /\ row = None /\ active.phase = "running"
    /\ state' \in {state, ResetFrom(active)}
    /\ active' = [active EXCEPT !.phase = "abandoned"]
    /\ UNCHANGED <<from, ended, submits, document, row, req, prev>>

\* What a process does that is late for its operation o: the handler of a failed
\* job looks at the state, a second recovery has done so before and a
\* cancellation after the success does not.
LateReset(o) ==
    /\ row = None
    /\ \/ state' = ResetFrom(o)
       \/ o.phase # "queued" /\ state' = o.initial
    /\ UNCHANGED <<from, active, ended, submits, document, row, req, prev>>

-----------------------------------------------------------------------------
(* The handlers *)

\* _owned_version and _owned_task: plain reads, no lock.  Requests that fail on
\* their payload or a missing row alone change nothing and are left out.
Load(r) ==
    /\ req[r].pc = "new"
    /\ \E kind \in Kinds, v \in versions \cup {None}, x \in Ranges \cup {None},
          order \in {l.order : l \in locks} \cup {0} :
        /\ kind \in {"manual_edit", "create_lock", "finalize"} <=> v # None
        /\ kind = "create_lock" <=> x # None
        /\ kind # "delete_lock" => order = 0
        /\ req' = [req EXCEPT ![r] =
                     [pc |-> "loaded", kind |-> kind, seen |-> state, seenFrom |-> from,
                      version |-> v, range |-> x, order |-> order]]
    /\ UNCHANGED <<state, from, active, ended, submits, document, row, prev>>

\* Slip: the check no longer locks the row.
RowUnlocked == TRUE

\* SELECT ... FOR UPDATE waits until no transaction holds the row.
RowFree == row = None

\* Slip: only a fragment that starts inside an existing one is refused.
OverlapsStart(v, x) ==
    \E l \in locks : l.version = v /\ x.start >= l.range.start /\ x.start < l.range.end

\* assert_no_overlapping_range against the fragments of the same version.
Overlaps(v, x) ==
    \E l \in locks : l.version = v /\ x.start < l.range.end /\ x.end > l.range.start

\* The checks after the lock, named after the error each one answers with.  Those
\* on the task's state use the loaded state.
TaskNotEditable(q) == q.kind = "update" /\ q.seen # "draft"
TaskNotRestorable(q) == q.kind = "restore" /\ (q.seen # "archived" \/ q.seenFrom = None)
TaskArchived(q) == q.kind \in {"manual_edit", "create_lock", "finalize"} /\ q.seen = "archived"
FirstDraftRequired(q) == q.kind = "manual_edit" /\ drafts = {}
LockOverlap(q) == q.kind = "create_lock" /\ Overlaps(q.version, q.range)
LockNotFound(q) == q.kind = "delete_lock" /\ \A l \in locks : l.order # q.order

Refused(q) == \/ TaskNotEditable(q)
              \/ TaskNotRestorable(q)
              \/ TaskArchived(q)
              \/ FirstDraftRequired(q)
              \/ LockOverlap(q)
              \/ LockNotFound(q)

\* coalesce(max(order_index), -1) + 1
NextOrder == IF locks = {} THEN 0 ELSE Max({l.order : l \in locks}) + 1

\* Slip: the handlers forget to look for an active operation.
BusyIgnored == FALSE

\* The count of active operations under the lock.
Busy == active # None

\* _assert_no_active_ai, then the handler's own checks; an error rolls back.
Lock(r) ==
    /\ req[r].pc = "loaded"
    /\ RowFree
    /\ IF Busy \/ Refused(req[r])
         THEN /\ req' = [req EXCEPT ![r].pc = "done"]
              /\ UNCHANGED row
         ELSE /\ req' = [req EXCEPT ![r].pc = "locked",
                                    ![r].order = IF req[r].kind = "create_lock"
                                                   THEN NextOrder ELSE @]
              /\ row' = r
    /\ UNCHANGED <<state, from, active, ended, submits, document, prev>>

\* The ORM writes only the columns whose value differs from the loaded one.
Flush(loaded, new, stored) == IF new = loaded THEN stored ELSE new

\* Slip: finalize leaves the previous final version flagged.
FinalKept(v) == final \cup {v}

\* The bulk update clears every flag of the task, then the version is flagged.
FinalAfter(v) == {v}

\* What each handler writes.
UpdateTask(r) ==
    /\ req[r].kind = "update"
    /\ inputs' = r
    /\ UNCHANGED <<state, from, versions, drafts, final, locks>>

\* update_analysis and update_suggestion, which check no state at all.
UpdateNotes(r) ==
    /\ req[r].kind = "notes"
    /\ inputs' = r
    /\ UNCHANGED <<state, from, versions, drafts, final, locks>>

ArchiveTask(q) ==
    /\ q.kind = "archive"
    /\ state' = Flush(q.seen, "archived", state)
    /\ from' = Flush(q.seenFrom, IF q.seen = "archived" THEN q.seenFrom ELSE q.seen, from)
    /\ UNCHANGED document

RestoreTask(q) ==
    /\ q.kind = "restore"
    /\ state' = Flush(q.seen, q.seenFrom, state)
    /\ from' = Flush(q.seenFrom, None, from)
    /\ UNCHANGED document

CreateManualEdit(q) ==
    /\ q.kind = "manual_edit"
    /\ \E v \in Versions : Fresh(v) /\ versions' = versions \cup {v}
    /\ state' = Flush(q.seen, "editing", state)
    /\ UNCHANGED <<from, drafts, final, locks, inputs>>

CreateLock(q) ==
    /\ q.kind = "create_lock"
    /\ locks' = locks \cup {[version |-> q.version, range |-> q.range, order |-> q.order]}
    /\ UNCHANGED <<state, from, versions, drafts, final, inputs>>

DeleteLock(q) ==
    /\ q.kind = "delete_lock"
    /\ locks' = {l \in locks : l.order # q.order}
    /\ UNCHANGED <<state, from, versions, drafts, final, inputs>>

FinalizeVersion(q) ==
    /\ q.kind = "finalize"
    /\ final' = FinalAfter(q.version)
    /\ state' = Flush(q.seen, "finalized", state)
    /\ UNCHANGED <<from, versions, drafts, locks, inputs>>

Write(r) == \/ UpdateTask(r)
            \/ UpdateNotes(r)
            \/ ArchiveTask(req[r])
            \/ RestoreTask(req[r])
            \/ CreateManualEdit(req[r])
            \/ CreateLock(req[r])
            \/ DeleteLock(req[r])
            \/ FinalizeVersion(req[r])

Commit(r) ==
    /\ req[r].pc = "locked"
    /\ Write(r)
    /\ prev' = IF state' = "archived" /\ state # "archived" THEN state ELSE prev
    /\ row' = None
    /\ req' = [req EXCEPT ![r].pc = "done"]
    /\ UNCHANGED <<active, ended, submits>>

-----------------------------------------------------------------------------
Next ==
    \/ \E kind \in AiOperationKind : Submit(kind)
    \/ Claim
    \/ Succeed
    \/ Fail
    \/ Abandon
    \/ \E o \in ended : LateReset(o)
    \/ \E r \in Requests : Load(r) \/ Lock(r) \/ Commit(r)

Spec == Init /\ [][Next]_vars

-----------------------------------------------------------------------------
(* Properties *)

\* Columns, rows and requests hold what the code can put there.
TypeOK ==
    /\ state \in TaskState
    /\ from \in TaskState \cup {None}
    /\ prev \in TaskState \cup {None}
    /\ active \in Operation \cup {None}
    /\ ended \subseteq Operation
    /\ submits \in Nat
    /\ versions \subseteq Versions /\ drafts \subseteq versions /\ final \subseteq versions
    /\ locks \subseteq Fragment
    /\ inputs \in Requests \cup {None}
    /\ row \in Requests \cup {None}
    /\ req \in [Requests -> Request]

\* A task never gets a second first draft (ARCHITECTURE.md:59), even when a stale
\* archive or restore has put it back before its first draft.
OneFirstDraft == \A v, w \in drafts : v = w

\* At most one version is the current final one, and a finalized task, archived or
\* not, has one to export: finalizations of two versions are serialized.
FinalVersion ==
    /\ \A v, w \in final : v = w
    /\ "finalized" \in {state, from} => final # {}

\* Locked fragments of a version never overlap, and order_index is unique, however
\* many create_lock and delete_lock requests run at the same time.
LocksApart ==
    \A k, l \in locks : k # l =>
      /\ k.order # l.order
      /\ k.version = l.version => k.range.end <= l.range.start \/ l.range.end <= k.range.start

\* The states an active operation may find its task in: its running state, the one
\* its own handler put back when the failure could not be recorded, and those a
\* process late for an operation that has ended puts back.
OwnStates == {RunningState(active.kind)} \cup {o.initial : o \in ended}
             \cup (IF active.phase = "abandoned" THEN {active.initial} ELSE {})

\* A handler that has passed its checks holds the row without an active operation,
\* so no handler's stale state lands under one: apart from late resets, a task with
\* an active operation is in its running state.
ActiveOwnsTask ==
    /\ active # None => state \in OwnStates
    /\ \A r \in Requests : req[r].pc = "locked" => active = None

\* Source text, analysis, suggestions, versions and locks stay as they are while an
\* operation is queued or running (API_CONTRACT.md:84-86).
InputsStable == [][active # None /\ active' # None => UNCHANGED document]_vars

\* ARCHITECTURE.md:54, "archived -> previous state": what restore will put back is
\* the state the task had when it was archived.
RestoresPreviousState == state = "archived" => from = prev

-----------------------------------------------------------------------------
(* The inductive invariant behind the safety properties *)

\* The row lock is held by exactly the request that is past its checks.
RowHeld == \A r \in Requests : req[r].pc = "locked" <=> row = r

\* What a request has loaded existed then, and versions and final flags stay.
Loaded ==
    \A r \in Requests : req[r].pc \in {"loaded", "locked"} =>
      /\ req[r].kind \in {"manual_edit", "create_lock", "finalize"} => req[r].version \in versions
      /\ req[r].kind = "create_lock" => req[r].range \in Ranges
      /\ "finalized" \in {req[r].seen, req[r].seenFrom} => final # {}

\* The checks a request made under the lock still hold when it commits.
Checked ==
    \A r \in Requests : req[r].pc = "locked" =>
      /\ req[r].kind = "restore" => req[r].seenFrom # None
      /\ req[r].kind = "create_lock" =>
           /\ ~Overlaps(req[r].version, req[r].range)
           /\ \A l \in locks : l.order < req[r].order

\* An operation on a finalized task finds its final version when it puts it back.
InitialFinal ==
    \A o \in ended \cup ({active} \ {None}) : o.initial = "finalized" => final # {}

IInv == /\ TypeOK /\ OneFirstDraft /\ FinalVersion /\ LocksApart /\ ActiveOwnsTask
        /\ RowHeld /\ Loaded /\ Checked /\ InitialFinal
=============================================================================
