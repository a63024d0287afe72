# Formal model of the caption rewriting service

This directory holds TLA+ modules that model the service in `src/`, the TLC
configurations that check them on small instances, and TLAPS proofs of the
properties that matter most for every size of the system. `PROJECT.json` maps
every definition to the source lines it stands for.

## 1. The system

A member pastes a script, and the service analyses it, suggests improvements,
writes a first draft and revises it. A *task* (the document) walks through
`draft -> analyzing -> analysis_ready -> suggesting -> suggestions_ready ->
generating -> editing <-> revising -> finalized`, and may be archived. The four
AI steps call a slow, billed provider, so they go through a durable queue.

| Component | State it keeps | Operations | Interacts with |
|---|---|---|---|
| Task state machine `tasks/domain.py` | none (a table of transitions) | `assert_transition`, `validate_lock_constraints` | every writer of `rewrite_tasks.state` |
| AI queue service `tasks/ai_queue.py` | rows of `ai_operations` | `submit`, `retry`, `cancel`, `clear_completed`, `list_owned` | locks the task row, moves the task into its running state |
| AI queue worker `tasks/ai_worker.py`, `main.py` | `jobs`: one asyncio task per member | `run`, `tick`, `execute` | polls `ai_operations`, one worker per API process |
| AI execution `tasks/ai_operations.py`, `ai_service.py` | result rows, the task state | `analyze`, `suggest`, `create_first_draft`, `revise`, `recover_stale_operations` | takes the lease, calls the provider, commits result and state together |
| Member lease `tasks/ai_lock.py` | one Redis key per member, token and TTL | `acquire`, release script | shared by all API processes |
| Suggestion rounds `ai_operations.py`, `ai_queue.py` | analyses and suggestions of a task | `persist` of each kind, the snapshot of `submit` | the page sends what it shows |
| Document handlers `tasks/router.py`, `service.py`, `repository.py` | tasks, versions, locked fragments | update, copy, archive, restore, manual edit, lock, finalize, export | refuse to change a task with an active operation |
| Locked text `ai/validation.py`, `tasks/router.py`, `sentences.ts` | versions and fragments as texts and offsets | the validators of results and edits, the editor's ranges | code points on the server, UTF-16 units in the browser |
| Identity `identity/*` | members, sessions, provider settings | login, member administration, bootstrap | enabled members only; at least one administrator |
| Login rate limiter `identity/rate_limit.py` | counters with an expiry, in Redis or in memory | `check` | before every login |
| Provider adapter `ai/*` | none | one HTTP call under a deadline | outcome of a job |
| API client and queue store `client.ts`, `queue.ts`, `WorkerCenter.vue` | attempts of a request; the list shown, a generation and a revision | `apiRequest`; poll, submit, cancel, retry, clear, start, stop | HTTP API, login and logout |

What is hard here: several API processes poll the same table; a job is a chain
of separate database transactions and Redis commands with anything in between;
a process may be shut down or die at any of them; leases expire; recovery of
stale work competes with live work; requests act on rows they loaded before
somebody else changed them; a browser repeats requests whose first attempt is
still running, and applies answers in the order in which they happen to arrive.

## 2. Modules

| Module | Models | Role |
|---|---|---|
| `TaskDomain` | `domain.py`, `_running_state`, the state plans | constants of the state machine |
| `AiQueue` | `ai_queue.py`, `ai_worker.py`, `ai_operations.py`, `ai_lock.py` | the queue, its workers, the lease, faults and time |
| `BilledCalls` | what `ARCHITECTURE.md` promises of billed calls | the abstract specification that `AiQueue` implements |
| `TaskDocument` | the writing handlers of `router.py`, with `service.py` and `repository.py` | one document, its handlers and its operations racing |
| `AdminGuard` | `identity/services.py`, `repositories.py`, `bootstrap.py` | the members table under concurrent administration |
| `AiSubmit` | `client.ts`, `submit` and `retry` of `ai_queue.py` | one click, its attempts and the operation it becomes |
| `ProviderSettings` | the provider settings of `identity/services.py` | one row, concurrent PUT, PATCH, DELETE and the worker |
| `SuggestionRounds` | the snapshot of `submit`, `suggest` and its `persist`, `update_analysis`, `update_suggestion` | the analyses and suggestions of one document |
| `LockedText` | `validation.py`, `create_manual_edit`, `create_lock`, `sentences.ts` | texts and fragments as sequences of characters |
| `LoginKeys`, `LoginLimiter` | the Redis limiter of `rate_limit.py` | the abstract specification of the login limiter |
| `LocalLimiter` | the in-memory limiter | shown to implement `LoginLimiter` |
| `QueueStore` | `queue.ts`, `WorkerCenter.vue`, the 401 path of `client.ts` and `router/index.ts` | the list a browser shows, against the server's |
| `MC...` | | instances for TLC |
| `...Proofs` | | TLAPS proofs about the module of that name; `IdentityProofs` about `AdminGuard` and `ProviderSettings`, `ContentProofs` about `SuggestionRounds` and `LockedText` |

`ProviderSettings` and `LockedText` prefix their generic names (`SettingsSpec`,
`TextSpec`), because their proofs share a module that extends both components.

`AiQueue`, `TaskDocument`, `SuggestionRounds` and `AiSubmit` look at the same
tables from four sides. `AiQueue` has every step of an operation and no handlers;
`TaskDocument` has every step of a handler and knows an operation by its effects
on the document (`Submit`, `Claim`, `Succeed`, `Fail`, `Abandon`, `LateReset`).
That at most one operation is active is what `OneActivePerTask` shows in `AiQueue`,
and that a running state has an active operation behind it is `NoStrandedTask`. The
converse is false of the code: processes that are late for an operation reset the
task under the next one (section 3). `TaskDocument` has these resets, and its
`ActiveOwnsTask` says what is left. `SuggestionRounds` uses the rest: one operation
at a time, and no handler while it is active.
`AiSubmit` refines the single step of a submission into the attempts of a
browser, and reduces execution to a status that moves on, which `StatusOrder`
shows of `AiQueue`. `QueueStore` does the same from the list's side.

### AiQueue

A step is what one database transaction or one Redis command makes visible.
Variables: `task` is `rewrite_tasks.state`; `op` the `ai_operations` table (with
`ahead`, a history of what was in the member's queue when `created_at` was
stamped, and `age`, the time since `started_at`); `txn` the submission that holds
a task's row lock between its check and its commit; `lease` the Redis keys;
`job` the `jobs` dictionary of each process, with the point `execute` has
reached; `drafted` and `saved` which result rows exist; `proc` and `faults` the
life of the processes.

* Requests: `SubmitLock`/`SubmitCommit`/`SubmitAbort` split `submit` at its
  commit, because `created_at` is stamped before it; `Retry`, `Cancel`,
  `ClearCompleted` are one transaction each.
* Polling: `RecoverRead`/`RecoverWrite` split `recover_stale_operations` between
  its unlocked reads and its commit; `Pick` starts a job for the head of a
  member's queue.
* A job: `PrepareReturn`, `PrepareError`, `RecoverInJob`, `AcquireLease`,
  `LeaseBusy`, `LeaseUnavailable`, `Recheck`, `ClaimError`, `ClaimRefused`,
  `ClaimLost`, `Claim`, `CallSucceeds`, `CallFails`, `CallFailsUnrecorded`,
  `Refresh`, `RefreshFails`, `Release`, `ReleaseLost`, `HandlerRead`, `Handle`,
  `HandleFails`. The handler of `execute` reads its operation before it updates
  (`HandlerRead`, then `Handle`). A Redis command without an answer may have been
  run: the key of a lost `SET NX` stays until it expires (`SetUnanswered`).
* Processes: `Shutdown` and a `CancelledError` at each point of a job
  (`CancelAcquiring`, `CancelUnrecorded` where nothing records it, the claim's
  commit and `_record_failure` among them, `CancelClaimed`, `CancelReleasing`,
  `CancelOutside`), `Stopped`, `Crash`, `Restart`. `TickClock` lets keys expire and
  running operations age.

`BilledCalls` is the promise in two variables: the stage of each operation (new,
waiting for its call, closed to calls) and the calls of each member. It has no
lease, job, table or clock. `AiQueue` maps the status column to the stage and the
jobs that wait for the provider to the calls; a claim is the only step that may be
a `Call`.

Abstractions. Payloads, results and error texts are left out; an operation knows
its task and its kind. Idempotency keys are in `AiSubmit`. The partial
unique index on active operations is left out: `OneActivePerTask` shows that the
row lock and the check under it suffice, so the index never refuses a commit.
A job keeps its lease for at most `CallBound` ticks before its result is
recorded, which `asyncio.timeout` around the provider call and the 60 second
margins of `core/ai_limits.py` justify; only its release may come arbitrarily
late. Requests of a member to a database that is down simply do not happen.

### TaskDocument

Variables: `state`, `from` (`archived_from_state`), `versions` with the subsets
`drafts` and `final`, `locks` and `inputs` (who last wrote the source text,
settings, analysis or suggestions) are the rows of one document; `active` is its
queued or running operation, with the state it started from and whether a worker
has it or has gone without a record (`abandoned`), and `ended` the operations before
it; `row` is the request that holds the row lock; `req`
holds the requests with what they loaded (`seen`, `seenFrom`); `prev` is a
history of the state the task left when it was archived.

Every handler takes three steps, as in the code: `Load` (`_owned_version`,
`_owned_task`: plain reads), `Lock` (`_assert_no_active_ai` and the checks after
it, which answer with an error or go on to hold the row) and `Commit` (what the
handler writes, one operator per handler under `Write`). The lock selects only
the id of the task, so SQLAlchemy keeps the loaded columns: checks on the state
use `seen`, and `Flush` writes a column only when the new value differs from
the loaded one. Reads of other tables after the lock (fragments, first draft,
largest `order_index`) are fresh. The isolation level is PostgreSQL's default,
read committed. Texts are left out; every version has `Length` characters.

An operation puts its task back in two ways. `cancel`, a recovery and the handler
of `execute` look at its state first (`ResetFrom`), `_record_failure` and a recovery
that has read the task before do not. `LateReset` is the same from a process
whose operation has ended: the handler of a failed job (`ai_worker.py:141-148`), a
second recovery (`ai_operations.py:488-490`) and a cancellation recorded after the
success (`626-629`). `Abandon` is a claimed operation nobody records: a crash, or a
failure whose record failed.

### AdminGuard

Variables: `rows`, `admins` and `active` are the members table (an account is its
unique username); `req` the requests with what they loaded; `boot` the bootstrap
commands, `advisory` the holder of their lock, `created` a history of what they
created. A request goes through `Authenticate`, `LoadTarget`, then
`CreateMember`, or `UpdateMember` directly, or `CountAdmins` and `LockAdmins`
first when it would disable an active administrator. The locking query is two
steps because PostgreSQL picks its rows from a snapshot, waits for their locks
and checks each again: an account enabled meanwhile is not counted, one disabled
meanwhile no longer. `Abort` is any error, a deadlock of two locking queries
included. `display_name` and passwords are left out, so is the second of the two
dialects: without PostgreSQL there is no advisory lock.

### AiSubmit

Variables: `client` is where `apiRequest` of each click is, which attempt it is
at and what it told the user; `req` the handler of each attempt; `row` the holder
of the task's row lock; `op` the operations, named by the attempt that created
them; `target` the operation a retry is about; `ran` a history of what was
started. `Click`, `Receive`, `GiveUp` (the 15 second deadline or a lost
connection) and `Resend` are the browser. `RetryRefused`, `Lookup`, `InProgress`,
`Refuse`, `LockRow`, `Commit`, `Conflict` and `Refresh` follow `submit` and
`retry` from transaction to transaction, `Break` is a failure at any of them. A
handler goes on after its attempt was given up; its answer is then lost.

### ProviderSettings

`row` is the member's row, `change` the requests with the row as they loaded it,
`call` the connection the worker last used. A PUT and a PATCH load without a lock
and `Flush` writes the columns that differ from what was loaded. A key is known
by the PUT that encrypted it and the URL it came with. `mixed` is a history: the
PUTs that were committed while the stored URL was not the one they had loaded.

### SuggestionRounds

`analyses` (by sequence number, the issue ids each payload offers), `selected`,
`rows` (the suggestions), `page` (what the page shows, loaded by two separate
requests) and `op` (the active operation with the snapshot it was submitted
with). `Submit` applies a snapshot if it is current, `SuggestionsStored` is
`persist`: it filters keys and titles that repeat an accepted suggestion, takes
as many as fit, deletes what was not accepted. `SuggestionsRefused` is a set that
does not fit, `Fail` every other failure. `IsSuggestionSet` is the shape the parser
of `dto.py` accepts; a draft or a revision meets it again when it reads the stored
suggestions.

### LockedText

Texts are sequences over a small alphabet with a blank and a character of two
UTF-16 units. Versions are created by a first draft, a full or partial revision
and a manual edit, fragments by `create_lock`; the validators
(`MissingFragments`, `OutsideUnchanged`) are translated as they search, with a
cursor that moves past each fragment found, and compared with what they promise.
They are given all fragments of the document, of whatever version (`router.py:729`,
`ai_operations.py:365`), while `create_lock` compares a new fragment with those of
its own version only.
`Seek` is one turn of the validator's loop and `PlaceLock` one of the editor's;
`MissingFragments` and `LocateLocks` fold them over the fragments. `LocateLocks` places
the fragments in UTF-16 units.

### LoginLimiter and LocalLimiter

`LoginLimiter` is the Lua script on three keys and the time to live Redis keeps;
`LocalLimiter` the dictionary with absolute times that is cleaned every
`PruneEvery` checks. Time passes in ticks, `Second` of them in a second, because
a refusal names whole seconds: `Seconds` adds `Rounding` ticks and cuts, half a
second's on Redis, where TTL rounds milliseconds to the nearest second, and those of
0.999 seconds in memory (`rate_limit.py:114`). `Shortfall` is what that leaves out.
The refinement mapping `live` shows a bucket as Redis would
hold it: count and remaining time while the window is open, absent afterwards.
`passed` and `refusal` are histories: what each window let through, and the
windows the last refusal named.

### QueueStore

`status` is the server's table with `endedAt` for the order of `completed_at`;
`items`, `updates`, `actionId`, `generation` and `revision` are the store,
`requests` what is in flight, with the generation and revision each captured. An
answer may be delivered in any order, lost, be an error or a 401. Lists are
functions from operations to statuses; `Merged` is how an accepted row replaces the
one shown. `Login` is the watcher of `WorkerCenter.vue` with `start`, `EndSession`
a logout with `stop`, `Expire` ends a session on the server. Notices, expansion and
the list's order are left out.

A request takes its token from `localStorage` (`stored`), which the tabs of a browser
share: `OtherLogin` and `OtherLogout` change it under this tab, `foreign` is the history of
the members it was of since this tab's login, and `Granted` answers for the member
whose token was sent. `Elsewhere` is everything a member does in another tab or on
another device, a request this tab has given up included.

`Listed` has the active operations and the `RecentLimit` ended last, as `list_owned`
has. Its two queries are one step, because what ends between them is returned as the
first one read it; and the order of `completed_at` is taken as the order of the
commits. A 401 while the route is `/login` is ignored: the component that starts
the store is not shown there, so the store has no owner then.

## 3. Runs

| Run | Instance | Checks |
|---|---|---|
| `workers` | `AiQueue`: 2 processes, 1 member, 2 tasks, 2 operations, one fault of any kind | `OneActivePerTask`, `OneCallPerMember`, `CallOwnsOperation`, `NoStrandedTask`, `SubmissionOrder`, `StatusOrder`, `ImplementsBilledCalls` |
| `liveness` | `AiQueue`: 2 processes, 1 task, 2 operations, one fault of any kind | `EveryOperationFinishes` |
| `handlers` | `TaskDocument`: 2 requests of all 8 handlers, 2 versions, 3 operations with late resets, `draft` or `suggestions_ready` at first | `OneFirstDraft`, `FinalVersion`, `LocksApart`, `ActiveOwnsTask`, `InputsStable` |
| `stale_archive` | `TaskDocument`: 3 archive or restore requests, 1 operation | violates `RestoresPreviousState` |
| `admins` | `AdminGuard`: 3 members, 3 requests, 2 bootstraps, 0 or 2 administrators at first | `AdminRemains`, `FirstAdminOnly`, `AccountsKept` |
| `submit_attempts` | `AiSubmit`: a click and a retry of what it created, 2 attempts each, history may be cleared | `BilledOnce`, `AcceptedIsOwn`, `EveryClickSettles` |
| `provider_requests` | `ProviderSettings`: 4 requests, 2 URLs, 2 models, 2 timeouts | `SettingsTypeOK`, `KeyGoesToItsUrl`, `PatchKeepsConnection` |
| `suggestion_rounds` | `SuggestionRounds`: 2 analyses, 3 rounds, sets of 2 or 3 out of 3 keys and 2 titles | `TypeOK`, `SetComplete`, `SnapshotHolds`, `AcceptedKept` |
| `locked_preserve` | `LockedText`: texts of up to 3 characters, 2 versions, 2 fragments | `TextTypeOK`, `LocksPreserved`, `NoFalseRefusal`, `SelectionOnly`, `ShownInPlace` |
| `login_attempts` | `LocalLimiter`: 1 address, 3 spellings of 2 accounts, windows of 2 seconds of 2 ticks, 9 ticks, limits 2, 3, 3 | `ImplementsRedis`, `WindowLimit`, `RetryAfterSuffices` |
| `queue_logins` | `QueueStore`: 2 members, 2 logins in either tab, 1 operation, 2 changes in flight beside the polls | `TypeOK`, `OwnItems`, `ButtonHasRequest`, `ActiveStaysShown` |
| `queue_settles` | `QueueStore`: 1 login, 2 operations and their retries, a list with 1 ended operation | `CompletionRecorded`, `ListSettles` |

Bounds. Two processes and two operations are the smallest instance in which a
lease is contended, a recovery races another recovery and a retry races the end
of the operation it retries. `CallBound < LeaseTTL < StaleAfter` are 1, 2 and 3:
only their order matters. One fault suffices to orphan a lease or an operation.
`workers` starts both documents in `draft`, where an analysis is submitted, fails
and is submitted again; `liveness` starts in `editing`, where every operation ends
where it began and the next one can always follow. The other kinds take the same
steps with other states; the proofs cover them all.
`Ops` is finite, so a behaviour may run out of ids: the runs do not check
deadlock. Symmetry over operations and processes is used for safety only.

In `TaskDocument` two requests race with each other and with what the late resets
have left; three operations are a first draft that is reset late under a second
one, and a revision; with `Length` 2 there are three ranges, two
disjoint and one that overlaps both. Each request runs once, so a behaviour
ends: deadlock is not checked, nor in `AdminGuard`, `ProviderSettings` and
`AiSubmit`, for the same reason. In `AdminGuard` two administrators that disable
each other need two requests; the third creates or enables another in between.

In `AiSubmit` two attempts suffice for one to be overtaken by the next, and the
retry needs the operation of the click. Sharing a key between two different
requests is covered by the proofs. In `SuggestionRounds` sets of 2 to 3 stand for
5 to 8: a set can be too small, exact and full, and 2 titles for 3 keys let an
answer repeat an accepted title under a new key. In `LockedText` three characters hold
two adjacent or two overlapping fragments with a blank at an edge, in one version or
in both. The limiter's time runs over two windows and a third begins; with two ticks
in a second half a second is the smallest rounding, and one tick of `Rounding`
rounds up (the proofs have any). In `QueueStore` the second member owns nothing, so
that every row it is shown is the other's; `MaxLogins` counts the logins of both tabs,
requests in flight are bounded by `MaxChanges`, polls by the store itself, tokens that
expire by `MaxExpired`. A list that keeps one ended operation loses the first of two
that end between polls, as 30 lose the first of 31.

Fairness. `AiQueue!Fairness`: transactions end, each worker polls every second
and its event loop runs its jobs, systemd restarts a process that stopped
(`Restart=` in `src/deploy/systemd`), and time passes. Weak fairness is enough.
Nothing is assumed of members, and faults are finite in number (`MaxFaults`).
`AiSubmit!Fairness`: the browser's timers go off; nothing is assumed of the
server or the network. `QueueStore!FairSpec`: the timer starts the next poll, and
of polls that are sent again and again some are served and answered (strong
fairness, since any single one may be lost).

### Where the code and its documents disagree

`stale_archive` is checked: archive loads the task in `analyzing`, the operation
ends, archive gets the row and archives the task with `analyzing` as its previous
state. Restoring it leaves a document that looks busy, has no operation and that
`submit` refuses. `ARCHITECTURE.md:54` says "archived -> previous state". The
cause is that `_assert_no_active_ai` locks the row without refreshing the task,
which `submit` does (`ai_queue.py:58`).

The models have more behaviours of this kind. They are not stated as properties;
where one touches a property, the property names it as its exception.

* The same cause: a manual edit, lock or finalization that loaded the task before
  it was archived goes on, although `router.py:726` says "An archived task cannot
  be edited".
* `ai_worker.py:141`: the exception handler of `execute` runs after the lease is
  released and resets any task in the operation's running state, also when that
  state is by now the retry's; `ai_worker.py:129` says "Execution records its own
  failures". The retry then fails at its claim with `invalid_task_state`. It does not
  hang (`EveryOperationFinishes`), and no task stays busy without an operation
  (`NoStrandedTask`); that an operation may be active while its task is not in its
  running state is what `ActiveOwnsTask` excepts, for this and the next two resets.
* `ai_operations.py:626`: a shutdown that arrives between the commit of a success
  and the refresh after it records the operation as cancelled and puts the task
  back, although its result is stored; `ARCHITECTURE.md:75` speaks of
  "interrupted running work". `StatusOrder` has this one exception (`LateCancel`).
  The reset looks neither at the state nor for a newer operation.
* `ai_operations.py:488`: of two processes that recover the same crashed operation
  the slower one commits what it read; when the member has had a first draft
  written in between, the task goes back before it while the version stays. A second
  first draft is accepted then and refused at its end (`OneFirstDraft`).
* `ai_queue.py:59`: the idempotency key is looked up before the row lock only. A
  repeated attempt that passed the lookup before the first one committed is told
  `ai_operation_in_progress`, which is its own operation;
  `tests/tasks/test_ai_queue.py:178` expects `duplicate.id == operation.id`.
  It is never billed twice (`BilledOnce`).
* `services.py:133`: two PUTs of provider settings that load the same row mix: the
  key of one stays with the URL of the other, and the worker sends it there.
  `API_CONTRACT.md:27` says "replace". `KeyGoesToItsUrl` excepts the PUTs that were
  committed over a URL they had not loaded (`mixed`), and those only: it says nothing
  of this mixture, but that no PATCH, failed request or PUT after another one adds to it.
* `router.py:448`: correcting an analysis leaves suggestions that refer to issues it
  no longer has; `API_CONTRACT.md:129` says a suggestion "references an analysis
  issue". A draft from them is refused.
* `schemas.py:286`: a manual edit is stripped before it is compared with fragments
  cut from unstripped versions, so with a fragment that has a blank at the edge
  of its text even an unchanged edit is refused; `API_CONTRACT.md:134` names only
  edits "that change locked text".
* `router.py:729`: the validators are given the fragments of all versions, while a new
  fragment is compared with those of its own version (`router.py:806`). A sentence
  locked in two versions has to be there twice, so a text that leaves it alone is
  refused, by an edit and by a revision (`ai_operations.py:365`), against the same line of
  the contract. `NoFalseRefusal` counts fragments as the code does.
* `queue.ts:95`: clearing the history deletes on the server an operation that has
  just ended and is still shown running; it disappears without its completion
  recorded, and the workbench does not load its result. `WorkerCenter.vue:55`
  tells the user that running tasks are kept. `CompletionRecorded` excepts it.
* `ai_queue.py:217`: the list has the 30 operations that ended last. One that is shown
  running and has 30 others end after it before the next poll is applied disappears in
  the same way (`Outlived` in `CompletionRecorded`); `ActiveStaysShown` is not concerned.
* `client.ts:30`: a request reads its token from `localStorage` when it is sent, and tabs
  share it (`client.ts:57`). After another tab has logged in another member, the polls of
  this one fetch that member's list and show it under the name of the first.
  `OwnItems` allows rows of those members only (`foreign`), and only from then on;
  `ARCHITECTURE.md:83-84` is about one tab.
* `rate_limit.py:35`: Redis rounds the time to live to the nearest second, so a client
  that waits for `Retry-After` may come up to half a second early and be refused again;
  in memory (`:114`) it is less than a millisecond. `RetryAfterSuffices` allows no more
  than this `Shortfall`.
* `router/index.ts:39`: a late 401 to a request of an earlier login ends the new
  session; `ARCHITECTURE.md:83-84` says such responses are ignored.

## 4. Proofs

`AiQueueProofs` proves, for any sets of members, tasks, operations and
processes, any number of faults and any ordered deadlines: `TypeOK`,
`OneActivePerTask`, `NoStrandedTask`, `CallHoldsLease` (the lease outlives the
call), `OneCallPerMember`, `CallOwnsOperation`, `SubmissionOrder`, the action
properties `NeverRunTwice` and `StatusOrder`, and the refinement
`ImplementsBilledCalls`. Assumptions: `TimingAssumption` (the order of the
windows of `ai_limits.py`) and `ConstantsAssumption` (each task has one owner,
instances start in stable states).

The inductive invariant `IInv` adds to those properties:

* `RowLocks`: an open submission owns its row and its task has no active
  operation, which is what makes the check of `submit` still true at its commit;
* `JobsHaveOperations`: a job works on a committed operation of its member;
* `LeaseCovers`: a job between `acquire` and its result holds the lease with at
  least `LeaseTTL - CallBound` left;
* `Claims`: the age of a call plus what is left of its lease is at most
  `LeaseTTL`, so a call is never stale; a recovery targets an operation that is
  stale or already past;
* `Ahead`: everything ahead of an operation has an earlier stamp and is past
  before the operation is picked.

Without `Claims`, a recovery could be thought to hit a live call; without
`RowLocks`, a second submission could commit under the first. The proof first
classifies what any step can do to the two tables (`TableStep`: insert, commit,
settle a row, claim, clear, age), then what it can do to a job and a lease
(`StepMovesJob`, `StepLease`), and derives each conjunct from those.

`StatusOrder` needs one fact more, `Recorded` (`WritesExpected`): a job between its
commit and its end finds its success or a cleared row, a recovery that has read a
stale row finds it still stale, failed by another recovery, or cleared. Then
`StatusStep` shows that every step makes one of the allowed changes, and that only
`CancelClaimed` after a commit writes over a success.

The refinement (`QueueImplementsBilledCalls`) splits the steps in four: a claim is a
`Call` (the claiming job holds the lease, so by `LeaseCovers` no process has a call
for this member); a step of a job in a call is a `Return` and closes no stage, since
by `Claims` the operation was running; a crash is a `Lose`; every other step leaves
the calls alone and, by `TableStep`, lets at most one operation enter or drop.

`TaskDocumentProofs` proves, for any sets of requests and versions, any number of
operations and any length, `TypeOK`, `OneFirstDraft`, `FinalVersion`, `LocksApart`,
`ActiveOwnsTask` and the action property `InputsStable`, from `DocumentAssumption`
(instances start before any version exists, `None` is no id). So neither the stale state
of `stale_archive` nor a late reset reaches the rows. `ActiveOwnsTask` has two halves:
no handler is past its checks under an active operation, and the state of its task is
its running state or one that a worker's reset put there (`OwnStates`: the reset of its
own abandoned claim or of an operation that has ended), never one that a handler wrote.
The inductive invariant adds `RowHeld` (the row lock belongs to the one request past its
checks), `Loaded` (versions a request has loaded still exist; if it has seen a finalized
task, the document has a final version), `Checked` (what was checked under the lock
still holds), `InitialFinal` (a failing revision returns a finalized task to a document
with a final version) and `Bounded` (order indexes have an upper bound, so
`max(order_index)` exists for any set of fragments).

`IdentityProofs` proves of `AdminGuard` `TypeOK`, `AdminRemains`, `FirstAdminOnly` and
`AccountsKept` for any finite set of members and any requests and bootstraps
(`AdminAssumption`). The argument: the rows a request holds are active
administrators and stay so (`HeldActive`), no two requests hold the same row
(`HeldApart`) and a request holds more than one, so one is left whatever it
disables, even if its target is no longer among them; a request that skips the
count has seen an ordinary member, and roles never change (`Uncounted`). While a
bootstrap is between its checks and its insert there is no administrator, hence
no request that could create one (`Bootstrapping`, `HasActor`).

Of `ProviderSettings` it proves `SettingsTypeOK`, `KeyGoesToItsUrl` and
`PatchKeepsConnection` for any requests, URLs, models and timeouts. The inductive
invariant adds `LoadedRequest` (a request that has loaded carries what its kind carries,
has no answer yet and did not load its own key), `StoredKey` (the stored key is that of
a PUT that has ended, so no open request can write it again) and `Matched` (the key of
the row and of the connection in use came with its URL, or is of a PUT that met another
URL than it had loaded). A PUT that meets the URL it loaded leaves both columns as it
sent them: either it changes the URL, or the stored one is its own. `SettingAssumption`
says that `NoConnection` is no row.

`AiSubmitProofs` proves `TypeOK`, `OneOperationPerKey` (a key never has two
operations in the table), `BilledOnce` and `AcceptedIsOwn` for any clicks, keys,
bodies and number of attempts (`ClickAssumption`, `NoneAssumption`). The
inductive invariant adds `RowHeld`, `Unsent` (attempts are sent one after the
other), `Created` (an operation appears with the commit of its own attempt and
carries that attempt's body), `Answers` (an answer on its way already satisfies
what `AcceptedIsOwn` says of it) and `Started` (only stored operations ran).

`ContentProofs` proves of `SuggestionRounds` `TypeOK`, `SetComplete`, `SnapshotHolds`
and `AcceptedKept` for any keys, titles and issues, any sizes of a set, any answers of
the provider and any number of rounds. The inductive invariant adds `Numbered` (no two
suggestions share an id, and ids come from rounds that are over, so that an update of
decisions keeps the size of a set) and `Supplied`: at most one analysis is selected, and
it has suggestions whenever the task is in a state that is reached only once suggestions
were stored (`Suggested`), or returns to one if its operation fails; a first draft and a
revision start from such a state. The size of a new round is a cardinality argument: the
kept and the new suggestions are disjoint, new rows are in one-to-one correspondence
with the answers taken, and as many are taken as the capacity leaves room for.

Of `LockedText` it proves `TextTypeOK`, `SelectionOnly`, `LocksPreserved`,
`NoFalseRefusal` and `ShownInPlace`, for any alphabet, texts of any length and any
number of versions and fragments (`TextAssumption`).

* `SelectionOnly`: `OnlySelectionReplaced` is the core. `startswith` and `endswith`,
  read character by character, and the length check before them determine the text
  outside the selection. `ParentsEarlier` is the strengthening: a revision's parent is
  an earlier version, which no step changes.
* `LocksPreserved` is inductive together with `Cut` (a fragment is what its version has
  between its offsets, and not empty) and `Apart` (order indexes differ, ranges of one
  version do not overlap): `FragmentInv`, which TLC accepts on the instance of
  `locked_preserve`. The core is `NothingMissingOccurs`: along the search the places
  found for a text are disjoint and lie before its cursor (`Reserved`), one for each
  fragment with that text. Deleting a fragment asks less of every version
  (`OccursLess`), a new one asks nothing of those that exist.
* `NoFalseRefusal`, of any text that has each locked text as often as it is locked,
  whichever versions the fragments are of, follows from `FragmentInv` by counting
  (`NoneMissing`): when the k-th fragment of a text is looked for, at most k - 1
  fragments of that text start before the cursor, so another one starts behind it, and
  `find` stops there at the latest. It may stop earlier, on a place nobody locked, and
  skips at most one fragment by that (`OneStartsWithin`).
* `ShownInPlace` follows from `FragmentInv` as well (`PlacesKept`): while fragments of
  the shown version are placed, the ranges taken are the own ranges of others
  (`OwnRanges`), which leave the next one free; later fragments only get free places.
  `UnitsOfSlice` says that the units of a text between the offsets of a slice are the
  units of the slice, so the comparison of `sentences.ts:15` always succeeds.

These three speak of loops over any number of fragments. The library's induction
theorems cannot be instantiated here, so `Induction` states the principle for a set of
numbers instead of a predicate and is proved from the well-foundedness of the naturals.
`Folding` and `Flattened` derive from it that the functions behind `FoldLeft` and
`FlattenSeq` exist; `Searching`, `Placing` and `UnitsJoin` unfold them turn by turn.

`QueueStoreProofs` proves `TypeOK`, `OwnItems`, `ButtonHasRequest` and the action
properties `ActiveStaysShown` and `CompletionRecorded` for any members and tasks, any
finite set of operations, any limit of the list and any number of logins, of either
tab, and of requests in flight, from `QueueStoreAssumption`.
The inductive invariant relates what is in flight to the store and to the server:
an answer is about its sender's own operations (`WellFormed`) and, if the request is of
the current login, its sender is the one logged in or one whose token another tab has
stored (`OfLogin`, which needs `TokenKnown` of the stored token); the list and every answer
show only rows the server has had, none ended before its time (`Behind`); only what has
ended has a place in the order of ends (`Stamped`); an operation
is not there before its request is served (`Unserved`), and no two requests create the
same one (`Distinct`); an answered poll that still applies has every row of its sender
that is shown, not deleted and not outlived (`Complete`). That a row which is outlived stays
so is the argument behind the last: the server's steps only move statuses forward and
append to the order of ends, or clear the whole history of a member (`Moves`).

`LoginLimiterProofs` proves of the Redis limiter `TypeOK`, `WindowLimit` and
`RetryAfterSuffices` for any addresses, names, limits and window, any number of ticks
in a second and any rounding (`LimitAssumption`): `SecondsCover` says that a number of
seconds falls short by less than `Second - Rounding` ticks, and `RetryAfterCovers` that the
longest window named does. The inductive invariant adds `Charged` (a window has counted
what it let through) and `RefusalOpen`. `LocalLimiterProofs` proves that the
in-memory limiter implements it (`LocalImplementsRedis`) however often it cleans
up: initial states map to initial states, a `Check` to a `Check`, a tick to a tick.
 `AfterIsScript` and `PrunedShown` are the core: cleaning and restarting
an ended window look, through `live`, like the script.

Because `WindowLimit` and `RetryAfterSuffices` only speak of what the mapping shows,
`LocalLimitKept` and `LocalRetryAfterHonest` follow for the in-memory limiter by
instantiating `LoginLimiterProofs` with `live`.

Only model-checked, and why:

* liveness (`EveryOperationFinishes`, `EveryClickSettles`, `ListSettles`): fairness and
  `ENABLED` are out of the prover's reach;
* `RestoresPreviousState`, which does not hold (`stale_archive`).

## 5. Plan

Done: the core (`AiQueue`, `TaskDocument`, `AdminGuard`), submissions and
retries (`AiSubmit`), provider settings, suggestion rounds, locked text, the login
limiter with its refinement, the browser's queue store, billed calls as an abstract
specification; a theorem for every invariant, action property and refinement that a
run shows to hold.

Left:

1. An abstract document that `AiQueue` implements. `TaskDocument`'s own `Submit`,
   `Succeed`, `Fail`, `Abandon` and `LateReset` name every effect of an operation on the
   document, but as one list beside the handlers: the part without handlers has to
   become a module that both `AiQueue` implements and `TaskDocument` uses.
2. The task list and workbench stores of the frontend, copy and export.

## 6. Not modelled

Prompt texts, JSON schemas, encryption, URL policy, telemetry, migrations and
page layout: they carry no state a property here could tell apart. The in-memory
lease is the development fallback for one process and behaves like the Redis
lease without expiry. The connection test of provider settings changes nothing.
Sessions are modelled only as far as the queue store sees them. Other tabs have stores
of their own but share the token of this one; only the token is modelled
(`OtherLogin`, `OtherLogout`). A reload of the page, which starts with an empty store, is
not modelled.
