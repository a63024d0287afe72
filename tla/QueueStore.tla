----------------------------- MODULE QueueStore -----------------------------
(***************************************************************************)
(* The browser's queue of AI operations: the Pinia store of                *)
(* frontend/src/shared/stores/queue.ts, started and stopped by             *)
(* WorkerCenter.vue with the session (session.ts), against the operations  *)
(* the server keeps.                                                       *)
(*                                                                         *)
(* A request is sent, served and answered in three steps: JavaScript runs  *)
(* other handlers while it is in flight, answers arrive in any order or    *)
(* not at all, and an answer may arrive after the member has logged out    *)
(* and another has logged in.  The store defends itself with two counters  *)
(* a request captures when it is sent: generation (which login) and        *)
(* revision (how many answers were accepted).                              *)
(*                                                                         *)
(* The counters are the tab's; the token is the browser's: client.ts reads *)
(* it from localStorage when a request is sent, so a login or logout in    *)
(* another tab changes whom the requests of this one are served for.       *)
(*                                                                         *)
(* Abstracted: the order of the rows, error texts, the notice and the      *)
(* panel (display only); `updates' keeps the set of tasks with a recorded  *)
(* completion, not the row.  A submission's own retries are AiSubmit's:    *)
(* here the whole submission is one request.                               *)
(***************************************************************************)
EXTENDS Naturals, FiniteSets

CONSTANTS
    Members, Tasks,
    Ops,          \* operation identifiers, submitted or not yet
    TaskOf,       \* the task an operation is for
    OwnerOf,      \* the member who owns that task
    RecentLimit,  \* 30: the ended operations GET /operations lists
    MaxLogins,    \* bound: logins of this browser
    MaxExpired,   \* bound: tokens that expire
    MaxChanges,   \* bound: requests in flight beside the poll of the login
    None

ASSUME QueueStoreAssumption ==
    /\ TaskOf \in [Ops -> Tasks]
    /\ OwnerOf \in [Tasks -> Members]
    /\ MaxLogins \in Nat \ {0} /\ MaxExpired \in Nat /\ MaxChanges \in Nat \ {0}
    /\ None \notin Members \cup Ops
    /\ IsFiniteSet(Ops) /\ RecentLimit \in Nat \ {0}

VARIABLES
    status,      \* the server's operations: "none" before, "deleted" after
    endedAt,     \* completed_at: the place in the order of ends, 0 before
    expired,     \* logins whose token the server no longer accepts
    logins,      \* number of the latest login, of this tab or another
    stored,      \* dc_token in localStorage: the login it is of, and its member
    owner,       \* the store's owner, the session's member
    foreign,     \* history: other members whose token was stored since the login
    generation, revision,
    items,       \* the rows shown: a function from operations to statuses
    updates,     \* the tasks with a recorded completion
    actionId,    \* the operation, or "history", whose button was pressed
    requests     \* the requests in flight

serverVars == <<status, endedAt, expired>>
sessionVars == <<logins, stored, owner, foreign>>
listVars == <<generation, revision, items, updates>>
vars == <<serverVars, sessionVars, listVars, actionId, requests>>

\* localStorage after a logout.
NoToken == [login |-> 0, member |-> None]

Active == {"queued", "running"}
Ended == {"succeeded", "failed", "cancelled"}
Statuses == Active \cup Ended

OwnerOfOp(o) == OwnerOf[TaskOf[o]]

EmptyList == [o \in {} |-> "none"]
OneRow(op, s) == [o \in {op} |-> s]

\* The rows of `list', replaced or extended by `rows'.
Merged(rows, list) ==
    [o \in DOMAIN rows \cup DOMAIN list |->
        IF o \in DOMAIN rows THEN rows[o] ELSE list[o]]

\* Slip: a cleared operation is listed still.
ListedDeleted(m) ==
    LET rows == {o \in Ops : OwnerOfOp(o) = m /\ status[o] # "none"}
    IN  [o \in rows |-> status[o]]

\* The member's operations that ended later.
EndedAfter(o) == {p \in Ops : OwnerOfOp(p) = OwnerOfOp(o) /\ endedAt[p] > endedAt[o]}

\* .order_by(completed_at.desc()).limit(30): the ones that are not deleted count.
Recent(o) ==
    Cardinality({p \in EndedAfter(o) : status[p] \in Ended}) < RecentLimit

\* list_owned: what GET /operations answers.  Its two queries are one step: an
\* operation that ends between them is listed as the first one read it.
Listed(m) ==
    LET rows == {o \in Ops : /\ OwnerOfOp(o) = m
                            /\ status[o] \in IF Recent(o) THEN Statuses ELSE Active}
    IN  [o \in rows |-> status[o]]

\* A request: `target' is the operation a control acts on, `op' the one a
\* submission or a retry will create, `login' and `member' whose token it took
\* from localStorage, `run' and `version' what it captured (only refresh captures
\* the revision).  `rows' is the answer's list: the member's operations for a
\* poll, one row for the others.
Kinds == {"poll", "submit", "cancel", "retry", "clear"}
Lists == UNION {[D -> Statuses] : D \in SUBSET Ops}

Request(kind, target, op) ==
    [kind |-> kind, target |-> target, op |-> op, login |-> stored.login,
     member |-> stored.member, run |-> generation,
     version |-> IF kind = "poll" THEN revision ELSE 0,
     answer |-> "waiting", rows |-> EmptyList]

\* Every variable keeps its type; no answer carries a row that was deleted, and
\* no request knows a generation or revision of the future.
TypeOK ==
    /\ status \in [Ops -> Statuses \cup {"none", "deleted"}]
    /\ endedAt \in [Ops -> Nat]
    /\ expired \subseteq 1 .. MaxLogins
    /\ logins \in 0 .. MaxLogins
    /\ stored \in [login : 0 .. logins, member : Members \cup {None}]
    /\ owner \in Members \cup {None} /\ foreign \subseteq Members
    /\ generation \in Nat /\ revision \in Nat
    /\ items \in Lists
    /\ updates \subseteq Tasks
    /\ actionId \in Ops \cup {"history", None}
    /\ \A q \in requests :
          /\ q.kind \in Kinds
          /\ q.target \in Ops \cup {None} /\ q.op \in Ops \cup {None}
          /\ q.login \in 0 .. logins /\ q.member \in Members \cup {None}
          /\ q.run <= generation /\ q.version <= revision
          /\ q.answer \in {"waiting", "ok", "error", "unauthorized"}
          /\ q.rows \in Lists

-----------------------------------------------------------------------------
(* The store's own steps. *)

\* Slip: the pressed button survives a logout.
StopKeepsAction ==
    /\ generation' = generation + 1
    /\ revision' = revision + 1
    /\ items' = EmptyList
    /\ updates' = {}
    /\ UNCHANGED actionId

\* Nothing of an earlier login survives: stop().
Stop ==
    /\ generation' = generation + 1
    /\ revision' = revision + 1
    /\ items' = EmptyList
    /\ updates' = {}
    /\ actionId' = None

\* Slip: an operation that ran and ended between two polls is missed.
CompletedRuns(rows) ==
    {o \in DOMAIN items \cap DOMAIN rows :
        items[o] = "running" /\ rows[o] \notin Active}

\* Rows shown active that `rows' gives as ended.
Completed(rows) ==
    {o \in DOMAIN items \cap DOMAIN rows :
        items[o] \in Active /\ rows[o] \notin Active}

Record(rows) == updates' = updates \cup {TaskOf[o] : o \in Completed(rows)}

\* accept(item): the answer of a submission or of a control.
Accept(rows) ==
    /\ Record(rows)
    /\ items' = Merged(rows, items)
    /\ revision' = revision + 1

\* Slip: the generation is not compared.
AlwaysCurrent(q) == TRUE

\* The request belongs to the login that is still there.
Current(q) == q.run = generation

\* Slip: the revision is not compared.
SameLogin(q) == q.run = generation

\* refresh: and nothing was accepted since it was sent.
Applies(q) == q.run = generation /\ q.version = revision

-----------------------------------------------------------------------------
(* Requests sent. *)

\* Slip: the revision is captured once, when the first login starts (then it
\* equals the generation).
PollRequestOfStart == [Request("poll", None, None) EXCEPT !.version = generation]

\* poll(run): the first refresh of a login, and the ones the timer starts
\* after the previous has ended.
PollRequest == Request("poll", None, None)

Poll ==
    /\ owner # None
    /\ \A q \in requests : ~(q.kind = "poll" /\ q.run = generation)
    /\ requests' = requests \cup {PollRequest}
    /\ UNCHANGED <<serverVars, sessionVars, listVars, actionId>>

ShownActive(t) ==
    \E o \in DOMAIN items : TaskOf[o] = t /\ items[o] \in Active

\* An operation no request has been given.
Fresh(o) == status[o] = "none" /\ \A q \in requests : q.op # o

Room ==
    Cardinality({q \in requests : ~(q.kind = "poll" /\ Current(q))}) < MaxChanges

\* submit(request), called by the workbench unless the task is busy.  The page may
\* show a task of the member whose token another tab has stored.
Submit(o) ==
    /\ owner # None /\ OwnerOfOp(o) \in {owner} \cup foreign /\ Fresh(o) /\ Room
    /\ ~ShownActive(TaskOf[o])
    /\ requests' = requests \cup {Request("submit", None, o)}
    /\ UNCHANGED <<serverVars, sessionVars, listVars, actionId>>

\* control(item, 'cancel') and control(item, 'retry'): one button at a time.
Control(kind, o, new) ==
    /\ owner # None /\ actionId = None /\ Room
    /\ actionId' = o
    /\ requests' = requests \cup {Request(kind, o, new)}
    /\ UNCHANGED <<serverVars, sessionVars, listVars>>

Cancel(o) ==
    /\ o \in DOMAIN items /\ items[o] = "queued"
    /\ Control("cancel", o, None)

Retry(o, new) ==
    /\ o \in DOMAIN items /\ items[o] \in {"failed", "cancelled"}
    /\ ~ShownActive(TaskOf[o])
    /\ TaskOf[new] = TaskOf[o] /\ Fresh(new)
    /\ Control("retry", o, new)

\* clearHistory().
Clear ==
    /\ owner # None /\ actionId = None /\ Room
    /\ \E o \in DOMAIN items : items[o] \in Ended
    /\ actionId' = "history"
    /\ requests' = requests \cup {Request("clear", None, None)}
    /\ UNCHANGED <<serverVars, sessionVars, listVars>>

-----------------------------------------------------------------------------
(* The server. *)

Answered(q, answer, rows) ==
    requests' = (requests \ {q}) \cup {[q EXCEPT !.answer = answer, !.rows = rows]}

TaskBusy(t) == \E o \in Ops : TaskOf[o] = t /\ status[o] \in Active

\* The server knows the token; a request without one is refused.
Accepted(q) == q.login # 0 /\ q.login \notin expired

\* What a control or a submission needs to find; 404 if it is another member's.
Granted(q) ==
    \/ /\ q.kind = "submit" /\ OwnerOfOp(q.op) = q.member
       /\ ~TaskBusy(TaskOf[q.op])
    \/ /\ q.kind = "cancel" /\ OwnerOfOp(q.target) = q.member
       /\ status[q.target] = "queued"
    \/ /\ q.kind = "retry" /\ OwnerOfOp(q.target) = q.member
       /\ status[q.target] \in {"failed", "cancelled"}
       /\ ~TaskBusy(TaskOf[q.target])
    \/ q.kind \in {"poll", "clear"}

\* The row the request leaves, and answers with.
Changed(q) ==
    CASE q.kind \in {"submit", "retry"} -> OneRow(q.op, "queued")
      [] q.kind = "cancel" -> OneRow(q.target, "cancelled")
      [] OTHER -> EmptyList

Cleared(m) ==
    [o \in Ops |-> IF OwnerOfOp(o) = m /\ status[o] \in Ended THEN "deleted"
                   ELSE status[o]]

Served(q) ==
    IF q.kind = "clear" THEN Cleared(q.member) ELSE Merged(Changed(q), status)

\* The table becomes `next'; what ends is stamped.
Becomes(next) ==
    /\ status' = next
    /\ endedAt' = [o \in Ops |->
          IF status[o] \in Active /\ next[o] \in Ended
          THEN 1 + Cardinality({p \in Ops : endedAt[p] > 0}) ELSE endedAt[o]]

\* What the member does in another tab or on another device: submit or retry, cancel,
\* clear.  A request this tab has given up and that is served all the same is one too.
Elsewhere ==
    /\ \/ \E o \in Ops : /\ Fresh(o) /\ ~TaskBusy(TaskOf[o])
                       /\ Becomes([status EXCEPT ![o] = "queued"])
       \/ \E o \in Ops : /\ status[o] = "queued"
                       /\ Becomes([status EXCEPT ![o] = "cancelled"])
       \/ \E m \in Members : Becomes(Cleared(m))
    /\ UNCHANGED <<expired, sessionVars, listVars, actionId, requests>>

Serve(q) ==
    /\ q \in requests /\ q.answer = "waiting"
    /\ \/ /\ ~Accepted(q)
          /\ Answered(q, "unauthorized", EmptyList)
          /\ UNCHANGED <<status, endedAt>>
       \/ /\ Accepted(q) /\ ~Granted(q)
          /\ Answered(q, "error", EmptyList)
          /\ UNCHANGED <<status, endedAt>>
       \/ /\ Accepted(q) /\ Granted(q)
          /\ Becomes(Served(q))
          /\ Answered(q, "ok", IF q.kind = "poll" THEN Listed(q.member)
                                                  ELSE Changed(q))
    /\ UNCHANGED <<expired, sessionVars, listVars, actionId>>

\* The worker runs and ends operations (AiQueue).
Start(o) ==
    /\ status[o] = "queued"
    /\ Becomes([status EXCEPT ![o] = "running"])
    /\ UNCHANGED <<expired, sessionVars, listVars, actionId, requests>>

Finish(o) ==
    /\ status[o] = "running"
    /\ \E s \in {"succeeded", "failed"} : Becomes([status EXCEPT ![o] = s])
    /\ UNCHANGED <<expired, sessionVars, listVars, actionId, requests>>

\* A token reaches its end, or the member is disabled.
Expire(n) ==
    /\ n \in 1 .. logins /\ n \notin expired /\ Cardinality(expired) < MaxExpired
    /\ expired' = expired \cup {n}
    /\ UNCHANGED <<status, endedAt, sessionVars, listVars, actionId, requests>>

-----------------------------------------------------------------------------
(* Answers delivered. *)

\* The buttons are released when the request that took them ends.
Release(q) ==
    actionId' = IF q.kind \in {"cancel", "retry", "clear"} /\ Current(q)
                THEN None ELSE actionId

DeliverPoll(q) ==
    /\ q \in requests /\ q.kind = "poll" /\ q.answer = "ok"
    /\ requests' = requests \ {q}
    /\ IF Applies(q)
       THEN Record(q.rows) /\ items' = q.rows
       ELSE UNCHANGED <<items, updates>>
    /\ UNCHANGED <<serverVars, sessionVars, generation, revision, actionId>>

DeliverRow(q) ==
    /\ q \in requests /\ q.kind \in {"submit", "cancel", "retry"}
    /\ q.answer = "ok"
    /\ requests' = requests \ {q}
    /\ IF Current(q) THEN Accept(q.rows)
                     ELSE UNCHANGED <<revision, items, updates>>
    /\ Release(q)
    /\ UNCHANGED <<serverVars, sessionVars, generation>>

DeliverCleared(q) ==
    /\ q \in requests /\ q.kind = "clear" /\ q.answer = "ok"
    /\ requests' = requests \ {q}
    /\ LET gone == {o \in DOMAIN items : items[o] \notin Active}
       IN  IF Current(q)
           THEN /\ items' = [o \in DOMAIN items \ gone |-> items[o]]
                /\ updates' = updates \ {TaskOf[o] : o \in gone}
           ELSE UNCHANGED <<items, updates>>
    /\ Release(q)
    /\ UNCHANGED <<serverVars, sessionVars, generation, revision>>

\* A refusal, a timeout, or an answer that is lost: only `error' is set.  A change
\* that was not served in time may still reach the server (Elsewhere).
DeliverError(q) ==
    /\ q \in requests /\ q.answer \in {"waiting", "ok", "error"}
    /\ requests' = requests \ {q}
    /\ Release(q)
    /\ UNCHANGED <<serverVars, sessionVars, listVars>>

\* session.logout: the token leaves localStorage, whichever tab stored it.
EndSession ==
    /\ owner' = None /\ stored' = NoToken /\ foreign' = {}
    /\ Stop
    /\ UNCHANGED logins

\* 401: the router's handler ends the session, whatever login the request was of.
\* It ignores the event while the route is /login.  WorkerCenter.vue, whose mount is
\* Login, is not shown on that page: there the store has no owner.
DeliverUnauthorized(q) ==
    /\ q \in requests /\ q.answer = "unauthorized"
    /\ requests' = requests \ {q}
    /\ IF owner # None THEN EndSession
                       ELSE UNCHANGED <<sessionVars, listVars, actionId>>
    /\ UNCHANGED serverVars

-----------------------------------------------------------------------------
(* The session. *)

Logout ==
    /\ owner # None
    /\ EndSession
    /\ UNCHANGED <<serverVars, requests>>

\* The watcher of WorkerCenter.vue calls start(id): stop(), then poll(run).
Login(m) ==
    /\ owner = None /\ logins < MaxLogins
    /\ logins' = logins + 1
    /\ stored' = [login |-> logins + 1, member |-> m]
    /\ owner' = m /\ foreign' = {}
    /\ Stop
    /\ requests' = requests \cup
          {[PollRequest EXCEPT !.login = logins + 1, !.member = m,
                               !.run = generation + 1, !.version = revision + 1]}
    /\ UNCHANGED serverVars

\* Another tab of the browser logs in or out; this one notices nothing.
OtherLogin(m) ==
    /\ logins < MaxLogins
    /\ logins' = logins + 1
    /\ stored' = [login |-> logins + 1, member |-> m]
    /\ foreign' = IF owner \in {None, m} THEN foreign ELSE foreign \cup {m}
    /\ UNCHANGED <<serverVars, owner, listVars, actionId, requests>>

OtherLogout ==
    /\ stored # NoToken
    /\ stored' = NoToken
    /\ UNCHANGED <<serverVars, logins, owner, foreign, listVars, actionId, requests>>

Init ==
    /\ status = [o \in Ops |-> "none"]
    /\ endedAt = [o \in Ops |-> 0]
    /\ expired = {} /\ logins = 0 /\ stored = NoToken
    /\ owner = None /\ foreign = {}
    /\ generation = 0 /\ revision = 0
    /\ items = EmptyList /\ updates = {} /\ actionId = None
    /\ requests = {}

Next ==
    \/ Poll \/ Clear \/ Logout \/ OtherLogout \/ Elsewhere
    \/ \E m \in Members : Login(m) \/ OtherLogin(m)
    \/ \E o \in Ops : Submit(o) \/ Cancel(o) \/ Start(o) \/ Finish(o)
    \/ \E o, new \in Ops : Retry(o, new)
    \/ \E n \in 1 .. MaxLogins : Expire(n)
    \/ \E q \in requests :
          \/ Serve(q) \/ DeliverPoll(q) \/ DeliverRow(q)
          \/ DeliverCleared(q) \/ DeliverError(q) \/ DeliverUnauthorized(q)

Spec == Init /\ [][Next]_vars

\* The timer starts every next poll; of polls that are sent again and again,
\* some are served and answered before the browser gives them up.
FairSpec ==
    /\ Spec
    /\ WF_vars(Poll)
    /\ SF_vars(\E q \in requests : q.kind = "poll" /\ Serve(q))
    /\ SF_vars(\E q \in requests : DeliverPoll(q))
    /\ SF_vars(\E q \in requests : q.kind = "poll" /\ DeliverUnauthorized(q))

-----------------------------------------------------------------------------
(* Properties. *)

\* Every row shown and every completion recorded belongs to the member who is
\* logged in, whatever answer of an earlier login arrives late, or to a member
\* another tab has logged in since (queue.ts, the generation captured by refresh,
\* submit, control and clearHistory).
OwnItems ==
    /\ \A o \in DOMAIN items : OwnerOfOp(o) \in {owner} \cup foreign
    /\ \A t \in updates : OwnerOf[t] \in {owner} \cup foreign

\* A pressed button (cancel, retry, clear) waits for a request of this login
\* that is still in flight: no late answer and no logout leaves the buttons of
\* the task centre disabled for ever (queue.ts, actionId in control,
\* clearHistory and stop).
ButtonHasRequest ==
    actionId # None =>
        \E q \in requests :
            /\ q.kind \in {"cancel", "retry", "clear"}
            /\ q.run = generation
            /\ actionId = IF q.kind = "clear" THEN "history" ELSE q.target

\* A poll of a member other than the operation's has just been answered: another
\* tab's login has changed whose list this tab is shown.
OthersList(o) ==
    \E q \in requests \ requests' : q.kind = "poll" /\ q.member # OwnerOfOp(o)

\* Within a login, an operation that is shown and still active on the server
\* stays shown, unless the list becomes another member's: a poll that was sent
\* before the operation was submitted never removes it (queue.ts, the revision
\* captured by refresh).
ActiveStaysShown ==
    [][\A o \in DOMAIN items :
          status[o] \in Active /\ generation' = generation /\ ~OthersList(o)
             => o \in DOMAIN items']_vars

\* The operation has ended, and the member's operations that ended later can fill
\* the list.
Outlived(o) == status[o] \in Ended /\ Cardinality(EndedAfter(o)) >= RecentLimit

\* Within a login, an operation shown active stops being shown active only with
\* its completion recorded in updates, which is what makes the workbench load the
\* result, with three exceptions: the member's history was cleared on the server
\* meanwhile, so many operations have ended after it that the list no longer has
\* it, or the list becomes another member's (queue.ts, accept, refresh and
\* clearHistory; ai_queue.py, list_owned).
CompletionRecorded ==
    [][\A o \in DOMAIN items :
          (/\ items[o] \in Active /\ generation' = generation
           /\ ~(o \in DOMAIN items' /\ items'[o] \in Active)
           /\ status[o] # "deleted" /\ ~Outlived(o) /\ ~OthersList(o))
             => TaskOf[o] \in updates']_vars

\* Once nobody submits, cancels, clears or logs in any more and the worker is
\* idle, the rows shown become the operations the server lists for the member
\* whose token the browser keeps, and stay so: lost, refused and discarded polls,
\* late answers and cleared rows that a poll brought back are all made good by the
\* polls that follow, and without a token the session ends (queue.ts, poll).
ListSettles == <>[](owner # None => items = Listed(stored.member))

-----------------------------------------------------------------------------
(* The inductive invariant behind the safety properties. *)

RequestRow ==
    [kind : Kinds, target : Ops \cup {None}, op : Ops \cup {None}, login : Nat,
     member : Members \cup {None}, run : Nat, version : Nat,
     answer : {"waiting", "ok", "error", "unauthorized"}, rows : Lists]

\* What is answered is the sender's.
WellFormed(q) ==
    /\ q \in RequestRow
    /\ q.kind \in {"submit", "retry"} => q.op # None
    /\ q.kind \in {"cancel", "retry"} => q.target # None
    /\ q.kind = "retry" => TaskOf[q.op] = TaskOf[q.target]
    /\ \A o \in DOMAIN q.rows : OwnerOfOp(o) = q.member

\* A list shows what was: no row the server has not, none ended before its time.
Behind(list) ==
    \A o \in DOMAIN list :
        /\ status[o] # "none"
        /\ list[o] \in Ended => status[o] \in Ended \cup {"deleted"}

\* An operation is not there before its request is served.
Unserved(q) ==
    q.answer = "waiting" /\ q.op # None => status[q.op] = "none"

\* A request of the current generation was sent for the member who is logged in, or
\* for one whose token another tab has stored.
OfLogin(q) ==
    Current(q) => owner # None /\ q.member \in {owner, None} \cup foreign

\* An answered poll that still applies has every row of its member that is shown and
\* that the server would list.
Complete(q) ==
    q.kind = "poll" /\ q.answer = "ok" /\ Applies(q) =>
        \A o \in DOMAIN items :
            OwnerOfOp(o) = q.member /\ status[o] \in Statuses /\ ~Outlived(o)
               => o \in DOMAIN q.rows

\* Only what has ended has its place in the order of ends.
Stamped == \A o \in Ops : endedAt[o] # 0 => status[o] \in Ended \cup {"deleted"}

\* The stored token is of this login or of one whose member is in the history.
TokenKnown == owner # None => stored.member \in {owner, None} \cup foreign

\* No two requests create the same operation, and a login has one poll in flight.
Distinct(q, r) ==
    \/ q = r
    \/ /\ q.op # None => q.op # r.op
       /\ ~(q.kind = "poll" /\ r.kind = "poll" /\ Current(q) /\ Current(r))

IInv ==
    /\ TypeOK /\ OwnItems /\ ButtonHasRequest /\ Behind(items) /\ Stamped /\ TokenKnown
    /\ \A q \in requests :
          WellFormed(q) /\ Behind(q.rows) /\ Unserved(q) /\ OfLogin(q) /\ Complete(q)
    /\ \A q, r \in requests : Distinct(q, r)
=============================================================================
