------------------------------ MODULE AiSubmit ------------------------------
(***************************************************************************)
(* How one click of a member becomes one AI operation.  The browser sends  *)
(* the request with an idempotency key and a deadline, and sends it again  *)
(* after a timeout or a server error (client.ts); every attempt is a       *)
(* transaction of its own on the server (AiQueueService.submit and retry), *)
(* so an attempt the browser gave up may still be running when the next    *)
(* one arrives.                                                            *)
(*                                                                         *)
(* One document and one kind of operation: a key is scoped to both.  What  *)
(* the worker does to an operation is reduced to its status (AiQueue).     *)
(***************************************************************************)
EXTENDS Integers

CONSTANTS Clicks,       \* requests of the user
          RetryClicks,  \* those that press "retry" on an operation
          KeyOf,        \* the Idempotency-Key of each click
          BodyOf,       \* the request body of each other click
          Bodies, Keys,
          MaxAttempts,  \* apiRequest: attempts
          MayClear,     \* members that clear their history: TRUE or FALSE
          None

ASSUME ClickAssumption ==
    /\ RetryClicks \subseteq Clicks
    /\ KeyOf \in [Clicks -> Keys]
    /\ BodyOf \in [Clicks \ RetryClicks -> Bodies]
    /\ MaxAttempts \in Nat \ {0}
    /\ MayClear \in BOOLEAN

\* An attempt of a click.  At most one operation is created by an attempt, which
\* also names it.
Attempts == Clicks \X (1..MaxAttempts)
ASSUME NoneAssumption == None \notin Attempts /\ None \notin Bodies

VARIABLES
    client,     \* per click: where apiRequest is, and what it told the user
    target,     \* the operation a retry click is about
    req,        \* per attempt: where the handler is, and its answer
    row,        \* the attempt that holds the task's row lock
    op,         \* ai_operations: status and the body its hash stands for
    ran         \* operations that were started

vars == <<client, target, req, row, op, ran>>

ACTIVE_STATUSES == {"queued", "running"}
Finished == {"succeeded", "failed", "cancelled"}
Stored == ACTIVE_STATUSES \cup Finished

\* Answers: an accepted operation, a business error (4xx) or a failure that may
\* be retried (408, 429, 5xx).
Refusals == {"operation_not_found", "operation_not_retryable", "idempotency_key_reused",
             "ai_operation_in_progress", "refused"}
Unavailable == "unavailable"
Answer == [code : {"accepted", "timeout", "none", Unavailable} \cup Refusals,
           op : Attempts \cup {None}]
NoAnswer == [code |-> "none", op |-> None]
Error(code) == [code |-> code, op |-> None]
Accepted(o) == [code |-> "accepted", op |-> o]

ClientPC == {"idle", "waiting", "pausing", "done"}

\* A handler: "sent" has not looked anything up; "checked" found no operation of
\* its key; "locked" holds the row and has passed the checks; "conflict" was
\* rolled back by a unique constraint; "committed" has yet to refresh its row.
HandlerPC == {"none", "sent", "checked", "locked", "conflict", "committed", "answered"}

NoRequest == [pc |-> "none", answer |-> NoAnswer]
NoOperation == [status |-> "absent", body |-> None]

Init ==
    /\ client = [c \in Clicks |-> [pc |-> "idle", attempt |-> 1, told |-> NoAnswer]]
    /\ target = [c \in Clicks |-> None]
    /\ req = [a \in Attempts |-> NoRequest]
    /\ row = None
    /\ op = [a \in Attempts |-> NoOperation]
    /\ ran = {}

Key(a) == KeyOf[a[1]]
Body(a) == IF a[1] \in RetryClicks THEN op[target[a[1]]].body ELSE BodyOf[a[1]]

-----------------------------------------------------------------------------
(* The browser: apiRequest with retryPolicy idempotent-submit *)

Send(a) == req' = [req EXCEPT ![a].pc = "sent"]
Drop(a) == req' = [req EXCEPT ![a].answer = NoAnswer]

Click(c) ==
    /\ client[c].pc = "idle"
    /\ \/ c \notin RetryClicks /\ UNCHANGED target
       \/ /\ c \in RetryClicks
          /\ \E o \in Attempts : /\ op[o].status \in {"failed", "cancelled"}
                                 /\ target' = [target EXCEPT ![c] = o]
    /\ client' = [client EXCEPT ![c].pc = "waiting"]
    /\ Send(<<c, 1>>)
    /\ UNCHANGED <<row, op, ran>>

Settle(c, answer) == client' = [client EXCEPT ![c].pc = "done", ![c].told = answer]

\* Slip: the deadline of an attempt is never armed.
NoDeadline(c, answer) == UNCHANGED client

\* A failed attempt: pause before the next one, or give up after the last.
NextAttempt(c, answer) ==
    IF client[c].attempt = MaxAttempts
      THEN Settle(c, answer)
      ELSE client' = [client EXCEPT ![c].pc = "pausing"]

\* The response to the current attempt arrives in time.
Receive(c) ==
    LET answer == req[<<c, client[c].attempt>>].answer IN
    /\ client[c].pc = "waiting"
    /\ req[<<c, client[c].attempt>>].pc = "answered"
    /\ IF answer.code = Unavailable THEN NextAttempt(c, answer) ELSE Settle(c, answer)
    /\ Drop(<<c, client[c].attempt>>)
    /\ UNCHANGED <<target, row, op, ran>>

\* The 15 second deadline, or the connection is lost: the handler goes on.
GiveUp(c) ==
    /\ client[c].pc = "waiting"
    /\ NextAttempt(c, Error("timeout"))
    /\ Drop(<<c, client[c].attempt>>)
    /\ UNCHANGED <<target, row, op, ran>>

Resend(c) ==
    /\ client[c].pc = "pausing"
    /\ client' = [client EXCEPT ![c].pc = "waiting", ![c].attempt = @ + 1]
    /\ Send(<<c, client[c].attempt + 1>>)
    /\ UNCHANGED <<target, row, op, ran>>

-----------------------------------------------------------------------------
(* The server: AiQueueService.submit and retry *)

Handler(a, pc) == req' = [req EXCEPT ![a].pc = pc]

\* The answer is lost if the browser has given this attempt up.
Awaited(a) == client[a[1]].pc = "waiting" /\ client[a[1]].attempt = a[2]
Reply(a, answer) ==
    req' = [req EXCEPT ![a] = [pc |-> "answered",
                               answer |-> IF Awaited(a) THEN answer ELSE NoAnswer]]

\* Slip: the lookup forgets the key.
MatchesAnyKey(a) == {o \in Attempts : op[o].status \in Stored}

Matches(a) == {o \in Attempts : op[o].status \in Stored /\ Key(o) = Key(a)}

\* _existing: the operation of this key, or an error if its request differs.
Existing(a, otherwise) ==
    IF Matches(a) = {} THEN otherwise
    ELSE \E o \in Matches(a) :
           Reply(a, IF op[o].body = Body(a) THEN Accepted(o)
                                            ELSE Error("idempotency_key_reused"))

\* retry() reads the operation it is about first: it must be there and ended.
Retryable(a) == op[target[a[1]]].status \in {"failed", "cancelled"}

RetryRefused(a) ==
    /\ req[a].pc = "sent"
    /\ a[1] \in RetryClicks
    /\ ~Retryable(a)
    /\ Reply(a, Error(IF op[target[a[1]]].status = "deleted"
                        THEN "operation_not_found" ELSE "operation_not_retryable"))
    /\ UNCHANGED <<client, target, row, op, ran>>

\* The first lookup of the key, without any lock.
Lookup(a) ==
    /\ req[a].pc = "sent"
    /\ a[1] \in RetryClicks => Retryable(a)
    /\ Existing(a, Handler(a, "checked"))
    /\ UNCHANGED <<client, target, row, op, ran>>

AnyActive == \E o \in Attempts : op[o].status \in ACTIVE_STATUSES

\* The row lock, then the test for an active operation: the key is not looked
\* up again under the lock.
InProgress(a) ==
    /\ req[a].pc = "checked" /\ row = None
    /\ AnyActive
    /\ Reply(a, Error("ai_operation_in_progress"))
    /\ UNCHANGED <<client, target, row, op, ran>>

\* Task state, provider setting or suggestion snapshot do not permit it.
Refuse(a) ==
    /\ req[a].pc = "checked" /\ row = None
    /\ ~AnyActive
    /\ Reply(a, Error("refused"))
    /\ UNCHANGED <<client, target, row, op, ran>>

LockRow(a) ==
    /\ req[a].pc = "checked" /\ row = None
    /\ ~AnyActive
    /\ row' = a
    /\ Handler(a, "locked")
    /\ UNCHANGED <<client, target, op, ran>>

\* Slip: the table has no unique constraint on the key.
NeverTaken(a) == FALSE

\* uq_ai_operations_scope_idempotency_key
KeyTaken(a) == Matches(a) # {}

\* commit(): the insert is flushed here, and the row lock ends with it.
Commit(a) ==
    /\ req[a].pc = "locked"
    /\ row' = None
    /\ IF KeyTaken(a)
         THEN Handler(a, "conflict") /\ UNCHANGED op
         ELSE /\ op' = [op EXCEPT ![a] = [status |-> "queued", body |-> Body(a)]]
              /\ Handler(a, "committed")
    /\ UNCHANGED <<client, target, ran>>

\* After the IntegrityError: the operation of this key, or what is in the way.
Conflict(a) ==
    /\ req[a].pc = "conflict"
    /\ Existing(a, Reply(a, Error("ai_operation_in_progress")))
    /\ UNCHANGED <<client, target, row, op, ran>>

\* refresh(operation): it fails if the operation ended and was cleared meanwhile.
Refresh(a) ==
    /\ req[a].pc = "committed"
    /\ Reply(a, IF op[a].status \in Stored THEN Accepted(a) ELSE Error(Unavailable))
    /\ UNCHANGED <<client, target, row, op, ran>>

\* A gateway or database failure at any point: the transaction is rolled back,
\* unless it was already committed.
Break(a) ==
    /\ req[a].pc \in {"sent", "checked", "locked", "conflict", "committed"}
    /\ Reply(a, Error(Unavailable))
    /\ row' = IF row = a THEN None ELSE row
    /\ UNCHANGED <<client, target, op, ran>>

-----------------------------------------------------------------------------
(* What else happens to operations *)

SetStatus(o, from, to) ==
    /\ op[o].status = from
    /\ op' = [op EXCEPT ![o].status = to]
    /\ UNCHANGED <<client, target, req, row>>

Start(o) == SetStatus(o, "queued", "running") /\ ran' = ran \cup {o}

Finish(o) ==
    /\ \E s \in {"succeeded", "failed"} : SetStatus(o, "running", s)
    /\ UNCHANGED ran

Cancel(o) == SetStatus(o, "queued", "cancelled") /\ UNCHANGED ran

ClearCompleted ==
    /\ MayClear
    /\ \E o \in Attempts : op[o].status \in Finished
    /\ op' = [o \in Attempts |-> IF op[o].status \in Finished
                                   THEN [op[o] EXCEPT !.status = "deleted"] ELSE op[o]]
    /\ UNCHANGED <<client, target, req, row, ran>>

-----------------------------------------------------------------------------
Browser(c) == Receive(c) \/ GiveUp(c) \/ Resend(c)

Server(a) ==
    \/ RetryRefused(a) \/ Lookup(a) \/ InProgress(a) \/ Refuse(a) \/ LockRow(a)
    \/ Commit(a) \/ Conflict(a) \/ Refresh(a) \/ Break(a)

Next ==
    \/ \E c \in Clicks : Click(c) \/ Browser(c)
    \/ \E a \in Attempts : Server(a)
    \/ \E o \in Attempts : Start(o) \/ Finish(o) \/ Cancel(o)
    \/ ClearCompleted

\* The browser's timers go off.  Nothing is assumed of the server: a request may
\* be lost on its way or answered too late.
Fairness == \A c \in Clicks : WF_vars(Browser(c))

Spec == Init /\ [][Next]_vars /\ Fairness

-----------------------------------------------------------------------------
(* Properties *)

\* Every variable keeps its type.
TypeOK ==
    /\ client \in [Clicks -> [pc : ClientPC, attempt : 1..MaxAttempts, told : Answer]]
    /\ target \in [Clicks -> Attempts \cup {None}]
    /\ req \in [Attempts -> [pc : HandlerPC, answer : Answer]]
    /\ row \in Attempts \cup {None}
    /\ op \in [Attempts -> [status : Stored \cup {"absent", "deleted"},
                            body : Bodies \cup {None}]]
    /\ ran \subseteq Attempts

\* Whatever is delayed, repeated or answered late, a key never has two operations
\* in the table (API_CONTRACT.md:103).
OneOperationPerKey ==
    \A o, p \in Attempts :
      op[o].status \in Stored /\ op[p].status \in Stored /\ Key(o) = Key(p) => o = p

\* One click is billed once: two operations of one key were both started only if
\* the first one has been cleared from the history, and its key with it.
BilledOnce ==
    \A o, p \in ran : Key(o) = Key(p) /\ o # p =>
      op[o].status = "deleted" \/ op[p].status = "deleted"

\* Who is told "accepted" is told of an operation with its own key and its own
\* request body, whichever attempt created it (API_CONTRACT.md:103-104).
AcceptedIsOwn ==
    \A c \in Clicks : client[c].told.code = "accepted" =>
      LET o == client[c].told.op IN
      /\ op[o].status # "absent"
      /\ Key(o) = KeyOf[c]
      /\ op[o].body = Body(<<c, 1>>)

\* Every click is answered or given up: the user is never left waiting.
EveryClickSettles == \A c \in Clicks : client[c].pc = "waiting" ~> client[c].pc = "done"

-----------------------------------------------------------------------------
(* The inductive invariant behind the safety properties *)

\* Exactly the attempt that holds the row is in its locked section.
RowHeld == \A a \in Attempts : req[a].pc = "locked" <=> row = a

\* Attempts are sent one after the other, and there is one more after a pause.
Unsent ==
    /\ \A a \in Attempts : client[a[1]].pc = "idle" \/ client[a[1]].attempt < a[2]
                             => req[a] = NoRequest
    /\ \A c \in Clicks :
         /\ client[c].pc = "idle" => client[c].attempt = 1 /\ client[c].told = NoAnswer
         /\ client[c].pc = "pausing" => client[c].attempt < MaxAttempts

\* Operations are created by their own attempt and known by nobody before.
Created ==
    /\ \A a \in Attempts : req[a].pc \in {"none", "sent", "checked", "locked", "conflict"}
                             => op[a] = NoOperation
    /\ \A c \in RetryClicks : client[c].pc # "idle" =>
         target[c] \in Attempts /\ op[target[c]].status # "absent"
    /\ \A a \in Attempts : op[a].status # "absent" => op[a].body = Body(a)

\* An answer that accepts is about an operation of this key and body.
OwnAnswer(a, answer) ==
    answer.code = "accepted" =>
      /\ answer.op \in Attempts
      /\ op[answer.op].status # "absent"
      /\ Key(answer.op) = Key(a)
      /\ op[answer.op].body = Body(a)

Answers ==
    /\ \A a \in Attempts : OwnAnswer(a, req[a].answer)
    /\ \A c \in Clicks : OwnAnswer(<<c, 1>>, client[c].told)

Started == \A o \in ran : op[o].status \in {"running", "succeeded", "failed", "deleted"}

IInv == TypeOK /\ RowHeld /\ Unsent /\ Created /\ Answers /\ Started
        /\ OneOperationPerKey
=============================================================================
