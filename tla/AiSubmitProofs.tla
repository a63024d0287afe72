-------------------------- MODULE AiSubmitProofs --------------------------
(***************************************************************************)
(* Proofs about AiSubmit for any number of clicks, attempts, keys and      *)
(* bodies: a key has one operation, is billed once, and an answer that     *)
(* accepts is about the request that was sent.                             *)
(***************************************************************************)
EXTENDS AiSubmit, TLAPS

\* The initial state satisfies the inductive invariant.
LEMMA InitIInv == Init => IInv
<1> SUFFICES ASSUME Init PROVE IInv
  OBVIOUS
<1> USE ClickAssumption, NoneAssumption DEF NoRequest
<1>1. TypeOK
  BY DEF Init, TypeOK, ClientPC, HandlerPC, NoAnswer, Answer, NoOperation
<1>2. RowHeld /\ Unsent
  BY DEF Init, RowHeld, Unsent, Attempts
<1>3. Created
  BY DEF Init, Created, NoOperation
<1>4. Answers
  BY DEF Init, Answers, OwnAnswer, NoAnswer, Attempts
<1>5. Started /\ OneOperationPerKey
  BY DEF Init, Started, OneOperationPerKey, NoOperation, Stored, ACTIVE_STATUSES, Finished
<1> QED
  BY <1>1, <1>2, <1>3, <1>4, <1>5 DEF IInv

\* A handler that answers, or is cut off, keeps the invariant.
LEMMA ReplyStep ==
    ASSUME IInv, NEW a \in Attempts, NEW r \in Answer, OwnAnswer(a, r),
           req[a].pc # "none", Reply(a, r), UNCHANGED <<client, target, op, ran>>,
           row' = IF row = a THEN None ELSE row
    PROVE  IInv'
<1> USE NoneAssumption DEF IInv
<1>1. PICK q \in Answer : /\ req' = [req EXCEPT ![a] = [pc |-> "answered", answer |-> q]]
                          /\ OwnAnswer(a, q)
  <2>1. NoAnswer \in Answer /\ OwnAnswer(a, NoAnswer)
    BY DEF NoAnswer, OwnAnswer, Answer
  <2>2. CASE Awaited(a)
    BY <2>2 DEF Reply
  <2>3. CASE ~Awaited(a)
    BY <2>1, <2>3 DEF Reply
  <2> QED BY <2>2, <2>3
<1>2. TypeOK'
  BY <1>1 DEF TypeOK, HandlerPC
<1>3. RowHeld'
  BY <1>1 DEF TypeOK, RowHeld
<1>4. Unsent'
  BY <1>1 DEF TypeOK, Unsent, NoRequest
<1>5. Created' /\ Started' /\ OneOperationPerKey'
  BY <1>1 DEF TypeOK, Created, Started, OneOperationPerKey, Body
<1>6. Answers'
  BY <1>1 DEF TypeOK, Answers, OwnAnswer, Body
<1> QED
  BY <1>2, <1>3, <1>4, <1>5, <1>6

\* What _existing answers is the operation of this key and body, or an error.
LEMMA ExistingAnswer ==
    ASSUME IInv, NEW a \in Attempts, NEW o \in Matches(a)
    PROVE  /\ Accepted(o) \in Answer
           /\ op[o].body = Body(a) => OwnAnswer(a, Accepted(o))
BY DEF IInv, TypeOK, Matches, Accepted, Answer, OwnAnswer, Stored, ACTIVE_STATUSES, Finished

\* Errors accept nothing.
LEMMA ErrorAnswer ==
    ASSUME NEW a, NEW code \in Refusals \cup {Unavailable, "timeout"}
    PROVE  Error(code) \in Answer /\ OwnAnswer(a, Error(code))
BY DEF Error, Answer, OwnAnswer, Refusals, Unavailable

\* A step of the server that answers keeps the invariant.
LEMMA AnswerSteps ==
    ASSUME IInv, NEW a \in Attempts,
           \/ RetryRefused(a) \/ InProgress(a) \/ Refuse(a) \/ Conflict(a)
           \/ Refresh(a) \/ Break(a)
    PROVE  IInv'
<1> USE NoneAssumption
<1>1. req[a].pc \notin {"none", "locked"} => row # a
  BY DEF IInv, RowHeld
<1>2. CASE RetryRefused(a)
  <2>1. PICK code \in Refusals : Reply(a, Error(code))
    BY <1>2 DEF RetryRefused, Refusals
  <2> QED BY <1>1, <1>2, <2>1, ErrorAnswer, ReplyStep DEF RetryRefused
<1>3. CASE InProgress(a)
  BY <1>1, <1>3, ErrorAnswer, ReplyStep DEF InProgress, Refusals
<1>4. CASE Refuse(a)
  BY <1>1, <1>4, ErrorAnswer, ReplyStep DEF Refuse, Refusals
<1>5. CASE Conflict(a)
  <2>1. PICK r \in Answer : OwnAnswer(a, r) /\ Reply(a, r)
    <3>1. CASE Matches(a) = {}
      BY <3>1, <1>5, ErrorAnswer DEF Conflict, Existing, Refusals
    <3>2. CASE Matches(a) # {}
      <4>1. PICK o \in Matches(a) :
              Reply(a, IF op[o].body = Body(a) THEN Accepted(o)
                                               ELSE Error("idempotency_key_reused"))
        BY <3>2, <1>5 DEF Conflict, Existing
      <4> QED BY <4>1, ExistingAnswer, ErrorAnswer DEF Refusals
    <3> QED BY <3>1, <3>2
  <2> QED BY <1>1, <1>5, <2>1, ReplyStep DEF Conflict
<1>6. CASE Refresh(a)
  <2>1. op[a].status \in Stored => Accepted(a) \in Answer /\ OwnAnswer(a, Accepted(a))
    BY DEF IInv, Created, Accepted, Answer, OwnAnswer, Stored, ACTIVE_STATUSES, Finished
  <2>2. PICK r \in Answer : OwnAnswer(a, r) /\ Reply(a, r)
    BY <1>6, <2>1, ErrorAnswer DEF Refresh
  <2> QED BY <1>1, <1>6, <2>2, ReplyStep DEF Refresh
<1>7. CASE Break(a)
  <2>1. Reply(a, Error(Unavailable)) /\ req[a].pc # "none"
    BY <1>7 DEF Break
  <2> QED BY <1>7, <2>1, ErrorAnswer, ReplyStep DEF Break
<1> QED BY <1>2, <1>3, <1>4, <1>5, <1>6, <1>7

\* A handler that moves on without an answer keeps the invariant.
LEMMA HandlerStep ==
    ASSUME IInv, NEW a \in Attempts, NEW pc \in {"checked", "locked"},
           req[a].pc \in {"sent", "checked"}, Handler(a, pc),
           UNCHANGED <<client, target, op, ran>>,
           row' = IF pc = "locked" THEN a ELSE row, pc = "locked" => row = None
    PROVE  IInv'
<1> USE NoneAssumption DEF IInv, Handler
<1>1. TypeOK'
  BY DEF TypeOK, HandlerPC
<1>2. RowHeld'
  BY DEF TypeOK, RowHeld
<1>3. Unsent'
  BY DEF TypeOK, Unsent, NoRequest
<1>4. Created' /\ Started' /\ OneOperationPerKey'
  BY DEF TypeOK, Created, Started, OneOperationPerKey, Body
<1>5. Answers'
  BY DEF TypeOK, Answers, OwnAnswer, Body
<1> QED
  BY <1>1, <1>2, <1>3, <1>4, <1>5

\* The first lookup keeps the invariant.
LEMMA LookupStep ==
    ASSUME IInv, NEW a \in Attempts, Lookup(a)
    PROVE  IInv'
<1> USE NoneAssumption
<1>1. row # a
  BY DEF IInv, RowHeld, Lookup
<1>2. CASE Matches(a) = {}
  BY <1>2, HandlerStep DEF Lookup, Existing
<1>3. CASE Matches(a) # {}
  <2>1. PICK o \in Matches(a) :
          Reply(a, IF op[o].body = Body(a) THEN Accepted(o)
                                           ELSE Error("idempotency_key_reused"))
    BY <1>3 DEF Lookup, Existing
  <2>2. PICK r \in Answer : OwnAnswer(a, r) /\ Reply(a, r)
    BY <2>1, ExistingAnswer, ErrorAnswer DEF Refusals
  <2> QED BY <1>1, <2>2, ReplyStep DEF Lookup
<1> QED BY <1>2, <1>3

\* The commit keeps the invariant: the unique constraint sees every other row.
LEMMA CommitStep ==
    ASSUME IInv, NEW a \in Attempts, Commit(a)
    PROVE  IInv'
<1> USE NoneAssumption, ClickAssumption DEF IInv, Handler
<1>1. op[a] = NoOperation /\ row = a /\ client[a[1]].pc # "idle" /\ a[1] \in Clicks
  BY DEF Commit, RowHeld, Created, Unsent, NoRequest, Attempts
<1>2. Body(a) \in Bodies \cup {None} /\ (a[1] \in RetryClicks => target[a[1]] # a)
  BY <1>1 DEF TypeOK, Body, Created, NoOperation
<1>3. PICK pc \in {"conflict", "committed"} : req' = [req EXCEPT ![a].pc = pc]
  BY DEF Commit
<1>4. UNCHANGED <<client, target, ran>> /\ row' = None
  BY DEF Commit
<1>5. \/ op' = op
      \/ /\ op' = [op EXCEPT ![a] = [status |-> "queued", body |-> Body(a)]]
         /\ Matches(a) = {} /\ pc = "committed"
  <2>1. CASE KeyTaken(a)
    BY <2>1 DEF Commit
  <2>2. CASE ~KeyTaken(a)
    <3>1. req' = [req EXCEPT ![a].pc = "committed"]
      BY <2>2 DEF Commit
    <3>2. pc = "committed"
      BY <3>1, <1>3 DEF TypeOK
    <3> QED BY <2>2, <3>2 DEF Commit, KeyTaken
  <2> QED BY <2>1, <2>2
<1>6. TypeOK'
  <2>1. req' \in [Attempts -> [pc : HandlerPC, answer : Answer]]
    BY <1>3 DEF TypeOK, HandlerPC
  <2>2. "queued" \in Stored \cup {"absent", "deleted"}
    BY DEF Stored, ACTIVE_STATUSES
  <2>3. op' \in [Attempts -> [status : Stored \cup {"absent", "deleted"},
                               body : Bodies \cup {None}]]
    BY <1>2, <1>5, <2>2 DEF TypeOK
  <2> QED BY <1>4, <2>1, <2>3 DEF TypeOK
<1>7. RowHeld' /\ Unsent'
  BY <1>1, <1>3, <1>4 DEF TypeOK, RowHeld, Unsent, NoRequest, Commit
<1>8. /\ \A o \in Attempts : op[o].status # "absent" => op'[o] = op[o]
      /\ \A o \in Attempts : o # a => op'[o] = op[o]
  BY <1>1, <1>5 DEF TypeOK, NoOperation
<1>9. \A b \in Attempts : client[b[1]].pc # "idle" => Body(b)' = Body(b)
  <2>1. SUFFICES ASSUME NEW b \in Attempts, client[b[1]].pc # "idle"
                 PROVE  Body(b)' = Body(b)
    OBVIOUS
  <2>2. CASE b[1] \in RetryClicks
    <3>1. target[b[1]] \in Attempts /\ op[target[b[1]]].status # "absent"
      BY <2>1, <2>2 DEF Created
    <3>2. op'[target[b[1]]] = op[target[b[1]]]
      BY <3>1, <1>8
    <3> QED BY <3>2, <2>2, <1>4 DEF Body
  <2>3. CASE b[1] \notin RetryClicks
    BY <2>3 DEF Body
  <2> QED BY <2>2, <2>3
<1>10. Created'
  <2>1. op'[a].status # "absent" => op'[a].body = Body(a)
    BY <1>1, <1>5 DEF TypeOK, NoOperation
  <2>2. \A b \in Attempts : op'[b].status # "absent" => op'[b].body = Body(b)'
    <3>1. SUFFICES ASSUME NEW b \in Attempts, op'[b].status # "absent"
                   PROVE  op'[b].body = Body(b)'
      OBVIOUS
    <3>2. CASE b = a
      BY <3>1, <3>2, <2>1, <1>1, <1>9
    <3>3. CASE b # a
      <4>1. op'[b] = op[b] /\ op[b].body = Body(b)
        BY <3>1, <3>3, <1>8 DEF Created
      <4>2. client[b[1]].pc # "idle"
        BY <3>1, <4>1 DEF Created, Unsent, NoRequest, NoOperation
      <4> QED BY <4>1, <4>2, <1>9
    <3> QED BY <3>2, <3>3
  <2>3. \A b \in Attempts : req'[b].pc \in {"none", "sent", "checked", "locked", "conflict"}
                              => op'[b] = NoOperation
    BY <1>1, <1>3, <1>5 DEF TypeOK, Created
  <2>4. \A c \in RetryClicks : client'[c].pc # "idle" =>
          target'[c] \in Attempts /\ op'[target'[c]].status # "absent"
    BY <1>4, <1>8 DEF Created
  <2> QED BY <2>2, <2>3, <2>4 DEF Created
<1>11. Answers'
  <2>1. \A b \in Attempts, r \in Answer :
          OwnAnswer(b, r) /\ client[b[1]].pc # "idle" => OwnAnswer(b, r)'
    BY <1>8, <1>9 DEF OwnAnswer, Key
  <2>2. \A b \in Attempts : client[b[1]].pc = "idle" => b # a /\ req'[b] = req[b]
    BY <1>1, <1>3 DEF TypeOK
  <2>3. \A b \in Attempts : OwnAnswer(b, req[b].answer)'
    <3>1. SUFFICES ASSUME NEW b \in Attempts PROVE OwnAnswer(b, req[b].answer)'
      OBVIOUS
    <3>2. req'[b].answer = req[b].answer /\ req[b].answer \in Answer
      BY <1>3 DEF TypeOK
    <3>3. CASE client[b[1]].pc = "idle"
      BY <3>2, <3>3 DEF Unsent, NoRequest, NoAnswer, OwnAnswer
    <3>4. CASE client[b[1]].pc # "idle"
      BY <3>2, <3>4, <2>1 DEF Answers, OwnAnswer
    <3> QED BY <3>3, <3>4
  <2>4. \A c \in Clicks : OwnAnswer(<<c, 1>>, client[c].told)'
    <3>1. SUFFICES ASSUME NEW c \in Clicks PROVE OwnAnswer(<<c, 1>>, client[c].told)'
      OBVIOUS
    <3>2. client[c].told \in Answer /\ <<c, 1>> \in Attempts /\ client' = client
      BY <1>4 DEF TypeOK, Attempts
    <3>3. CASE client[c].pc = "idle"
      BY <3>2, <3>3 DEF Unsent, NoAnswer, OwnAnswer
    <3>4. CASE client[c].pc # "idle"
      BY <3>2, <3>4, <2>1 DEF Answers, OwnAnswer
    <3> QED BY <3>3, <3>4
  <2> QED BY <2>3, <2>4 DEF Answers
<1>12. Started'
  BY <1>1, <1>4, <1>8 DEF TypeOK, Started, NoOperation
<1>13. OneOperationPerKey'
  BY <1>5, <1>8 DEF TypeOK, OneOperationPerKey, Matches, Key
<1> QED
  BY <1>6, <1>7, <1>10, <1>11, <1>12, <1>13

\* A step that only changes the status of stored operations keeps the invariant.
LEMMA StatusStep ==
    ASSUME IInv, UNCHANGED <<client, target, req, row>>,
           op' \in [Attempts -> [status : Stored \cup {"absent", "deleted"},
                                 body : Bodies \cup {None}]],
           \A o \in Attempts :
             /\ op'[o].body = op[o].body
             /\ op[o].status = "absent" => op'[o] = op[o]
             /\ op[o].status # "absent" => op'[o].status # "absent"
             /\ op'[o].status \in Stored => op[o].status \in Stored,
           ran' \subseteq Attempts, Started'
    PROVE  IInv'
<1> USE NoneAssumption, ClickAssumption DEF IInv
<1>1. TypeOK'
  BY DEF TypeOK
<1>2. RowHeld' /\ Unsent'
  BY DEF RowHeld, Unsent
<1>3. \A b \in Attempts : client[b[1]].pc # "idle" => Body(b)' = Body(b)
  <2>1. SUFFICES ASSUME NEW b \in Attempts, client[b[1]].pc # "idle"
                 PROVE  Body(b)' = Body(b)
    OBVIOUS
  <2>2. CASE b[1] \in RetryClicks
    <3>1. target[b[1]] \in Attempts
      BY <2>1, <2>2 DEF Created
    <3> QED BY <3>1, <2>2 DEF Body
  <2>3. CASE b[1] \notin RetryClicks
    BY <2>3 DEF Body
  <2> QED BY <2>2, <2>3
<1>4. Created'
  <2>1. \A b \in Attempts : op'[b].status # "absent" => op'[b].body = Body(b)'
    <3>1. SUFFICES ASSUME NEW b \in Attempts, op'[b].status # "absent"
                   PROVE  op'[b].body = Body(b)'
      OBVIOUS
    <3>2. op[b].status # "absent" /\ op[b].body = Body(b)
      BY <3>1 DEF Created
    <3>3. client[b[1]].pc # "idle"
      BY <3>2 DEF Created, Unsent, NoRequest, NoOperation
    <3> QED BY <3>2, <3>3, <1>3
  <2>2. \A b \in Attempts : req'[b].pc \in {"none", "sent", "checked", "locked", "conflict"}
                              => op'[b] = NoOperation
    BY DEF Created, NoOperation
  <2>3. \A c \in RetryClicks : client'[c].pc # "idle" =>
          target'[c] \in Attempts /\ op'[target'[c]].status # "absent"
    BY DEF Created
  <2> QED BY <2>1, <2>2, <2>3 DEF Created
<1>5. Answers'
  <2>1. \A b \in Attempts, r \in Answer :
          OwnAnswer(b, r) /\ client[b[1]].pc # "idle" => OwnAnswer(b, r)'
    BY <1>3 DEF OwnAnswer, Key
  <2>2. \A b \in Attempts : OwnAnswer(b, req[b].answer)'
    <3>1. SUFFICES ASSUME NEW b \in Attempts PROVE OwnAnswer(b, req[b].answer)'
      OBVIOUS
    <3>2. req'[b].answer = req[b].answer /\ req[b].answer \in Answer
      BY DEF TypeOK
    <3>3. CASE client[b[1]].pc = "idle"
      BY <3>2, <3>3 DEF Unsent, NoRequest, NoAnswer, OwnAnswer
    <3>4. CASE client[b[1]].pc # "idle"
      BY <3>2, <3>4, <2>1 DEF Answers, OwnAnswer
    <3> QED BY <3>3, <3>4
  <2>3. \A c \in Clicks : OwnAnswer(<<c, 1>>, client[c].told)'
    <3>1. SUFFICES ASSUME NEW c \in Clicks PROVE OwnAnswer(<<c, 1>>, client[c].told)'
      OBVIOUS
    <3>2. client[c].told \in Answer /\ <<c, 1>> \in Attempts /\ client' = client
      BY DEF TypeOK, Attempts
    <3>3. CASE client[c].pc = "idle"
      BY <3>2, <3>3 DEF Unsent, NoAnswer, OwnAnswer
    <3>4. CASE client[c].pc # "idle"
      BY <3>2, <3>4, <2>1 DEF Answers, OwnAnswer
    <3> QED BY <3>3, <3>4
  <2> QED BY <2>2, <2>3 DEF Answers
<1>6. OneOperationPerKey'
  BY DEF OneOperationPerKey, Key
<1> QED
  BY <1>1, <1>2, <1>4, <1>5, <1>6

\* The worker, a cancellation and the clearing of the history keep the invariant.
LEMMA StatusSteps ==
    ASSUME IInv, (\E o \in Attempts : Start(o) \/ Finish(o) \/ Cancel(o)) \/ ClearCompleted
    PROVE  IInv'
<1> USE DEF Stored, ACTIVE_STATUSES, Finished
<1>1. ASSUME NEW o \in Attempts, NEW from \in Stored, NEW to \in Stored,
             SetStatus(o, from, to), from # "absent",
             \/ ran' = ran \cup {o} /\ to = "running"
             \/ ran' = ran /\ to \in Finished
                /\ (to = "cancelled" => from = "queued")
      PROVE  IInv'
  <2>1. /\ op' = [op EXCEPT ![o].status = to] /\ op[o].status = from
        /\ UNCHANGED <<client, target, req, row>>
    BY <1>1 DEF SetStatus
  <2>2. op' \in [Attempts -> [status : Stored \cup {"absent", "deleted"},
                               body : Bodies \cup {None}]]
    BY <2>1 DEF IInv, TypeOK
  <2>3. \A p \in Attempts : /\ op'[p].body = op[p].body
                             /\ p # o => op'[p] = op[p]
                             /\ op'[o].status = to
    BY <2>1 DEF IInv, TypeOK
  <2>4. ran' \subseteq Attempts
    BY <1>1 DEF IInv, TypeOK
  <2>5. Started'
    BY <1>1, <2>1, <2>3, <2>4 DEF IInv, Started, TypeOK
  <2> QED BY <1>1, <2>1, <2>2, <2>3, <2>4, <2>5, StatusStep
<1>2. ASSUME NEW o \in Attempts, Start(o) \/ Finish(o) \/ Cancel(o)
      PROVE  IInv'
  <2>1. CASE Start(o)
    BY <2>1, <1>1 DEF Start
  <2>2. CASE Finish(o)
    <3>1. PICK s \in {"succeeded", "failed"} : SetStatus(o, "running", s) /\ ran' = ran
      BY <2>2 DEF Finish
    <3> QED BY <3>1, <1>1
  <2>3. CASE Cancel(o)
    BY <2>3, <1>1 DEF Cancel
  <2> QED BY <1>2, <2>1, <2>2, <2>3
<1>3. CASE ClearCompleted
  <2>1. op' = [o \in Attempts |-> IF op[o].status \in Finished
                                    THEN [op[o] EXCEPT !.status = "deleted"] ELSE op[o]]
    BY <1>3 DEF ClearCompleted
  <2>2. \A o \in Attempts :
          /\ op'[o] \in [status : Stored \cup {"absent", "deleted"}, body : Bodies \cup {None}]
          /\ op'[o].body = op[o].body
          /\ op[o].status \in Finished => op'[o].status = "deleted"
          /\ op[o].status \notin Finished => op'[o] = op[o]
    BY <2>1 DEF IInv, TypeOK
  <2>3. Started' /\ ran' \subseteq Attempts
    BY <1>3, <2>2 DEF ClearCompleted, IInv, Started, TypeOK
  <2> QED BY <1>3, <2>1, <2>2, <2>3, StatusStep DEF ClearCompleted
<1> QED BY <1>2, <1>3

\* A new click keeps the invariant.
LEMMA ClickStep ==
    ASSUME IInv, NEW c \in Clicks, Click(c)
    PROVE  IInv'
<1> USE NoneAssumption, ClickAssumption DEF IInv, Send
<1>1. PICK a \in Attempts : a = <<c, 1>>
  <2>1. <<c, 1>> \in Attempts
    BY DEF Attempts
  <2> QED BY <2>1
<1>2. /\ client[c].pc = "idle" /\ client[c].attempt = 1 /\ client[c].told = NoAnswer
      /\ req[a] = NoRequest /\ op[a] = NoOperation
  BY <1>1 DEF Click, Unsent, Created, NoRequest
<1>3. /\ client' = [client EXCEPT ![c].pc = "waiting"]
      /\ req' = [req EXCEPT ![a].pc = "sent"]
      /\ UNCHANGED <<row, op, ran>>
  BY <1>1 DEF Click
<1>4. \/ target' = target /\ c \notin RetryClicks
      \/ \E o \in Attempts : /\ target' = [target EXCEPT ![c] = o]
                              /\ op[o].status # "absent"
  BY DEF Click
<1>5. target' \in [Clicks -> Attempts \cup {None}]
      /\ \A d \in Clicks : d # c => target'[d] = target[d]
  BY <1>4 DEF TypeOK
<1>6. TypeOK'
  <2>1. client' \in [Clicks -> [pc : ClientPC, attempt : 1..MaxAttempts, told : Answer]]
    BY <1>3, SMTT(30) DEF TypeOK, ClientPC
  <2>2. req' \in [Attempts -> [pc : HandlerPC, answer : Answer]]
    BY <1>3 DEF TypeOK, HandlerPC
  <2> QED BY <1>3, <1>5, <2>1, <2>2 DEF TypeOK
<1>7. RowHeld'
  BY <1>2, <1>3 DEF TypeOK, RowHeld, NoRequest
<1>8. Unsent'
  <2>1. \A b \in Attempts : b[1] = c /\ 1 < b[2] => b # a /\ req'[b] = NoRequest
    BY <1>1, <1>2, <1>3 DEF TypeOK, Unsent
  <2>2. \A b \in Attempts : b[1] # c => req'[b] = req[b] /\ client'[b[1]] = client[b[1]]
    BY <1>1, <1>3 DEF TypeOK, Attempts
  <2>3. client'[c].pc = "waiting" /\ client'[c].attempt = 1
    BY <1>2, <1>3 DEF TypeOK
  <2>4. \A b \in Attempts : client'[b[1]].pc = "idle" \/ client'[b[1]].attempt < b[2]
                             => req'[b] = NoRequest
    BY <2>1, <2>2, <2>3 DEF Unsent
  <2>5. \A d \in Clicks : d # c => client'[d] = client[d]
    BY <1>3 DEF TypeOK
  <2> QED BY <2>3, <2>4, <2>5 DEF Unsent
<1>9. \A b \in Attempts : b[1] # c => Body(b)' = Body(b)
  BY <1>3, <1>5 DEF Body, Attempts
<1>10. Created'
  <2>1. \A b \in Attempts : op'[b].status # "absent" => op'[b].body = Body(b)'
    <3>1. SUFFICES ASSUME NEW b \in Attempts, op[b].status # "absent"
                   PROVE  op[b].body = Body(b)'
      BY <1>3
    <3>2. b[1] # c
      BY <3>1, <1>2 DEF Unsent, Created, NoRequest, NoOperation
    <3> QED BY <3>1, <3>2, <1>9 DEF Created
  <2>2. \A b \in Attempts : req'[b].pc \in {"none", "sent", "checked", "locked", "conflict"}
                              => op'[b] = NoOperation
    BY <1>2, <1>3 DEF TypeOK, Created
  <2>3. \A d \in RetryClicks : client'[d].pc # "idle" =>
          target'[d] \in Attempts /\ op'[target'[d]].status # "absent"
    BY <1>3, <1>4, <1>5 DEF Created, TypeOK
  <2> QED BY <2>1, <2>2, <2>3 DEF Created
<1>11. Answers'
  <2>1. \A b \in Attempts, r \in Answer :
          OwnAnswer(b, r) /\ b[1] # c => OwnAnswer(b, r)'
    BY <1>3, <1>9 DEF OwnAnswer, Key
  <2>2. \A b \in Attempts : OwnAnswer(b, req[b].answer)'
    <3>1. SUFFICES ASSUME NEW b \in Attempts PROVE OwnAnswer(b, req[b].answer)'
      OBVIOUS
    <3>2. req'[b].answer = req[b].answer /\ req[b].answer \in Answer
      BY <1>3 DEF TypeOK
    <3>3. CASE b[1] = c
      BY <3>2, <3>3, <1>2 DEF Unsent, NoRequest, NoAnswer, OwnAnswer
    <3>4. CASE b[1] # c
      BY <3>2, <3>4, <2>1 DEF Answers, OwnAnswer
    <3> QED BY <3>3, <3>4
  <2>3. \A d \in Clicks : OwnAnswer(<<d, 1>>, client[d].told)'
    <3>1. SUFFICES ASSUME NEW d \in Clicks PROVE OwnAnswer(<<d, 1>>, client[d].told)'
      OBVIOUS
    <3>2. /\ client[d].told \in Answer /\ <<d, 1>> \in Attempts
          /\ client'[d].told = client[d].told
      BY <1>3 DEF TypeOK, Attempts
    <3>3. CASE d = c
      BY <3>2, <3>3, <1>2 DEF NoAnswer, OwnAnswer
    <3>4. CASE d # c
      BY <3>2, <3>4, <2>1 DEF Answers, OwnAnswer
    <3> QED BY <3>3, <3>4
  <2> QED BY <2>2, <2>3 DEF Answers
<1>12. Started' /\ OneOperationPerKey'
  BY <1>3 DEF Started, OneOperationPerKey, Key
<1> QED
  BY <1>6, <1>7, <1>8, <1>10, <1>11, <1>12

\* The end of an attempt in the browser keeps the invariant.
LEMMA AttemptEnds ==
    ASSUME IInv, NEW c \in Clicks, NEW r \in Answer, OwnAnswer(<<c, 1>>, r),
           client[c].pc = "waiting", Settle(c, r) \/ NextAttempt(c, r),
           Drop(<<c, client[c].attempt>>), UNCHANGED <<target, row, op, ran>>
    PROVE  IInv'
<1> USE NoneAssumption, ClickAssumption DEF IInv
<1>1. PICK a \in Attempts : a = <<c, client[c].attempt>>
  BY DEF Attempts, TypeOK
<1>2. req' = [req EXCEPT ![a].answer = NoAnswer]
  BY <1>1 DEF Drop
<1>3. \/ client' = [client EXCEPT ![c].pc = "done", ![c].told = r]
      \/ /\ client' = [client EXCEPT ![c].pc = "pausing"]
         /\ client[c].attempt # MaxAttempts
  BY DEF Settle, NextAttempt
<1>4. /\ \A d \in Clicks : d # c => client'[d] = client[d]
      /\ client'[c].attempt = client[c].attempt
      /\ client'[c].told \in {r, client[c].told}
      /\ client'[c].pc \in {"done", "pausing"}
      /\ client'[c].pc = "pausing" => client[c].attempt # MaxAttempts
  BY <1>3 DEF TypeOK
<1>5. /\ \A b \in Attempts : req'[b].pc = req[b].pc
      /\ \A b \in Attempts : req'[b].answer \in {NoAnswer, req[b].answer}
      /\ \A b \in Attempts : b # a => req'[b] = req[b]
  BY <1>2 DEF TypeOK
<1>6. TypeOK'
  <2>1. client' \in [Clicks -> [pc : ClientPC, attempt : 1..MaxAttempts, told : Answer]]
    <3>1. "done" \in ClientPC /\ "pausing" \in ClientPC
      BY DEF ClientPC
    <3>2. CASE client' = [client EXCEPT ![c].pc = "done", ![c].told = r]
      BY <3>1, <3>2, ZenonT(30) DEF TypeOK
    <3>3. CASE client' = [client EXCEPT ![c].pc = "pausing"]
      BY <3>1, <3>3 DEF TypeOK
    <3> QED BY <1>3, <3>2, <3>3
  <2>2. NoAnswer \in Answer
    BY DEF NoAnswer, Answer
  <2>3. req' \in [Attempts -> [pc : HandlerPC, answer : Answer]]
    BY <1>2, <2>2 DEF TypeOK
  <2> QED BY <2>1, <2>3 DEF TypeOK
<1>7. RowHeld' /\ Started' /\ OneOperationPerKey'
  BY <1>5 DEF RowHeld, Started, OneOperationPerKey, Key
<1>8. Unsent'
  <2>1. \A b \in Attempts : client'[b[1]].pc = "idle" \/ client'[b[1]].attempt < b[2]
                             => req'[b] = NoRequest
    <3>1. SUFFICES ASSUME NEW b \in Attempts,
                          client'[b[1]].pc = "idle" \/ client'[b[1]].attempt < b[2]
                   PROVE  req'[b] = NoRequest
      OBVIOUS
    <3>2. b[1] \in Clicks /\ b[2] \in 1..MaxAttempts
      BY DEF Attempts
    <3>3. client[b[1]].pc = "idle" \/ client[b[1]].attempt < b[2]
      BY <3>1, <3>2, <1>4
    <3>4. b # a
      BY <3>1, <3>2, <1>1, <1>4 DEF TypeOK
    <3> QED BY <3>3, <3>4, <1>5 DEF Unsent
  <2>2. \A d \in Clicks :
         /\ client'[d].pc = "idle" => client'[d].attempt = 1 /\ client'[d].told = NoAnswer
         /\ client'[d].pc = "pausing" => client'[d].attempt < MaxAttempts
    BY <1>4 DEF Unsent, TypeOK
  <2> QED BY <2>1, <2>2 DEF Unsent
<1>9. Created'
  BY <1>4, <1>5 DEF Created, Body
<1>10. Answers'
  BY <1>4, <1>5 DEF Answers, OwnAnswer, NoAnswer, Body, Key
<1> QED
  BY <1>6, <1>7, <1>8, <1>9, <1>10

\* The next attempt keeps the invariant.
LEMMA ResendStep ==
    ASSUME IInv, NEW c \in Clicks, Resend(c)
    PROVE  IInv'
<1> USE NoneAssumption, ClickAssumption DEF IInv
<1>1. client[c].pc = "pausing" /\ client[c].attempt < MaxAttempts
      /\ client[c].attempt \in 1..MaxAttempts
  BY DEF Resend, Unsent, TypeOK
<1>2. PICK a \in Attempts : a = <<c, client[c].attempt + 1>>
  <2>1. client[c].attempt + 1 \in 1..MaxAttempts
    BY <1>1
  <2>2. <<c, client[c].attempt + 1>> \in Attempts
    BY <2>1 DEF Attempts
  <2> QED BY <2>2
<1>3. req[a] = NoRequest /\ op[a] = NoOperation
  BY <1>1, <1>2 DEF Unsent, Created, NoRequest
<1>4. /\ client' = [client EXCEPT ![c].pc = "waiting", ![c].attempt = @ + 1]
      /\ req' = [req EXCEPT ![a].pc = "sent"]
      /\ UNCHANGED <<target, row, op, ran>>
  BY <1>2 DEF Resend, Send
<1>5. /\ \A d \in Clicks : d # c => client'[d] = client[d]
      /\ client'[c].attempt = client[c].attempt + 1
      /\ client'[c].told = client[c].told
      /\ client'[c].pc = "waiting"
  BY <1>4 DEF TypeOK
<1>6. /\ \A b \in Attempts : b # a => req'[b] = req[b]
      /\ \A b \in Attempts : req'[b].answer = req[b].answer
      /\ req'[a].pc = "sent"
  BY <1>4 DEF TypeOK
<1>7. TypeOK'
  <2>1. client' \in [Clicks -> [pc : ClientPC, attempt : 1..MaxAttempts, told : Answer]]
    BY <1>1, <1>4, SMTT(30) DEF TypeOK, ClientPC
  <2>2. req' \in [Attempts -> [pc : HandlerPC, answer : Answer]]
    BY <1>4 DEF TypeOK, HandlerPC
  <2> QED BY <1>4, <2>1, <2>2 DEF TypeOK
<1>8. RowHeld' /\ Started' /\ OneOperationPerKey'
  BY <1>3, <1>4, <1>6 DEF RowHeld, Started, OneOperationPerKey, Key, NoRequest
<1>9. Unsent'
  <2>1. SUFFICES ASSUME NEW b \in Attempts,
                        client'[b[1]].pc = "idle" \/ client'[b[1]].attempt < b[2]
                 PROVE  req'[b] = NoRequest
    BY <1>5 DEF Unsent
  <2>2. b[1] \in Clicks /\ b[2] \in 1..MaxAttempts
    BY DEF Attempts
  <2>3. client[b[1]].pc = "idle" \/ client[b[1]].attempt < b[2]
    BY <2>1, <2>2, <1>1, <1>5
  <2>4. b # a
    BY <2>1, <2>2, <1>1, <1>2, <1>5
  <2> QED BY <2>3, <2>4, <1>6 DEF Unsent
<1>10. Created'
  BY <1>1, <1>3, <1>4, <1>5, <1>6 DEF Created, Body
<1>11. Answers'
  <2>1. \A b \in Attempts : OwnAnswer(b, req[b].answer)'
    BY <1>4, <1>6 DEF Answers, OwnAnswer, Body, Key
  <2>2. \A d \in Clicks : client'[d].told = client[d].told
    BY <1>5
  <2>3. \A d \in Clicks : OwnAnswer(<<d, 1>>, client[d].told)'
    <3>1. SUFFICES ASSUME NEW d \in Clicks PROVE OwnAnswer(<<d, 1>>, client[d].told)'
      OBVIOUS
    <3>2. PICK t : t = client[d].told
      OBVIOUS
    <3>3. OwnAnswer(<<d, 1>>, t)
      BY <3>2 DEF Answers
    <3>4. OwnAnswer(<<d, 1>>, t)'
      BY <3>3, <1>4 DEF OwnAnswer, Body, Key
    <3> QED BY <3>2, <3>4, <2>2
  <2> QED BY <2>1, <2>3 DEF Answers
<1> QED
  BY <1>7, <1>8, <1>9, <1>10, <1>11

\* Every step keeps the invariant.
LEMMA StepIInv == IInv /\ [Next]_vars => IInv'
<1> SUFFICES ASSUME IInv, [Next]_vars PROVE IInv'
  OBVIOUS
<1>1. ASSUME NEW c \in Clicks, Browser(c)
      PROVE  IInv'
  <2>1. CASE Receive(c)
    <3>1. PICK a \in Attempts : a = <<c, client[c].attempt>>
      BY DEF Attempts, IInv, TypeOK
    <3>2. PICK r \in Answer : r = req[a].answer
      BY DEF IInv, TypeOK
    <3>3. OwnAnswer(<<c, 1>>, r)
      BY <3>1, <3>2 DEF IInv, Answers, OwnAnswer, Key, Body
    <3> QED BY <2>1, <3>1, <3>2, <3>3, AttemptEnds DEF Receive
  <2>2. CASE GiveUp(c)
    BY <2>2, ErrorAnswer, AttemptEnds DEF GiveUp
  <2>3. CASE Resend(c)
    BY <2>3, ResendStep
  <2> QED BY <1>1, <2>1, <2>2, <2>3 DEF Browser
<1>2. ASSUME NEW a \in Attempts, LockRow(a)
      PROVE  IInv'
  BY <1>2, HandlerStep DEF LockRow
<1>3. CASE UNCHANGED vars
  BY <1>3 DEF vars, IInv, TypeOK, RowHeld, Unsent, Created, Answers, OwnAnswer, Started,
              OneOperationPerKey, Body, Key
<1> QED
  BY <1>1, <1>2, <1>3, ClickStep, AnswerSteps, LookupStep, CommitStep, StatusSteps
  DEF Next, Server

\* Type correctness of AiSubmit: the browser never sends an attempt too many, and
\* every answer names an operation or none.
THEOREM TypeCorrect == Spec => []TypeOK
<1>1. IInv => TypeOK
  BY DEF IInv
<1> QED BY InitIInv, StepIInv, <1>1, PTL DEF Spec

\* A key never has two operations in the table, however attempts are delayed,
\* repeated or broken off.
THEOREM KeysUnique == Spec => []OneOperationPerKey
<1>1. IInv => OneOperationPerKey
  BY DEF IInv
<1> QED BY InitIInv, StepIInv, <1>1, PTL DEF Spec

\* Two operations of one key both reach the provider only if one was cleared.
THEOREM NoSecondBill == Spec => []BilledOnce
<1>1. IInv => BilledOnce
  BY DEF IInv, BilledOnce, Started, OneOperationPerKey, TypeOK, Stored,
         ACTIVE_STATUSES, Finished
<1> QED BY InitIInv, StepIInv, <1>1, PTL DEF Spec

\* Who is told "accepted" is told of an operation of its own key and body.
THEOREM OwnOperation == Spec => []AcceptedIsOwn
<1>1. IInv => AcceptedIsOwn
  BY DEF IInv, AcceptedIsOwn, Answers, OwnAnswer, Key
<1> QED BY InitIInv, StepIInv, <1>1, PTL DEF Spec
=============================================================================
