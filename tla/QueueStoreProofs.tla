-------------------------- MODULE QueueStoreProofs --------------------------
(***************************************************************************)
(* Proofs about QueueStore for any members and tasks, any finite set of    *)
(* operations, any limit of the list and any number of logins and requests *)
(* in flight: what the page shows is of a member this browser has logged   *)
(* in, no button waits for an answer that will not come, no late poll      *)
(* hides an active operation, and completions are lost in the named cases  *)
(* only.                                                                   *)
(***************************************************************************)
EXTENDS QueueStore, FiniteSetTheorems, TLAPS

-----------------------------------------------------------------------------
(* Constants and lists *)

LEMMA Constants ==
    /\ None \notin Members /\ None \notin Ops
    /\ \A o \in Ops : TaskOf[o] \in Tasks /\ OwnerOfOp(o) \in Members
                      /\ OwnerOfOp(o) = OwnerOf[TaskOf[o]]
BY QueueStoreAssumption DEF OwnerOfOp

\* A list is a function from some operations to statuses.
LEMMA ListElim ==
    ASSUME NEW f \in Lists
    PROVE  DOMAIN f \subseteq Ops /\ \A o \in DOMAIN f : f[o] \in Statuses
BY DEF Lists

LEMMA ListIntro ==
    ASSUME NEW D \in SUBSET Ops, NEW f \in [D -> Statuses]
    PROVE  f \in Lists
BY DEF Lists

LEMMA EmptyIsList == EmptyList \in Lists /\ DOMAIN EmptyList = {}
<1>1. EmptyList \in [{} -> Statuses] /\ DOMAIN EmptyList = {}
  BY DEF EmptyList
<1> QED BY <1>1, ListIntro

\* A set of operations has a size, and a subset is not larger.
LEMMA OpsFinite ==
    ASSUME NEW S \in SUBSET Ops, NEW T \in SUBSET S
    PROVE  Cardinality(S) \in Nat /\ Cardinality(T) \in Nat /\ Cardinality(T) <= Cardinality(S)
<1>1. IsFiniteSet(Ops)
  BY QueueStoreAssumption
<1>2. IsFiniteSet(S) /\ IsFiniteSet(T)
  BY <1>1, FS_Subset
<1>3. Cardinality(T) <= Cardinality(S)
  BY <1>2, FS_Subset
<1> QED BY <1>2, <1>3, FS_CardinalityType

\* What GET /operations lists are the member's operations with their statuses, and an
\* operation it leaves out has been deleted or outlived.
LEMMA ListedIsList ==
    ASSUME TypeOK, NEW m
    PROVE  /\ Listed(m) \in Lists
           /\ \A o \in DOMAIN Listed(m) :
                 /\ o \in Ops /\ OwnerOfOp(o) = m /\ status[o] \in Statuses
                 /\ Listed(m)[o] = status[o]
           /\ \A o \in Ops : OwnerOfOp(o) = m /\ status[o] \in Statuses /\ ~Outlived(o)
                 => o \in DOMAIN Listed(m)
<1> DEFINE D == {o \in Ops : /\ OwnerOfOp(o) = m
                             /\ status[o] \in IF Recent(o) THEN Statuses ELSE Active}
<1>1. Listed(m) = [o \in D |-> status[o]]
  BY DEF Listed
<1>2. \A o \in D : o \in Ops /\ OwnerOfOp(o) = m /\ status[o] \in Statuses
  BY DEF Statuses
<1>3. Listed(m) \in [D -> Statuses]
  BY <1>1, <1>2
<1>4. Listed(m) \in Lists
  BY <1>2, <1>3, ListIntro
<1>5. ASSUME NEW o \in Ops, OwnerOfOp(o) = m, status[o] \in Statuses, ~Outlived(o)
      PROVE  o \in D
  <2>1. CASE status[o] \in Active
    BY <1>5, <2>1 DEF Statuses
  <2>2. CASE status[o] \in Ended
    <3> DEFINE kept == {p \in EndedAfter(o) : status[p] \in Ended}
    <3>1. EndedAfter(o) \in SUBSET Ops /\ kept \in SUBSET EndedAfter(o)
      BY DEF EndedAfter
    <3>2. /\ Cardinality(EndedAfter(o)) \in Nat /\ Cardinality(kept) \in Nat
          /\ Cardinality(kept) <= Cardinality(EndedAfter(o))
      BY <3>1, OpsFinite
    <3>3. Cardinality(EndedAfter(o)) < RecentLimit
      BY <1>5, <2>2, <3>2, QueueStoreAssumption DEF Outlived
    <3>4. Cardinality(kept) < RecentLimit
      BY <3>2, <3>3, QueueStoreAssumption
    <3>5. Recent(o)
      BY <3>4 DEF Recent
    <3> QED BY <1>5, <3>5
  <2> QED BY <1>5, <2>1, <2>2 DEF Statuses
<1> QED BY <1>1, <1>2, <1>4, <1>5

LEMMA OneRowIsList ==
    ASSUME NEW o \in Ops, NEW s \in Statuses
    PROVE  OneRow(o, s) \in Lists /\ DOMAIN OneRow(o, s) = {o} /\ OneRow(o, s)[o] = s
<1>1. OneRow(o, s) \in [{o} -> Statuses] /\ DOMAIN OneRow(o, s) = {o} /\ OneRow(o, s)[o] = s
  BY DEF OneRow
<1> QED BY <1>1, ListIntro

LEMMA MergedIsList ==
    ASSUME NEW f \in Lists, NEW g \in Lists
    PROVE  /\ Merged(f, g) \in Lists
           /\ DOMAIN Merged(f, g) = DOMAIN f \cup DOMAIN g
           /\ \A o \in DOMAIN f : Merged(f, g)[o] = f[o]
           /\ \A o \in DOMAIN g \ DOMAIN f : Merged(f, g)[o] = g[o]
<1>1. DOMAIN f \cup DOMAIN g \subseteq Ops
  BY ListElim
<1>2. Merged(f, g) \in [DOMAIN f \cup DOMAIN g -> Statuses]
  BY ListElim DEF Merged
<1>3. Merged(f, g) \in Lists
  BY <1>1, <1>2, ListIntro
<1> QED BY <1>3 DEF Merged

\* The row a control or a submission answers with.
LEMMA ChangedIsList ==
    ASSUME NEW q, WellFormed(q)
    PROVE  /\ Changed(q) \in Lists
           /\ q.kind \in {"submit", "retry"} =>
                q.op \in Ops /\ DOMAIN Changed(q) = {q.op} /\ Changed(q)[q.op] = "queued"
           /\ q.kind = "cancel" =>
                q.target \in Ops /\ DOMAIN Changed(q) = {q.target}
                /\ Changed(q)[q.target] = "cancelled"
           /\ q.kind \in {"poll", "clear"} => DOMAIN Changed(q) = {}
<1>1. q.kind \in {"submit", "retry"} => q.op \in Ops
  BY DEF WellFormed, RequestRow
<1>2. q.kind \in {"cancel", "retry"} => q.target \in Ops
  BY DEF WellFormed, RequestRow
<1>3. q.kind \in Kinds
  BY DEF WellFormed, RequestRow
<1>4. "queued" \in Statuses /\ "cancelled" \in Statuses
  BY DEF Statuses, Active, Ended
<1>5. CASE q.kind \in {"submit", "retry"}
  BY <1>1, <1>4, <1>5, OneRowIsList DEF Changed
<1>6. CASE q.kind = "cancel"
  BY <1>2, <1>4, <1>6, OneRowIsList DEF Changed
<1>7. CASE q.kind \in {"poll", "clear"}
  BY <1>7, EmptyIsList DEF Changed
<1> QED BY <1>3, <1>5, <1>6, <1>7 DEF Kinds

-----------------------------------------------------------------------------
(* The server: statuses only move forward *)

AnyStatus == Statuses \cup {"none", "deleted"}

Forward(s, t) ==
    \/ t = s
    \/ s = "none" /\ t = "queued"
    \/ s = "queued" /\ t \in {"running", "cancelled"}
    \/ s = "running" /\ t \in {"succeeded", "failed"}
    \/ s \in Ended /\ t = "deleted"

\* Every operation's status moves forward, and of those that are not there only the
\* ones in new come to be.
Advance(st, next, new) ==
    /\ next \in [Ops -> AnyStatus]
    /\ \A o \in Ops : Forward(st[o], next[o])
    /\ \A o \in Ops : st[o] = "none" /\ o \notin new => next[o] = "none"

\* What a list shows stays behind the server when the server moves on.
LEMMA BehindAdvance ==
    ASSUME NEW st \in [Ops -> AnyStatus], NEW next, NEW new, Advance(st, next, new),
           NEW o \in Ops, NEW s
    PROVE  /\ st[o] # "none" => next[o] # "none"
           /\ st[o] \in Ended \cup {"deleted"} => next[o] \in Ended \cup {"deleted"}
           /\ next[o] \in Statuses => st[o] \in Statuses \/ st[o] = "none"
BY DEF Advance, Forward, AnyStatus, Statuses, Active, Ended

LEMMA StatusType == TypeOK => status \in [Ops -> AnyStatus]
BY DEF TypeOK, AnyStatus

\* Clearing deletes what has ended.
LEMMA ClearedAdvances ==
    ASSUME TypeOK, NEW m, NEW new
    PROVE  Advance(status, Cleared(m), new)
<1>1. status \in [Ops -> AnyStatus]
  BY StatusType
<1>2. Cleared(m) = [o \in Ops |-> IF OwnerOfOp(o) = m /\ status[o] \in Ended THEN "deleted"
                                  ELSE status[o]]
  BY DEF Cleared
<1>3. Cleared(m) \in [Ops -> AnyStatus]
  BY <1>1, <1>2 DEF AnyStatus
<1>4. \A o \in Ops : Forward(status[o], Cleared(m)[o])
                      /\ (status[o] = "none" => Cleared(m)[o] = "none")
  BY <1>2 DEF Forward, Ended
<1> QED BY <1>3, <1>4 DEF Advance

\* What the server does with a request that waits.
LEMMA ServedAdvances ==
    ASSUME TypeOK, NEW q, WellFormed(q), Unserved(q), q.answer = "waiting", Granted(q)
    PROVE  Advance(status, Served(q), {q.op})
<1>1. status \in [Ops -> AnyStatus]
  BY StatusType
<1>2. q.kind \in Kinds
  BY DEF WellFormed, RequestRow
<1>3. CASE q.kind = "clear"
  BY <1>3, ClearedAdvances DEF Served
<1>4. CASE q.kind = "poll"
  <2>1. Served(q) = [o \in Ops |-> status[o]]
    BY <1>1, <1>4, ChangedIsList DEF Served, Merged
  <2> QED BY <1>1, <2>1 DEF Advance, Forward
<1>5. CASE q.kind \in {"submit", "retry"}
  <2>1. q.op \in Ops /\ DOMAIN Changed(q) = {q.op} /\ Changed(q)[q.op] = "queued"
    BY <1>5, ChangedIsList
  <2>2. Served(q) = [o \in Ops |-> IF o = q.op THEN "queued" ELSE status[o]]
    BY <1>1, <1>5, <2>1 DEF Served, Merged
  <2>3. status[q.op] = "none"
    BY <2>1, Constants DEF Unserved
  <2> QED BY <1>1, <2>1, <2>2, <2>3 DEF Advance, Forward, AnyStatus, Statuses, Active
<1>6. CASE q.kind = "cancel"
  <2>1. q.target \in Ops /\ DOMAIN Changed(q) = {q.target} /\ Changed(q)[q.target] = "cancelled"
    BY <1>6, ChangedIsList
  <2>2. Served(q) = [o \in Ops |-> IF o = q.target THEN "cancelled" ELSE status[o]]
    BY <1>1, <1>6, <2>1 DEF Served, Merged
  <2>3. status[q.target] = "queued"
    BY <1>6 DEF Granted
  <2> QED BY <1>1, <2>1, <2>2, <2>3 DEF Advance, Forward, AnyStatus, Statuses, Ended
<1> QED BY <1>2, <1>3, <1>4, <1>5, <1>6 DEF Kinds

\* The table moves on, the order of ends is kept, and what the list leaves out it
\* never shows again.
Moves(new) ==
    /\ Advance(status, status', new)
    /\ endedAt' \in [Ops -> Nat] /\ Stamped'
    /\ \A o \in Ops : Outlived(o) => Outlived(o)' \/ status'[o] = "deleted"

LEMMA BecomesMoves ==
    ASSUME TypeOK, Stamped, NEW next, NEW new, Advance(status, next, new), Becomes(next)
    PROVE  Moves(new)
<1>1. status \in [Ops -> AnyStatus] /\ endedAt \in [Ops -> Nat]
  BY StatusType DEF TypeOK
<1>2. status' = next
  BY DEF Becomes
<1>3. PICK n \in Nat : endedAt' = [o \in Ops |->
        IF status[o] \in Active /\ next[o] \in Ended THEN n ELSE endedAt[o]]
  <2> DEFINE ended == {p \in Ops : endedAt[p] > 0}
  <2>1. Cardinality(ended) \in Nat
    BY OpsFinite
  <2> QED BY <2>1 DEF Becomes
<1>4. endedAt' \in [Ops -> Nat]
  BY <1>1, <1>3
<1>5. \A o \in Ops : Forward(status[o], next[o])
  BY DEF Advance
<1>6. \A o \in Ops : status[o] \in Ended \cup {"deleted"} =>
         endedAt'[o] = endedAt[o] /\ next[o] \in Ended \cup {"deleted"}
  BY <1>3, <1>5 DEF Forward, Active, Ended
<1>7. Stamped'
  <2> SUFFICES ASSUME NEW o \in Ops, endedAt'[o] # 0
               PROVE  next[o] \in Ended \cup {"deleted"}
    BY <1>2 DEF Stamped
  <2>1. CASE status[o] \in Active /\ next[o] \in Ended
    BY <2>1
  <2>2. CASE ~(status[o] \in Active /\ next[o] \in Ended)
    <3>1. endedAt[o] # 0
      BY <1>3, <2>2
    <3>2. status[o] \in Ended \cup {"deleted"}
      BY <3>1 DEF Stamped
    <3> QED BY <1>6, <3>2
  <2> QED BY <2>1, <2>2
<1>8. ASSUME NEW o \in Ops, Outlived(o), next[o] # "deleted"
      PROVE  Outlived(o)'
  <2>1. status[o] \in Ended /\ endedAt'[o] = endedAt[o] /\ next[o] \in Ended
    BY <1>6, <1>8 DEF Outlived
  <2>2. ASSUME NEW p \in EndedAfter(o) PROVE p \in EndedAfter(o)'
    <3>1. p \in Ops /\ OwnerOfOp(p) = OwnerOfOp(o) /\ endedAt[p] > endedAt[o]
      BY <2>2 DEF EndedAfter
    <3>2. endedAt[p] # 0
      BY <1>1, <3>1
    <3>3. endedAt'[p] = endedAt[p]
      BY <1>6, <3>1, <3>2 DEF Stamped
    <3> QED BY <2>1, <3>1, <3>3 DEF EndedAfter, OwnerOfOp
  <2> PICK S \in SUBSET Ops : S = EndedAfter(o)'
    BY DEF EndedAfter
  <2> PICK T \in SUBSET S : T = EndedAfter(o)
    BY <2>2
  <2>3. Cardinality(S) \in Nat /\ Cardinality(T) \in Nat /\ Cardinality(T) <= Cardinality(S)
    BY OpsFinite
  <2>4. Cardinality(T) >= RecentLimit
    BY <1>8 DEF Outlived
  <2>5. Cardinality(S) >= RecentLimit
    BY <2>3, <2>4, QueueStoreAssumption
  <2> QED BY <1>2, <2>1, <2>5 DEF Outlived
<1> QED BY <1>2, <1>4, <1>7, <1>8 DEF Moves

\* A table that stays as it is.
LEMMA StaysOutlived ==
    ASSUME UNCHANGED <<status, endedAt>>, NEW o
    PROVE  Outlived(o)' <=> Outlived(o)
<1>1. EndedAfter(o)' = EndedAfter(o)
  BY DEF EndedAfter, OwnerOfOp
<1> QED BY <1>1 DEF Outlived

LEMMA StaysMoves ==
    ASSUME TypeOK, Stamped, UNCHANGED <<status, endedAt>>, NEW new
    PROVE  Moves(new)
<1>1. Advance(status, status', new)
  BY StatusType DEF Advance, Forward
<1>2. endedAt' \in [Ops -> Nat] /\ Stamped'
  BY DEF TypeOK, Stamped
<1>3. \A o : Outlived(o)' <=> Outlived(o)
  BY StaysOutlived
<1> QED BY <1>1, <1>2, <1>3 DEF Moves

\* The worker's steps create no operation.
LEMMA WorkerMoves ==
    ASSUME TypeOK, Stamped, NEW o \in Ops, Start(o) \/ Finish(o)
    PROVE  Moves({})
<1>1. status \in [Ops -> AnyStatus]
  BY StatusType
<1>2. PICK s : /\ Becomes([status EXCEPT ![o] = s])
               /\ \/ status[o] = "queued" /\ s = "running"
                  \/ status[o] = "running" /\ s \in {"succeeded", "failed"}
  BY DEF Start, Finish
<1>3. Advance(status, [status EXCEPT ![o] = s], {})
  BY <1>1, <1>2 DEF Advance, Forward, AnyStatus, Statuses, Active, Ended
<1> QED BY <1>2, <1>3, BecomesMoves

-----------------------------------------------------------------------------
(* The invariant, taken apart into the store's own state and its requests *)

Store ==
    /\ status \in [Ops -> AnyStatus]
    /\ endedAt \in [Ops -> Nat]
    /\ expired \subseteq 1 .. MaxLogins
    /\ logins \in 0 .. MaxLogins
    /\ stored \in [login : 0 .. logins, member : Members \cup {None}]
    /\ owner \in Members \cup {None} /\ foreign \subseteq Members
    /\ generation \in Nat /\ revision \in Nat
    /\ items \in Lists
    /\ updates \subseteq Tasks
    /\ actionId \in Ops \cup {"history", None}
    /\ OwnItems /\ Behind(items) /\ Stamped /\ TokenKnown

Sound(q) ==
    /\ WellFormed(q)
    /\ q.login \in 0 .. logins /\ q.run <= generation /\ q.version <= revision
    /\ Behind(q.rows) /\ Unserved(q) /\ OfLogin(q) /\ Complete(q)

LEMMA RequestTyped ==
    ASSUME NEW q, WellFormed(q)
    PROVE  /\ q.kind \in Kinds /\ q.target \in Ops \cup {None} /\ q.op \in Ops \cup {None}
           /\ q.login \in Nat /\ q.member \in Members \cup {None} /\ q.run \in Nat /\ q.version \in Nat
           /\ q.answer \in {"waiting", "ok", "error", "unauthorized"}
           /\ q.rows \in Lists
BY DEF WellFormed, RequestRow

LEMMA Apart ==
    ASSUME IInv
    PROVE  /\ Store /\ ButtonHasRequest
           /\ \A q \in requests : Sound(q)
           /\ \A q, r \in requests : Distinct(q, r)
           /\ TypeOK
<1>1. /\ TypeOK /\ OwnItems /\ ButtonHasRequest /\ Behind(items) /\ Stamped /\ TokenKnown
      /\ \A q, r \in requests : Distinct(q, r)
  BY DEF IInv
<1>2. Store
  BY <1>1 DEF Store, TypeOK, AnyStatus
<1>3. ASSUME NEW q \in requests PROVE Sound(q)
  <2>1. WellFormed(q) /\ Behind(q.rows) /\ Unserved(q) /\ OfLogin(q) /\ Complete(q)
    BY DEF IInv
  <2>2. q.login \in 0 .. logins /\ q.run <= generation /\ q.version <= revision
    BY <1>1 DEF TypeOK
  <2> QED BY <2>1, <2>2 DEF Sound
<1> QED BY <1>1, <1>2, <1>3

LEMMA Together ==
    ASSUME Store', ButtonHasRequest',
           \A q \in requests' : Sound(q)',
           \A q, r \in requests' : Distinct(q, r)'
    PROVE  IInv'
<1>1. \A q \in requests' : WellFormed(q)'
  BY DEF Sound
<1>2. ASSUME NEW q \in requests'
      PROVE  /\ q.kind \in Kinds /\ q.target \in Ops \cup {None} /\ q.op \in Ops \cup {None}
             /\ q.member \in Members \cup {None}
             /\ q.answer \in {"waiting", "ok", "error", "unauthorized"}
             /\ q.rows \in Lists
             /\ q.login \in 0 .. logins' /\ q.run <= generation' /\ q.version <= revision'
  <2>1. Sound(q)'
    BY <1>2
  <2> QED BY <2>1 DEF Sound, WellFormed, RequestRow
<1>3. TypeOK'
  BY <1>2 DEF Store, TypeOK, AnyStatus
<1>4. OwnItems' /\ Behind(items)' /\ Stamped' /\ TokenKnown'
  BY DEF Store
<1>5. \A q \in requests' : (WellFormed(q) /\ Behind(q.rows) /\ Unserved(q) /\ OfLogin(q) /\ Complete(q))'
  BY DEF Sound
<1> QED BY <1>3, <1>4, <1>5 DEF IInv

\* What makes a request well formed does not change with the state.
LEMMA WellFormedRigid == ASSUME NEW q PROVE WellFormed(q)' <=> WellFormed(q)
BY DEF WellFormed, OwnerOfOp

\* The store's state but for the buttons and the requests stays as it is.
Still == UNCHANGED <<status, endedAt, expired, logins, stored, owner, foreign,
                     generation, revision, items, updates>>

LEMMA StillKeeps ==
    ASSUME Store, Still
    PROVE  /\ \A q : Sound(q)' <=> Sound(q)
           /\ \A q, r : Distinct(q, r)' <=> Distinct(q, r)
           /\ actionId' \in Ops \cup {"history", None} => Store'
<1> USE DEF Still
<1>0. \A o : Outlived(o)' <=> Outlived(o)
  BY StaysOutlived
<1>1. ASSUME NEW q PROVE Sound(q)' <=> Sound(q)
  BY <1>0, WellFormedRigid DEF OwnerOfOp, Sound, Behind, Unserved, OfLogin, Complete, Current, Applies
<1>2. ASSUME NEW q, NEW r PROVE Distinct(q, r)' <=> Distinct(q, r)
  BY DEF Distinct, Current
<1>3. actionId' \in Ops \cup {"history", None} => Store'
  BY DEF Store, OwnItems, Behind, OwnerOfOp, Stamped, TokenKnown
<1> QED BY <1>1, <1>2, <1>3

-----------------------------------------------------------------------------
(* Requests sent *)

Buttons == {"cancel", "retry", "clear"}
Pressed(q) == IF q.kind = "clear" THEN "history" ELSE q.target

\* A new request has the fields it was given and those it captures.
LEMMA RequestFields ==
    ASSUME Store, NEW kind \in Kinds, NEW t \in Ops \cup {None},
           NEW o \in Ops \cup {None}, NEW q, q = Request(kind, t, o)
    PROVE  /\ q \in RequestRow
           /\ q.kind = kind /\ q.target = t /\ q.op = o /\ q.login \in 0 .. logins
           /\ q.member = stored.member /\ q.run = generation /\ q.version <= revision
           /\ q.answer = "waiting" /\ q.rows = EmptyList
<1>1. /\ stored.member \in Members \cup {None} /\ stored.login \in 0 .. logins
      /\ generation \in Nat /\ revision \in Nat /\ logins \in Nat
  BY DEF Store
<1>2. EmptyList \in Lists
  BY EmptyIsList
<1> QED BY <1>1, <1>2 DEF Request, RequestRow

LEMMA SendStep ==
    ASSUME IInv, Still, owner # None,
           NEW kind \in Kinds, NEW t \in Ops \cup {None}, NEW o \in Ops \cup {None},
           NEW q, q = Request(kind, t, o), requests' = requests \cup {q},
           kind \in {"submit", "retry"} => o # None,
           kind \in {"cancel", "retry"} => t # None,
           kind = "retry" => TaskOf[o] = TaskOf[t],
           o # None => Fresh(o),
           kind = "poll" => \A r \in requests : ~(r.kind = "poll" /\ r.run = generation),
           actionId' = IF kind \in Buttons THEN Pressed(q) ELSE actionId
    PROVE  IInv'
<1>1. /\ Store /\ ButtonHasRequest
      /\ \A r \in requests : Sound(r)
      /\ \A r, s \in requests : Distinct(r, s)
  BY Apart
<1>2. /\ q \in RequestRow
      /\ q.kind = kind /\ q.target = t /\ q.op = o /\ q.login \in 0 .. logins
      /\ q.member = stored.member /\ q.run = generation /\ q.version <= revision
      /\ q.answer = "waiting" /\ q.rows = EmptyList
  BY <1>1, RequestFields
<1>3. Sound(q)
  <2>1. WellFormed(q)
    BY <1>2, EmptyIsList DEF WellFormed
  <2>2. Behind(q.rows)
    BY <1>2, EmptyIsList DEF Behind
  <2>3. Unserved(q) /\ OfLogin(q) /\ Complete(q)
    BY <1>1, <1>2 DEF Unserved, Fresh, OfLogin, Complete, Store, TokenKnown
  <2>4. q.login \in 0 .. logins /\ q.run <= generation
    BY <1>1, <1>2 DEF Store
  <2> QED BY <1>2, <2>1, <2>2, <2>3, <2>4 DEF Sound
<1>4. ASSUME NEW r \in requests PROVE Distinct(q, r) /\ Distinct(r, q)
  BY <1>2 DEF Distinct, Fresh, Current
<1>5. \A r \in requests' : Sound(r)'
  BY <1>1, <1>3, StillKeeps
<1>6. \A r, s \in requests' : Distinct(r, s)
  BY <1>1, <1>4 DEF Distinct
<1>7. \A r, s \in requests' : Distinct(r, s)'
  BY <1>1, <1>6, StillKeeps
<1>8. actionId' \in Ops \cup {"history", None}
  BY <1>1, <1>2 DEF Store, Pressed
<1>9. Store'
  BY <1>1, <1>8, StillKeeps
<1>10. ButtonHasRequest'
  <2>1. CASE kind \in Buttons
    <3>1. /\ q \in requests' /\ q.kind \in {"cancel", "retry", "clear"}
          /\ q.run = generation'
          /\ actionId' = IF q.kind = "clear" THEN "history" ELSE q.target
      BY <1>2, <2>1 DEF Buttons, Pressed, Still
    <3> QED BY <3>1 DEF ButtonHasRequest
  <2>2. CASE kind \notin Buttons
    BY <1>1, <2>2 DEF ButtonHasRequest, Still
  <2> QED BY <2>1, <2>2
<1> QED BY <1>5, <1>7, <1>9, <1>10, Together

LEMMA PollStep == IInv /\ Poll => IInv'
<1> SUFFICES ASSUME IInv, Poll PROVE IInv' OBVIOUS
<1> DEFINE q == Request("poll", None, None)
<1>1. /\ Still /\ owner # None /\ requests' = requests \cup {q}
      /\ \A r \in requests : ~(r.kind = "poll" /\ r.run = generation)
      /\ actionId' = actionId
  BY DEF Poll, PollRequest, Still, serverVars, sessionVars, listVars
<1>2. "poll" \in Kinds /\ "poll" \notin Buttons
  BY DEF Kinds, Buttons
<1> HIDE DEF q
<1>3. q = Request("poll", None, None)
  BY DEF q
<1> QED BY <1>1, <1>2, <1>3, SendStep

LEMMA SubmitStep == ASSUME IInv, NEW o \in Ops, Submit(o) PROVE IInv'
<1> DEFINE q == Request("submit", None, o)
<1>1. /\ Still /\ requests' = requests \cup {q} /\ owner # None /\ Fresh(o)
      /\ actionId' = actionId
  BY DEF Submit, Still, serverVars, sessionVars, listVars
<1>2. "submit" \in Kinds /\ "submit" \notin Buttons
  BY DEF Kinds, Buttons
<1>3. o # None
  BY Constants
<1> HIDE DEF q
<1>4. q = Request("submit", None, o)
  BY DEF q
<1> QED BY <1>1, <1>2, <1>3, <1>4, SendStep

LEMMA CancelStep == ASSUME IInv, NEW o \in Ops, Cancel(o) PROVE IInv'
<1> DEFINE q == Request("cancel", o, None)
<1>1. Still /\ requests' = requests \cup {q} /\ actionId' = o /\ owner # None /\ o \in DOMAIN items
  BY DEF Cancel, Control, Still, serverVars, sessionVars, listVars
<1>2. "cancel" \in Kinds /\ "cancel" \in Buttons
  BY DEF Kinds, Buttons
<1>3. o # None
  BY Constants
<1>4. q.kind = "cancel" /\ q.target = o
  BY DEF Request
<1> HIDE DEF q
<1>5. q = Request("cancel", o, None)
  BY DEF q
<1> QED BY <1>1, <1>2, <1>3, <1>4, <1>5, SendStep DEF Pressed

LEMMA RetryStep == ASSUME IInv, NEW o \in Ops, NEW new \in Ops, Retry(o, new) PROVE IInv'
<1> DEFINE q == Request("retry", o, new)
<1>1. /\ Still /\ requests' = requests \cup {q} /\ actionId' = o /\ owner # None
      /\ o \in DOMAIN items /\ Fresh(new) /\ TaskOf[new] = TaskOf[o]
  BY DEF Retry, Control, Still, serverVars, sessionVars, listVars
<1>2. "retry" \in Kinds /\ "retry" \in Buttons
  BY DEF Kinds, Buttons
<1>3. o # None /\ new # None
  BY Constants
<1>4. q.kind = "retry" /\ q.target = o
  BY DEF Request
<1> HIDE DEF q
<1>5. q = Request("retry", o, new)
  BY DEF q
<1> QED BY <1>1, <1>2, <1>3, <1>4, <1>5, SendStep DEF Pressed

LEMMA ClearStep == IInv /\ Clear => IInv'
<1> SUFFICES ASSUME IInv, Clear PROVE IInv' OBVIOUS
<1> DEFINE q == Request("clear", None, None)
<1>1. Still /\ requests' = requests \cup {q} /\ actionId' = "history" /\ owner # None
  BY DEF Clear, Still, serverVars, sessionVars, listVars
<1>2. "clear" \in Kinds /\ "clear" \in Buttons
  BY DEF Kinds, Buttons
<1>3. q.kind = "clear"
  BY DEF Request
<1> HIDE DEF q
<1>4. q = Request("clear", None, None)
  BY DEF q
<1> QED BY <1>1, <1>2, <1>3, <1>4, SendStep DEF Pressed

-----------------------------------------------------------------------------
(* The server and the worker *)

\* Everything but the server's table and the requests stays as it is.
PageStill == UNCHANGED <<logins, stored, owner, foreign, generation, revision, items,
                         updates, actionId>>

\* A request keeps its guarantees when the server moves on, unless it was the one to
\* create what the server has created.
LEMMA SoundAdvance ==
    ASSUME Store, PageStill, NEW new, Moves(new),
           NEW q, Sound(q),
           q.answer = "waiting" /\ q.op # None => q.op \notin new
    PROVE  Sound(q)'
<1>1. /\ WellFormed(q)
      /\ q.login \in 0 .. logins /\ q.run <= generation /\ q.version <= revision
      /\ Behind(q.rows) /\ Unserved(q) /\ OfLogin(q) /\ Complete(q)
  BY DEF Sound
<1>2. WellFormed(q)'
  BY <1>1, WellFormedRigid
<1>3. status \in [Ops -> AnyStatus] /\ DOMAIN items \subseteq Ops /\ DOMAIN q.rows \subseteq Ops
  BY <1>1, RequestTyped, ListElim DEF Store
<1>a. Advance(status, status', new)
  BY DEF Moves
<1>4. Behind(q.rows)'
  BY <1>1, <1>3, <1>a, BehindAdvance DEF Behind
<1>5. Unserved(q)'
  BY <1>1, <1>a, RequestTyped DEF Unserved, Advance
<1>6. OfLogin(q)'
  BY <1>1 DEF OfLogin, Current, PageStill
<1>7. Complete(q)'
  <2> SUFFICES ASSUME q.kind = "poll", q.answer = "ok", Applies(q),
                      NEW o \in DOMAIN items, OwnerOfOp(o) = q.member,
                      status'[o] \in Statuses, ~Outlived(o)'
               PROVE  o \in DOMAIN q.rows
    BY DEF Complete, Applies, PageStill, OwnerOfOp
  <2>1. status[o] \in Statuses \/ status[o] = "none"
    BY <1>3, <1>a, BehindAdvance
  <2>2. status[o] # "none"
    BY DEF Store, Behind
  <2>3. ~Outlived(o)
    BY <1>3 DEF Moves, Statuses, Active, Ended
  <2> QED BY <1>1, <2>1, <2>2, <2>3 DEF Complete
<1> QED BY <1>1, <1>2, <1>4, <1>5, <1>6, <1>7 DEF Sound, PageStill

LEMMA StoreAdvance ==
    ASSUME Store, PageStill, NEW new, Moves(new),
           expired' \subseteq 1 .. MaxLogins
    PROVE  Store'
<1>1. Advance(status, status', new) /\ endedAt' \in [Ops -> Nat] /\ Stamped'
  BY DEF Moves
<1>2. status' \in [Ops -> AnyStatus]
  BY <1>1 DEF Advance
<1>3. status \in [Ops -> AnyStatus] /\ DOMAIN items \subseteq Ops
  BY ListElim DEF Store
<1>4. Behind(items)'
  BY <1>1, <1>3, BehindAdvance DEF Store, Behind, PageStill
<1>5. OwnItems' /\ TokenKnown'
  BY DEF Store, OwnItems, TokenKnown, OwnerOfOp, PageStill
<1> QED BY <1>1, <1>2, <1>4, <1>5 DEF Store, PageStill

LEMMA DistinctStill ==
    ASSUME generation' = generation, NEW q, NEW r
    PROVE  Distinct(q, r)' <=> Distinct(q, r)
BY DEF Distinct, Current

\* The worker starts or ends an operation, or a token expires.
LEMMA BackgroundStep ==
    ASSUME IInv, \/ \E o \in Ops : Start(o) \/ Finish(o)
                 \/ \E n \in 1 .. MaxLogins : Expire(n)
    PROVE  IInv'
<1>1. /\ Store /\ ButtonHasRequest
      /\ \A r \in requests : Sound(r)
      /\ \A r, s \in requests : Distinct(r, s)
      /\ TypeOK
  BY Apart
<1>2. PageStill /\ requests' = requests /\ expired' \subseteq 1 .. MaxLogins
  BY <1>1 DEF Start, Finish, Expire, PageStill, Store, sessionVars, listVars
<1>3. Moves({})
  <2>0. Stamped
    BY <1>1 DEF Store
  <2>1. CASE \E o \in Ops : Start(o) \/ Finish(o)
    BY <1>1, <2>0, <2>1, WorkerMoves
  <2>2. CASE \E n \in 1 .. MaxLogins : Expire(n)
    <3>1. UNCHANGED <<status, endedAt>>
      BY <2>2 DEF Expire
    <3> QED BY <1>1, <2>0, <3>1, StaysMoves
  <2> QED BY <2>1, <2>2
<1>4. Store'
  BY <1>1, <1>2, <1>3, StoreAdvance
<1>5. \A r \in requests' : Sound(r)'
  BY <1>1, <1>2, <1>3, SoundAdvance
<1>6. \A r, s \in requests' : Distinct(r, s)'
  BY <1>1, <1>2, DistinctStill DEF PageStill
<1>7. ButtonHasRequest'
  BY <1>1, <1>2 DEF ButtonHasRequest, PageStill
<1> QED BY <1>4, <1>5, <1>6, <1>7, Together

\* A step taken in another tab or on another device.
LEMMA ElsewhereStep == ASSUME IInv, Elsewhere PROVE IInv'
<1>1. /\ Store /\ ButtonHasRequest
      /\ \A r \in requests : Sound(r)
      /\ \A r, s \in requests : Distinct(r, s)
      /\ TypeOK /\ Stamped /\ status \in [Ops -> AnyStatus]
  BY Apart DEF Store
<1>2. PageStill /\ requests' = requests /\ expired' = expired
  BY DEF Elsewhere, PageStill, sessionVars, listVars
<1>3. PICK new : Moves(new) /\ \A r \in requests : r.op # None => r.op \notin new
  <2>1. ASSUME NEW o \in Ops, Fresh(o), Becomes([status EXCEPT ![o] = "queued"])
        PROVE  Moves({o}) /\ \A r \in requests : r.op # None => r.op \notin {o}
    <3>1. Advance(status, [status EXCEPT ![o] = "queued"], {o})
      BY <1>1, <2>1 DEF Fresh, Advance, Forward, AnyStatus, Statuses, Active
    <3> QED BY <1>1, <2>1, <3>1, BecomesMoves DEF Fresh
  <2>2. ASSUME NEW o \in Ops, status[o] = "queued", Becomes([status EXCEPT ![o] = "cancelled"])
        PROVE  Moves({}) /\ \A r \in requests : r.op # None => r.op \notin {}
    <3>1. Advance(status, [status EXCEPT ![o] = "cancelled"], {})
      BY <1>1, <2>2 DEF Advance, Forward, AnyStatus, Statuses, Ended
    <3> QED BY <1>1, <2>2, <3>1, BecomesMoves
  <2>3. ASSUME NEW m \in Members, Becomes(Cleared(m))
        PROVE  Moves({}) /\ \A r \in requests : r.op # None => r.op \notin {}
    BY <1>1, <2>3, ClearedAdvances, BecomesMoves
  <2> DEFINE Kept(new) == Moves(new) /\ \A r \in requests : r.op # None => r.op \notin new
  <2> HIDE DEF Kept
  <2>4. CASE \E o \in Ops : /\ Fresh(o) /\ ~TaskBusy(TaskOf[o])
                           /\ Becomes([status EXCEPT ![o] = "queued"])
    <3>1. PICK o \in Ops : Kept({o})
      BY <2>1, <2>4 DEF Kept
    <3> QED BY <3>1 DEF Kept
  <2>5. CASE \/ \E o \in Ops : /\ status[o] = "queued"
                              /\ Becomes([status EXCEPT ![o] = "cancelled"])
             \/ \E m \in Members : Becomes(Cleared(m))
    <3>1. Kept({})
      BY <2>2, <2>3, <2>5 DEF Kept
    <3> QED BY <3>1 DEF Kept
  <2> QED BY <2>4, <2>5 DEF Elsewhere
<1>4. Store'
  BY <1>1, <1>2, <1>3, StoreAdvance DEF Store
<1>5. \A r \in requests' : Sound(r)'
  BY <1>1, <1>2, <1>3, SoundAdvance
<1>6. \A r, s \in requests' : Distinct(r, s)'
  BY <1>1, <1>2, DistinctStill DEF PageStill
<1>7. ButtonHasRequest'
  BY <1>1, <1>2 DEF ButtonHasRequest, PageStill
<1> QED BY <1>4, <1>5, <1>6, <1>7, Together

\* The rows of an answer are the sender's.
LEMMA AnswerOwned ==
    ASSUME TypeOK, NEW q, WellFormed(q), Granted(q)
    PROVE  \A o \in DOMAIN Listed(q.member) \cup DOMAIN Changed(q) : OwnerOfOp(o) = q.member
<1>1. \A o \in DOMAIN Listed(q.member) : OwnerOfOp(o) = q.member
  BY ListedIsList
<1>2. \A o \in DOMAIN Changed(q) : OwnerOfOp(o) = q.member
  <2>1. q.kind \in Kinds
    BY RequestTyped
  <2>2. CASE q.kind \in {"submit", "retry"}
    <3>1. DOMAIN Changed(q) = {q.op}
      BY <2>2, ChangedIsList
    <3>2. OwnerOfOp(q.op) = q.member
      BY <2>2 DEF WellFormed, Granted, OwnerOfOp
    <3> QED BY <3>1, <3>2
  <2>3. CASE q.kind = "cancel"
    <3>1. DOMAIN Changed(q) = {q.target}
      BY <2>3, ChangedIsList
    <3>2. OwnerOfOp(q.target) = q.member
      BY <2>3 DEF Granted
    <3> QED BY <3>1, <3>2
  <2>4. CASE q.kind \in {"poll", "clear"}
    BY <2>4, ChangedIsList
  <2> QED BY <2>1, <2>2, <2>3, <2>4 DEF Kinds
<1> QED BY <1>1, <1>2

\* The table holds the row it has just answered with.
LEMMA ServedShowsChange ==
    ASSUME TypeOK, NEW q, WellFormed(q), NEW o \in DOMAIN Changed(q)
    PROVE  o \in Ops /\ Served(q)[o] = Changed(q)[o] /\ Changed(q)[o] \in {"queued", "cancelled"}
<1>1. q.kind \in {"submit", "retry", "cancel"} /\ o \in Ops
      /\ Changed(q)[o] \in {"queued", "cancelled"}
  <2>1. q.kind \in {"submit", "retry"} \/ q.kind = "cancel" \/ q.kind \in {"poll", "clear"}
    BY RequestTyped DEF Kinds
  <2>2. CASE q.kind \in {"submit", "retry"}
    BY <2>2, ChangedIsList
  <2>3. CASE q.kind = "cancel"
    BY <2>3, ChangedIsList
  <2>4. CASE q.kind \in {"poll", "clear"}
    BY <2>4, ChangedIsList
  <2> QED BY <2>1, <2>2, <2>3, <2>4
<1>2. Served(q) = Merged(Changed(q), status)
  BY <1>1 DEF Served
<1> QED BY <1>1, <1>2 DEF Merged

\* The guarantees of the answer to a served request.
LEMMA AnswerSound ==
    ASSUME Store, TypeOK, PageStill, NEW q, Sound(q), q.answer = "waiting",
           NEW rows, NEW answer, NEW r, r = [q EXCEPT !.answer = answer, !.rows = rows],
           Moves({q.op}),
           \/ answer \in {"unauthorized", "error"} /\ rows = EmptyList
           \/ /\ answer = "ok" /\ status' = Served(q) /\ Granted(q)
              /\ rows = IF q.kind = "poll" THEN Listed(q.member) ELSE Changed(q)
    PROVE  Sound(r)'
<1>1. /\ WellFormed(q)
      /\ q.login \in 0 .. logins /\ q.run <= generation /\ q.version <= revision /\ OfLogin(q)
  BY DEF Sound
<1>a. Advance(status, status', {q.op})
  BY DEF Moves
<1>2. rows \in Lists /\ \A o \in DOMAIN rows : OwnerOfOp(o) = q.member
  BY <1>1, EmptyIsList, ListedIsList, ChangedIsList, AnswerOwned
<1>3. /\ r \in RequestRow
      /\ r.kind = q.kind /\ r.target = q.target /\ r.op = q.op /\ r.login = q.login
      /\ r.member = q.member /\ r.run = q.run /\ r.version = q.version
      /\ r.answer = answer /\ r.rows = rows
  <2>1. answer \in {"waiting", "ok", "error", "unauthorized"}
    OBVIOUS
  <2>2. q \in RequestRow
    BY <1>1 DEF WellFormed
  <2> QED BY <1>2, <2>1, <2>2 DEF RequestRow
<1>4. WellFormed(r)
  BY <1>1, <1>2, <1>3 DEF WellFormed
<1>5. Behind(r.rows)'
  <2> SUFFICES ASSUME NEW o \in DOMAIN rows
               PROVE  /\ status'[o] # "none"
                      /\ rows[o] \in Ended => status'[o] \in Ended \cup {"deleted"}
    BY <1>3 DEF Behind
  <2>1. answer = "ok"
    BY EmptyIsList
  <2>2. CASE q.kind = "poll"
    <3>0. rows = Listed(q.member)
      BY <2>1, <2>2
    <3>1. o \in Ops /\ status[o] \in Statuses /\ rows[o] = status[o]
      BY <3>0, ListedIsList
    <3>2. status[o] # "none"
      BY <3>1 DEF Statuses, Active, Ended
    <3> QED BY <1>a, <3>1, <3>2, StatusType, BehindAdvance
  <2>3. CASE q.kind # "poll"
    <3>1. rows = Changed(q) /\ status' = Served(q)
      BY <2>1, <2>3
    <3>2. status'[o] = rows[o] /\ rows[o] \in {"queued", "cancelled"}
      BY <1>1, <3>1, ServedShowsChange
    <3> QED BY <3>2 DEF Ended
  <2> QED BY <2>2, <2>3
<1>6. Unserved(r)'
  BY <1>3 DEF Unserved
<1>7. OfLogin(r)'
  BY <1>1, <1>3 DEF OfLogin, Current, PageStill
<1>8. Complete(r)'
  <2> SUFFICES ASSUME q.kind = "poll", answer = "ok", NEW o \in DOMAIN items,
                      OwnerOfOp(o) = q.member, status'[o] \in Statuses, ~Outlived(o)'
               PROVE  o \in DOMAIN rows
    BY <1>3 DEF Complete, Applies, PageStill, OwnerOfOp
  <2>1. o \in Ops /\ status[o] # "none"
    BY ListElim DEF Store, Behind
  <2>2. status[o] \in Statuses
    BY <1>a, <2>1, StatusType, BehindAdvance
  <2>3. ~Outlived(o)
    BY <2>1 DEF Moves, Statuses, Active, Ended
  <2>4. rows = Listed(q.member)
    OBVIOUS
  <2> QED BY <2>1, <2>2, <2>3, <2>4, ListedIsList
<1> QED BY <1>1, <1>3, <1>4, <1>5, <1>6, <1>7, <1>8, WellFormedRigid DEF Sound, PageStill

LEMMA ServeStep == ASSUME IInv, NEW q \in requests, Serve(q) PROVE IInv'
<1>1. /\ Store /\ ButtonHasRequest
      /\ \A r \in requests : Sound(r)
      /\ \A r, s \in requests : Distinct(r, s)
      /\ TypeOK
  BY Apart
<1>2. PageStill /\ expired' = expired /\ q.answer = "waiting"
  BY DEF Serve, PageStill, sessionVars, listVars
<1>3. PICK rows, answer :
        /\ Answered(q, answer, rows)
        /\ \/ /\ answer \in {"unauthorized", "error"} /\ rows = EmptyList
              /\ UNCHANGED <<status, endedAt>>
           \/ /\ answer = "ok" /\ Becomes(Served(q)) /\ Granted(q)
              /\ rows = IF q.kind = "poll" THEN Listed(q.member) ELSE Changed(q)
  BY DEF Serve
<1>4. PICK p : p = [q EXCEPT !.answer = answer, !.rows = rows]
  OBVIOUS
<1>5. requests' = (requests \ {q}) \cup {p}
  BY <1>3, <1>4 DEF Answered
<1>6. Moves({q.op})
  <2>0. Stamped
    BY <1>1 DEF Store
  <2>1. CASE UNCHANGED <<status, endedAt>>
    BY <1>1, <2>0, <2>1, StaysMoves
  <2>2. CASE Granted(q) /\ Becomes(Served(q))
    <3>1. Advance(status, Served(q), {q.op})
      BY <1>1, <1>2, <2>2, ServedAdvances DEF Sound
    <3> QED BY <1>1, <2>0, <2>2, <3>1, BecomesMoves
  <2> QED BY <1>3, <2>1, <2>2
<1>7. Store'
  BY <1>1, <1>2, <1>6, StoreAdvance DEF Store
<1>8. Sound(p)'
  <2>1. Becomes(Served(q)) => status' = Served(q)
    BY DEF Becomes
  <2> QED BY <1>1, <1>2, <1>3, <1>4, <1>6, <2>1, AnswerSound
<1>9. ASSUME NEW r \in requests \ {q} PROVE Sound(r)'
  <2>1. r.op # None => r.op # q.op
    BY <1>1 DEF Distinct
  <2> QED BY <1>1, <1>2, <1>6, <2>1, SoundAdvance
<1>10. WellFormed(q) /\ rows \in Lists
  <2>1. WellFormed(q)
    BY <1>1 DEF Sound
  <2>2. EmptyList \in Lists /\ Listed(q.member) \in Lists /\ Changed(q) \in Lists
    BY <1>1, <2>1, EmptyIsList, ListedIsList, ChangedIsList
  <2>3. rows = EmptyList \/ rows = Listed(q.member) \/ rows = Changed(q)
    BY <1>3
  <2> QED BY <2>1, <2>2, <2>3
<1>11. p.kind = q.kind /\ p.target = q.target /\ p.op = q.op /\ p.run = q.run
  BY <1>4, <1>10 DEF WellFormed, RequestRow
<1>12. ASSUME NEW r \in requests \ {q} PROVE Distinct(p, r) /\ Distinct(r, p)
  BY <1>1, <1>11 DEF Distinct, Current
<1>13. \A r, s \in requests' : Distinct(r, s)'
  BY <1>1, <1>2, <1>5, <1>12, DistinctStill DEF PageStill, Distinct
<1>14. ButtonHasRequest'
  BY <1>1, <1>2, <1>5, <1>11 DEF ButtonHasRequest, PageStill
<1> QED BY <1>5, <1>7, <1>8, <1>9, <1>13, <1>14, Together

-----------------------------------------------------------------------------
(* Answers delivered *)

\* Whoever waits for a pressed button is not the request that has just ended.
LEMMA ReleaseKeeps ==
    ASSUME IInv, NEW q \in requests, Release(q), requests \ {q} \subseteq requests',
           generation' = generation
    PROVE  ButtonHasRequest' /\ actionId' \in Ops \cup {"history", None}
<1>1. Store /\ ButtonHasRequest
  BY Apart
<1>2. actionId' = None \/ actionId' = actionId
  BY DEF Release
<1>3. ButtonHasRequest'
  <2> SUFFICES ASSUME actionId' # None PROVE ButtonHasRequest'
    BY DEF ButtonHasRequest
  <2>1. actionId' = actionId /\ ~(q.kind \in {"cancel", "retry", "clear"} /\ Current(q))
    BY DEF Release
  <2>2. PICK r \in requests :
            /\ r.kind \in {"cancel", "retry", "clear"}
            /\ r.run = generation
            /\ actionId = IF r.kind = "clear" THEN "history" ELSE r.target
    BY <1>1, <2>1 DEF ButtonHasRequest
  <2>3. r # q
    BY <2>1, <2>2 DEF Current
  <2> QED BY <2>1, <2>2, <2>3 DEF ButtonHasRequest
<1> QED BY <1>1, <1>2, <1>3 DEF Store

\* An answer that is taken: the list that is shown afterwards is the member's and
\* behind the server, and no poll in flight still applies unless it has all of it.
LEMMA TakenStep ==
    ASSUME IInv, NEW q \in requests, requests' = requests \ {q}, Release(q),
           UNCHANGED <<status, endedAt, expired, logins, stored, owner, foreign, generation>>,
           revision' \in Nat, revision' >= revision,
           items' \in Lists, updates' \subseteq Tasks, OwnItems', Behind(items)',
           \/ revision' > revision
           \/ DOMAIN items' \subseteq DOMAIN items
           \/ q.kind = "poll" /\ Current(q)
    PROVE  IInv'
<1>1. /\ Store /\ ButtonHasRequest
      /\ \A r \in requests : Sound(r)
      /\ \A r, s \in requests : Distinct(r, s)
  BY Apart
<1>2. ButtonHasRequest' /\ actionId' \in Ops \cup {"history", None}
  BY ReleaseKeeps
<1>3. Store'
  BY <1>1, <1>2 DEF Store, Stamped, TokenKnown
<1>4. ASSUME NEW r \in requests' PROVE Sound(r)'
  <2>1. /\ r \in requests /\ r # q /\ WellFormed(r) /\ Distinct(q, r)
        /\ r.login \in 0 .. logins /\ r.run <= generation /\ r.version <= revision
        /\ Behind(r.rows) /\ Unserved(r) /\ OfLogin(r) /\ Complete(r)
    BY <1>1, <1>4 DEF Sound
  <2>2. r.version \in Nat /\ revision \in Nat
    BY <1>1, <2>1, RequestTyped DEF Store
  <2>3. WellFormed(r)' /\ Behind(r.rows)' /\ Unserved(r)' /\ OfLogin(r)'
    BY <2>1, WellFormedRigid DEF Behind, Unserved, OfLogin, Current
  <2>4. Complete(r)'
    <3> SUFFICES ASSUME r.kind = "poll", r.answer = "ok", r.run = generation,
                        r.version = revision',
                        NEW o \in DOMAIN items', OwnerOfOp(o) = r.member,
                        status[o] \in Statuses, ~Outlived(o)
                 PROVE  o \in DOMAIN r.rows
      BY StaysOutlived DEF Complete, Applies, OwnerOfOp
    <3>1. revision' = revision
      BY <2>1, <2>2
    <3>2. o \in DOMAIN items
      BY <2>1, <2>2, <3>1 DEF Distinct, Current
    <3> QED BY <2>1, <3>1, <3>2 DEF Complete, Applies
  <2>5. r.login \in 0 .. logins' /\ r.run <= generation' /\ r.version <= revision'
    BY <2>1, <2>2
  <2> QED BY <2>3, <2>4, <2>5 DEF Sound
<1>5. \A r, s \in requests' : Distinct(r, s)'
  BY <1>1, DistinctStill
<1> QED BY <1>2, <1>3, <1>4, <1>5, Together

\* What was recorded belongs to the member when the rows do.
LEMMA RecordOwned ==
    ASSUME Store, NEW rows \in Lists, Record(rows), UNCHANGED <<owner, foreign>>
    PROVE  /\ updates' \subseteq Tasks
           /\ \A t \in updates' : OwnerOf[t] \in {owner'} \cup foreign'
<1>1. \A o \in Completed(rows) : o \in DOMAIN items /\ o \in Ops
  BY ListElim DEF Store, Completed
<1>2. \A o \in Completed(rows) : TaskOf[o] \in Tasks /\ OwnerOf[TaskOf[o]] \in {owner} \cup foreign
  BY <1>1, Constants DEF Store, OwnItems
<1> QED BY <1>2 DEF Record, Store, OwnItems

\* The rows of an answer of this login are of a member it knows.
LEMMA RowsOfLogin ==
    ASSUME NEW q, Sound(q), Current(q)
    PROVE  \A o \in DOMAIN q.rows : OwnerOfOp(o) \in {owner} \cup foreign
<1>1. WellFormed(q) /\ OfLogin(q) /\ q.rows \in Lists
  BY RequestTyped DEF Sound
<1>2. q.member \in {owner, None} \cup foreign
  BY <1>1 DEF OfLogin
<1>3. \A o \in DOMAIN q.rows : OwnerOfOp(o) = q.member /\ OwnerOfOp(o) # None
  BY <1>1, ListElim, Constants DEF WellFormed
<1> QED BY <1>2, <1>3

LEMMA DeliverPollStep == ASSUME IInv, NEW q \in requests, DeliverPoll(q) PROVE IInv'
<1>1. Store /\ Sound(q)
  BY Apart
<1>2. /\ requests' = requests \ {q} /\ q.kind = "poll"
      /\ UNCHANGED <<status, endedAt, expired, logins, stored, owner, foreign,
                     generation, revision, actionId>>
  BY DEF DeliverPoll, serverVars, sessionVars
<1>3. Release(q) /\ revision' \in Nat /\ revision' >= revision
  BY <1>1, <1>2 DEF Release, Store
<1>4. CASE Applies(q)
  <2>1. Record(q.rows) /\ items' = q.rows /\ Current(q)
    BY <1>4 DEF DeliverPoll, Applies, Current
  <2>2. q.rows \in Lists
    BY <1>1, RequestTyped DEF Sound
  <2>3. \A o \in DOMAIN items' : OwnerOfOp(o)' \in {owner'} \cup foreign'
    <3>1. \A o \in DOMAIN q.rows : OwnerOfOp(o) \in {owner} \cup foreign
      BY <1>1, <2>1, RowsOfLogin
    <3> QED BY <1>2, <2>1, <3>1 DEF OwnerOfOp
  <2>4. OwnItems' /\ updates' \subseteq Tasks
    BY <1>1, <1>2, <2>1, <2>2, <2>3, RecordOwned DEF OwnItems
  <2>5. Behind(items)'
    BY <1>1, <1>2, <2>1 DEF Sound, Behind
  <2> QED BY <1>2, <1>3, <2>1, <2>2, <2>4, <2>5, TakenStep
<1>5. CASE ~Applies(q)
  <2>1. items' = items /\ updates' = updates
    BY <1>5 DEF DeliverPoll
  <2>2. items' \in Lists /\ updates' \subseteq Tasks /\ OwnItems' /\ Behind(items)'
    BY <1>1, <1>2, <2>1 DEF Store, OwnItems, OwnerOfOp, Behind
  <2> QED BY <1>2, <1>3, <2>1, <2>2, TakenStep
<1> QED BY <1>4, <1>5

LEMMA DeliverRowStep == ASSUME IInv, NEW q \in requests, DeliverRow(q) PROVE IInv'
<1>1. Store /\ Sound(q)
  BY Apart
<1>2. /\ requests' = requests \ {q} /\ Release(q)
      /\ UNCHANGED <<status, endedAt, expired, logins, stored, owner, foreign, generation>>
  BY DEF DeliverRow, serverVars, sessionVars
<1>3. CASE Current(q)
  <2>1. Record(q.rows) /\ items' = Merged(q.rows, items) /\ revision' = revision + 1
    BY <1>3 DEF DeliverRow, Accept
  <2>2. q.rows \in Lists /\ items \in Lists
    BY <1>1, RequestTyped DEF Sound, Store
  <2>3. /\ items' \in Lists
        /\ DOMAIN items' = DOMAIN q.rows \cup DOMAIN items
        /\ \A o \in DOMAIN q.rows : items'[o] = q.rows[o]
        /\ \A o \in DOMAIN items \ DOMAIN q.rows : items'[o] = items[o]
    BY <2>1, <2>2, MergedIsList
  <2>4. \A o \in DOMAIN items' : OwnerOfOp(o)' \in {owner'} \cup foreign'
    <3>1. \A o \in DOMAIN q.rows : OwnerOfOp(o) \in {owner} \cup foreign
      BY <1>1, <1>3, RowsOfLogin
    <3>2. \A o \in DOMAIN items : OwnerOfOp(o) \in {owner} \cup foreign
      BY <1>1 DEF Store, OwnItems
    <3> QED BY <1>2, <2>3, <3>1, <3>2 DEF OwnerOfOp
  <2>5. OwnItems' /\ updates' \subseteq Tasks
    BY <1>1, <1>2, <2>1, <2>2, <2>4, RecordOwned DEF OwnItems
  <2>6. Behind(items)'
    <3>1. Behind(q.rows) /\ Behind(items)
      BY <1>1 DEF Sound, Store
    <3> QED BY <1>2, <2>3, <3>1 DEF Behind
  <2>7. revision' \in Nat /\ revision' > revision /\ revision' >= revision
    BY <1>1, <2>1 DEF Store
  <2> QED BY <1>2, <2>3, <2>5, <2>6, <2>7, TakenStep
<1>4. CASE ~Current(q)
  <2>1. items' = items /\ updates' = updates /\ revision' = revision
    BY <1>4 DEF DeliverRow
  <2>2. items' \in Lists /\ updates' \subseteq Tasks /\ OwnItems' /\ Behind(items)'
        /\ revision' \in Nat /\ revision' >= revision
    BY <1>1, <1>2, <2>1 DEF Store, OwnItems, OwnerOfOp, Behind
  <2> QED BY <1>2, <2>1, <2>2, TakenStep
<1> QED BY <1>3, <1>4

LEMMA DeliverClearedStep == ASSUME IInv, NEW q \in requests, DeliverCleared(q) PROVE IInv'
<1>1. Store
  BY Apart
<1>2. /\ requests' = requests \ {q} /\ Release(q)
      /\ UNCHANGED <<status, endedAt, expired, logins, stored, owner, foreign,
                     generation, revision>>
  BY DEF DeliverCleared, serverVars, sessionVars
<1>3. PICK kept \in SUBSET DOMAIN items :
        items' = [o \in kept |-> items[o]] /\ updates' \subseteq updates
  <2>1. CASE Current(q)
    BY <2>1 DEF DeliverCleared
  <2>2. CASE ~Current(q)
    <3>1. items' = items /\ updates' = updates
      BY <2>2 DEF DeliverCleared
    <3>2. items = [o \in DOMAIN items |-> items[o]]
      BY <1>1 DEF Store, Lists
    <3> QED BY <3>1, <3>2
  <2> QED BY <2>1, <2>2
<1>4. items' \in Lists
  <2>1. kept \subseteq Ops /\ items' \in [kept -> Statuses]
    BY <1>1, <1>3, ListElim DEF Store
  <2> QED BY <2>1, ListIntro
<1>5. updates' \subseteq Tasks /\ OwnItems' /\ Behind(items)' /\ DOMAIN items' \subseteq DOMAIN items
      /\ revision' \in Nat /\ revision' >= revision
  BY <1>1, <1>2, <1>3 DEF Store, OwnItems, OwnerOfOp, Behind
<1> QED BY <1>2, <1>4, <1>5, TakenStep

LEMMA DeliverErrorStep == ASSUME IInv, NEW q \in requests, DeliverError(q) PROVE IInv'
<1>1. Store
  BY Apart
<1>2. Release(q) /\ Still /\ requests' = requests \ {q}
  BY DEF DeliverError, Still, serverVars, sessionVars, listVars
<1>3. items' \in Lists /\ updates' \subseteq Tasks /\ OwnItems' /\ Behind(items)'
      /\ revision' \in Nat /\ revision' >= revision /\ DOMAIN items' \subseteq DOMAIN items
  BY <1>1, <1>2 DEF Store, OwnItems, OwnerOfOp, Behind, Still
<1> QED BY <1>2, <1>3, TakenStep DEF Still

-----------------------------------------------------------------------------
(* The session: a new generation, of which there is nothing yet *)

\* After stop() no request is of the current generation, but for the first poll of a
\* login.
LEMMA SessionStep ==
    ASSUME IInv, Stop, UNCHANGED <<status, endedAt, expired>>,
           logins' \in 0 .. MaxLogins, logins' >= logins,
           stored' \in [login : 0 .. logins', member : Members \cup {None}],
           owner' \in Members \cup {None}, foreign' = {},
           owner' # None => stored'.member = owner',
           NEW sent, requests' \subseteq requests \cup sent,
           \A p \in sent :
              /\ WellFormed(p) /\ p.kind = "poll" /\ p.answer = "waiting" /\ p.op = None
              /\ p.rows = EmptyList /\ p.member = owner' /\ owner' # None
              /\ p.login \in 0 .. logins' /\ p.run = generation' /\ p.version = revision',
           \A p, r \in sent : p = r
    PROVE  IInv'
<1>1. /\ Store /\ \A r \in requests : Sound(r)
      /\ \A r, s \in requests : Distinct(r, s)
  BY Apart
<1>2. /\ generation' = generation + 1 /\ revision' = revision + 1 /\ items' = EmptyList
      /\ updates' = {} /\ actionId' = None
  BY DEF Stop
<1>3. generation \in Nat /\ revision \in Nat /\ logins \in Nat
  BY <1>1 DEF Store
<1>4. Store'
  <2>1. OwnItems' /\ Behind(items)' /\ Stamped' /\ TokenKnown'
    BY <1>1, <1>2, EmptyIsList DEF OwnItems, Behind, Store, Stamped, TokenKnown
  <2> QED BY <1>1, <1>2, <1>3, <2>1, EmptyIsList DEF Store
<1>5. ButtonHasRequest'
  BY <1>2 DEF ButtonHasRequest
<1>6. ASSUME NEW r \in requests
      PROVE  Sound(r)' /\ r.run # generation'
  <2>1. /\ WellFormed(r)
        /\ r.login \in 0 .. logins /\ r.run <= generation /\ r.version <= revision
        /\ Behind(r.rows) /\ Unserved(r)
    BY <1>1 DEF Sound
  <2>2. r.run \in Nat /\ r.version \in Nat /\ r.login \in Nat
    BY <2>1, RequestTyped
  <2>3. r.run # generation'
    BY <1>2, <1>3, <2>1, <2>2
  <2>4. WellFormed(r)' /\ Behind(r.rows)' /\ Unserved(r)' /\ OfLogin(r)' /\ Complete(r)'
    BY <2>1, <2>3, WellFormedRigid DEF Behind, Unserved, OfLogin, Complete, Current, Applies
  <2>5. r.login \in 0 .. logins' /\ r.run <= generation' /\ r.version <= revision'
    BY <1>2, <1>3, <2>1, <2>2
  <2> QED BY <2>3, <2>4, <2>5 DEF Sound
<1>7. ASSUME NEW p \in sent PROVE Sound(p)'
  <2>1. WellFormed(p)' /\ Behind(p.rows)'
    BY WellFormedRigid, EmptyIsList DEF Behind
  <2>2. Unserved(p)' /\ OfLogin(p)' /\ Complete(p)'
    BY DEF Unserved, OfLogin, Complete
  <2>3. p.run <= generation' /\ p.version <= revision'
    BY <1>2, <1>3
  <2> QED BY <2>1, <2>2, <2>3 DEF Sound
<1>8. ASSUME NEW p \in requests', NEW r \in requests' PROVE Distinct(p, r)'
  <2>1. CASE p \in requests /\ r \in requests
    BY <1>1, <1>6, <2>1 DEF Distinct, Current
  <2>2. CASE p \in sent /\ r \in sent
    BY <2>2 DEF Distinct
  <2>3. CASE p \in requests /\ r \in sent
    BY <1>6, <2>3 DEF Distinct, Current
  <2>4. CASE p \in sent /\ r \in requests
    BY <1>6, <2>4 DEF Distinct, Current
  <2> QED BY <2>1, <2>2, <2>3, <2>4
<1> QED BY <1>4, <1>5, <1>6, <1>7, <1>8, Together

\* The session of this tab ends.
LEMMA EndStep ==
    ASSUME IInv, EndSession, UNCHANGED serverVars, requests' \subseteq requests
    PROVE  IInv'
<1>1. /\ Stop /\ UNCHANGED <<status, endedAt, expired>> /\ owner' = None /\ foreign' = {}
      /\ logins' = logins /\ stored' = NoToken
  BY DEF EndSession, serverVars
<1>2. logins' \in 0 .. MaxLogins /\ logins' >= logins
  BY <1>1, Apart, QueueStoreAssumption DEF Store
<1>3. stored' \in [login : 0 .. logins', member : Members \cup {None}]
  BY <1>1, <1>2, QueueStoreAssumption DEF NoToken
<1>4. PICK sent : sent = {} /\ requests' \subseteq requests \cup sent
  OBVIOUS
<1> QED BY <1>1, <1>2, <1>3, <1>4, SessionStep

LEMMA LogoutStep == IInv /\ Logout => IInv'
BY EndStep DEF Logout

LEMMA DeliverUnauthorizedStep ==
    ASSUME IInv, NEW q \in requests, DeliverUnauthorized(q)
    PROVE  IInv'
<1>1. Store /\ Sound(q) /\ ButtonHasRequest
  BY Apart
<1>2. requests' = requests \ {q} /\ UNCHANGED serverVars
  BY DEF DeliverUnauthorized
<1>3. CASE owner # None
  BY <1>2, <1>3, EndStep DEF DeliverUnauthorized
<1>4. CASE owner = None
  <2>1. UNCHANGED <<status, endedAt, expired, logins, stored, owner, foreign, generation,
                    revision, items, updates, actionId>>
    BY <1>2, <1>4 DEF DeliverUnauthorized, serverVars, sessionVars, listVars
  <2>2. ~Current(q)
    BY <1>1, <1>4 DEF Sound, OfLogin
  <2>3. Release(q)
    BY <2>1, <2>2 DEF Release
  <2>4. items' \in Lists /\ updates' \subseteq Tasks /\ OwnItems' /\ Behind(items)'
        /\ revision' \in Nat /\ revision' >= revision /\ DOMAIN items' \subseteq DOMAIN items
    BY <1>1, <2>1 DEF Store, OwnItems, OwnerOfOp, Behind
  <2> QED BY <1>2, <2>1, <2>3, <2>4, TakenStep
<1> QED BY <1>3, <1>4

\* Another tab stores a token or removes it: the list and what is in flight stay.
LEMMA OtherTabStep ==
    ASSUME IInv, OtherLogout \/ \E m \in Members : OtherLogin(m)
    PROVE  IInv'
<1>1. /\ Store /\ ButtonHasRequest
      /\ \A r \in requests : Sound(r)
      /\ \A r, s \in requests : Distinct(r, s)
  BY Apart
<1>2. UNCHANGED <<status, endedAt, expired, owner, generation, revision, items, updates,
                  actionId, requests>>
  BY DEF OtherLogout, OtherLogin, serverVars, listVars
<1>3. /\ logins \in 0 .. MaxLogins /\ MaxLogins \in Nat /\ None \notin Members
      /\ owner \in Members \cup {None} /\ foreign \subseteq Members
  BY <1>1, QueueStoreAssumption, Constants DEF Store
<1>4. /\ logins' \in 0 .. MaxLogins /\ logins' >= logins
      /\ stored' \in [login : 0 .. logins', member : Members \cup {None}]
      /\ foreign \subseteq foreign' /\ foreign' \subseteq Members
      /\ owner # None => stored'.member \in {owner, None} \cup foreign'
  <2>1. CASE OtherLogout
    BY <1>3, <2>1 DEF OtherLogout, NoToken
  <2>2. ASSUME NEW m \in Members, OtherLogin(m)
        PROVE  /\ logins' \in 0 .. MaxLogins /\ logins' >= logins
               /\ stored' \in [login : 0 .. logins', member : Members \cup {None}]
               /\ foreign \subseteq foreign' /\ foreign' \subseteq Members
               /\ owner # None => stored'.member \in {owner, None} \cup foreign'
    <3>1. /\ logins < MaxLogins /\ logins' = logins + 1
          /\ stored' = [login |-> logins + 1, member |-> m]
          /\ foreign' = IF owner \in {None, m} THEN foreign ELSE foreign \cup {m}
      BY <2>2 DEF OtherLogin
    <3>2. logins' \in 0 .. MaxLogins /\ logins' >= logins /\ logins + 1 \in 0 .. logins'
      BY <1>3, <3>1
    <3> QED BY <1>3, <3>1, <3>2
  <2> QED BY <2>1, <2>2
<1>5. OwnItems' /\ Behind(items)' /\ Stamped' /\ TokenKnown'
  BY <1>1, <1>2, <1>4 DEF Store, OwnItems, OwnerOfOp, Behind, Stamped, TokenKnown
<1>6. Store'
  BY <1>1, <1>2, <1>4, <1>5 DEF Store
<1>7. ASSUME NEW r \in requests' PROVE Sound(r)'
  <2>1. /\ WellFormed(r) /\ Behind(r.rows) /\ Unserved(r) /\ OfLogin(r) /\ Complete(r)
        /\ r.login \in 0 .. logins /\ r.run <= generation /\ r.version <= revision
    BY <1>1, <1>2, <1>7 DEF Sound
  <2>2. WellFormed(r)' /\ Behind(r.rows)' /\ Unserved(r)' /\ OfLogin(r)'
    BY <1>2, <1>4, <2>1, WellFormedRigid DEF Behind, Unserved, OfLogin, Current
  <2>3. Complete(r)'
    BY <1>2, <2>1, StaysOutlived DEF Complete, Applies, OwnerOfOp
  <2>4. r.login \in 0 .. logins' /\ r.run <= generation' /\ r.version <= revision'
    BY <1>2, <1>3, <1>4, <2>1
  <2> QED BY <2>2, <2>3, <2>4 DEF Sound
<1>8. \A r, s \in requests' : Distinct(r, s)'
  BY <1>1, <1>2, DistinctStill
<1>9. ButtonHasRequest'
  BY <1>1, <1>2 DEF ButtonHasRequest
<1> QED BY <1>6, <1>7, <1>8, <1>9, Together

LEMMA LoginStep == ASSUME IInv, NEW m \in Members, Login(m) PROVE IInv'
<1>1. Store
  BY Apart
<1>2. PICK p : p = [PollRequest EXCEPT !.login = logins + 1, !.member = m,
                                       !.run = generation + 1, !.version = revision + 1]
  OBVIOUS
<1>3. /\ Stop /\ UNCHANGED <<status, endedAt, expired>> /\ owner' = m /\ foreign' = {}
      /\ logins' = logins + 1 /\ logins < MaxLogins /\ requests' = requests \cup {p}
      /\ stored' = [login |-> logins + 1, member |-> m]
  BY <1>2 DEF Login, serverVars
<1>4. /\ generation \in Nat /\ revision \in Nat /\ logins \in Nat /\ MaxLogins \in Nat
      /\ EmptyList \in Lists /\ DOMAIN EmptyList = {} /\ "poll" \in Kinds
  BY <1>1, QueueStoreAssumption, EmptyIsList DEF Store, Kinds
<1>5. m # None
  BY Constants
<1>a. p = [kind |-> "poll", target |-> None, op |-> None, login |-> logins + 1,
           member |-> m, run |-> generation + 1, version |-> revision + 1,
           answer |-> "waiting", rows |-> EmptyList]
  BY <1>2 DEF PollRequest, Request
<1>6. p \in RequestRow
  BY <1>4, <1>a DEF RequestRow
<1>7. WellFormed(p)
  BY <1>4, <1>a, <1>6 DEF WellFormed
<1>8. /\ p.kind = "poll" /\ p.answer = "waiting" /\ p.op = None /\ p.rows = EmptyList
      /\ p.member = owner' /\ owner' # None /\ p.login \in 0 .. logins'
      /\ p.run = generation' /\ p.version = revision'
  BY <1>3, <1>4, <1>5, <1>a DEF Stop
<1>9. /\ logins' \in 0 .. MaxLogins /\ logins' >= logins
      /\ stored' \in [login : 0 .. logins', member : Members \cup {None}]
      /\ stored'.member = owner' /\ owner' \in Members \cup {None}
  <2>1. logins + 1 \in 0 .. logins'
    BY <1>3, <1>4
  <2> QED BY <1>3, <1>4, <2>1
<1>10. PICK sent : sent = {p} /\ requests' \subseteq requests \cup sent
  BY <1>3
<1>11. \A r \in sent :
         /\ WellFormed(r) /\ r.kind = "poll" /\ r.answer = "waiting" /\ r.op = None
         /\ r.rows = EmptyList /\ r.member = owner' /\ owner' # None
         /\ r.login \in 0 .. logins' /\ r.run = generation' /\ r.version = revision'
  BY <1>7, <1>8, <1>10
<1>12. \A r, q \in sent : r = q
  BY <1>10
<1> QED BY <1>3, <1>9, <1>10, <1>11, <1>12, SessionStep

-----------------------------------------------------------------------------
(* Results *)

LEMMA InitIInv == Init => IInv
<1> SUFFICES ASSUME Init PROVE IInv OBVIOUS
<1>1. TypeOK
  BY EmptyIsList, QueueStoreAssumption DEF Init, TypeOK, NoToken
<1>2. OwnItems /\ ButtonHasRequest /\ Behind(items) /\ Stamped /\ TokenKnown
  BY EmptyIsList DEF Init, OwnItems, ButtonHasRequest, Behind, Stamped, TokenKnown
<1> QED BY <1>1, <1>2 DEF Init, IInv

LEMMA NextIInv == IInv /\ [Next]_vars => IInv'
<1> SUFFICES ASSUME IInv, [Next]_vars PROVE IInv' OBVIOUS
<1>1. CASE UNCHANGED vars
  <2>1. Still /\ requests' = requests /\ actionId' = actionId
    BY <1>1 DEF vars, Still, serverVars, sessionVars, listVars
  <2>2. /\ Store' /\ \A r \in requests' : Sound(r)'
        /\ \A r, s \in requests' : Distinct(r, s)'
    BY <2>1, Apart, StillKeeps DEF Store
  <2>3. ButtonHasRequest'
    BY <2>1, Apart DEF ButtonHasRequest, Still
  <2> QED BY <2>2, <2>3, Together
<1>2. CASE Poll \/ Clear \/ Logout \/ OtherLogout \/ Elsewhere
  BY <1>2, PollStep, ClearStep, LogoutStep, OtherTabStep, ElsewhereStep
<1>3. CASE \E m \in Members : Login(m) \/ OtherLogin(m)
  BY <1>3, LoginStep, OtherTabStep
<1>4. CASE \E o \in Ops : Submit(o) \/ Cancel(o) \/ Start(o) \/ Finish(o)
  BY <1>4, SubmitStep, CancelStep, BackgroundStep
<1>5. CASE \E o, new \in Ops : Retry(o, new)
  BY <1>5, RetryStep
<1>6. CASE \E n \in 1 .. MaxLogins : Expire(n)
  BY <1>6, BackgroundStep
<1>7. ASSUME NEW q \in requests,
             \/ Serve(q) \/ DeliverPoll(q) \/ DeliverRow(q)
             \/ DeliverCleared(q) \/ DeliverError(q) \/ DeliverUnauthorized(q)
      PROVE  IInv'
  BY <1>7, ServeStep, DeliverPollStep, DeliverRowStep, DeliverClearedStep,
     DeliverErrorStep, DeliverUnauthorizedStep
<1> QED BY <1>1, <1>2, <1>3, <1>4, <1>5, <1>6, <1>7 DEF Next

\* The store's counters, the table and the requests in flight agree in every
\* reachable state.
THEOREM Inductive == Spec => []IInv
BY InitIInv, NextIInv, PTL DEF Spec

\* Every variable keeps its type.
THEOREM TypeCorrect == Spec => []TypeOK
<1>1. IInv => TypeOK BY DEF IInv
<1> QED BY <1>1, Inductive, PTL

\* Whatever answers of earlier logins arrive late, what is shown and recorded belongs
\* to the member who is logged in, or to one another tab has logged in since.
THEOREM ShowsOwn == Spec => []OwnItems
<1>1. IInv => OwnItems BY DEF IInv
<1> QED BY <1>1, Inductive, PTL

\* A pressed button always waits for a request that is in flight.
THEOREM ButtonsReleased == Spec => []ButtonHasRequest
<1>1. IInv => ButtonHasRequest BY DEF IInv
<1> QED BY <1>1, Inductive, PTL

\* The answers that change the list of a login.
ListChange(q) ==
    \/ DeliverPoll(q) /\ Applies(q)
    \/ DeliverRow(q) /\ Current(q)
    \/ DeliverCleared(q) /\ Current(q)

LEMMA OnlyAnswersChangeList ==
    ASSUME IInv, Next
    PROVE  \/ items' = items
           \/ generation' # generation
           \/ \E q \in requests : ListChange(q)
<1>1. CASE \/ Poll \/ Clear \/ OtherLogout \/ Elsewhere
           \/ \E m \in Members : OtherLogin(m)
           \/ \E o \in Ops : Submit(o) \/ Cancel(o) \/ Start(o) \/ Finish(o)
           \/ \E o, new \in Ops : Retry(o, new)
           \/ \E n \in 1 .. MaxLogins : Expire(n)
           \/ \E q \in requests : Serve(q) \/ DeliverError(q)
  BY <1>1 DEF Poll, Clear, Submit, Cancel, Control, Start, Finish, Retry, Expire, Serve,
              OtherLogout, OtherLogin, Elsewhere, DeliverError, listVars
<1>2. ASSUME Stop PROVE generation' # generation
  <2>1. generation \in Nat
    BY DEF IInv, TypeOK
  <2> QED BY <1>2, <2>1 DEF Stop
<1>3. CASE Logout \/ \E m \in Members : Login(m)
  BY <1>2, <1>3 DEF Logout, Login, EndSession
<1>4. ASSUME NEW q \in requests, DeliverUnauthorized(q)
      PROVE  items' = items \/ generation' # generation
  BY <1>2, <1>4 DEF DeliverUnauthorized, EndSession, listVars
<1>5. ASSUME NEW q \in requests, DeliverPoll(q) \/ DeliverRow(q) \/ DeliverCleared(q)
      PROVE  items' = items \/ ListChange(q)
  BY <1>5 DEF ListChange, DeliverPoll, DeliverRow, DeliverCleared
<1> QED BY <1>1, <1>3, <1>4, <1>5 DEF Next

\* Unless the list becomes another member's: a row that is shown and active on the
\* server is shown after the step, and one that is no longer shown active is recorded,
\* deleted or outlived.
RowKept(o) ==
    ~OthersList(o) =>
        /\ status[o] \in Active => o \in DOMAIN items'
        /\ /\ items[o] \in Active /\ ~(o \in DOMAIN items' /\ items'[o] \in Active)
           /\ status[o] # "deleted" /\ ~Outlived(o)
           => TaskOf[o] \in updates'

LEMMA ListChangeKeeps ==
    ASSUME IInv, NEW q \in requests, ListChange(q), NEW o \in DOMAIN items
    PROVE  RowKept(o)
<1>1. Store /\ Sound(q)
  BY Apart
<1>2. o \in Ops /\ items[o] \in Statuses /\ q.rows \in Lists /\ items \in Lists
  BY <1>1, ListElim, RequestTyped DEF Store, Sound
<1>3. status[o] \in AnyStatus /\ status[o] # "none"
      /\ (items[o] \in Ended => status[o] \in Ended \cup {"deleted"})
  BY <1>1, <1>2 DEF Store, Behind
<1>4. ASSUME Record(q.rows), o \in DOMAIN q.rows, items[o] \in Active, q.rows[o] \notin Active
      PROVE  TaskOf[o] \in updates'
  BY <1>4 DEF Record, Completed
<1>5. CASE DeliverPoll(q) /\ Applies(q)
  <2>1. items' = q.rows /\ Record(q.rows) /\ q.kind = "poll" /\ q.answer = "ok"
    BY <1>5 DEF DeliverPoll
  <2>2. status[o] \in Statuses /\ ~Outlived(o) /\ ~OthersList(o) => o \in DOMAIN q.rows
    <3>1. q \in requests \ requests'
      BY <1>5 DEF DeliverPoll
    <3>2. OwnerOfOp(o) = q.member \/ OthersList(o)
      BY <2>1, <3>1 DEF OthersList
    <3> QED BY <1>1, <1>5, <2>1, <3>2 DEF Sound, Complete
  <2>3. status[o] # "deleted" => status[o] \in Statuses
    BY <1>3 DEF AnyStatus
  <2>4. status[o] \in Active => status[o] \in Statuses /\ ~Outlived(o)
    BY DEF Statuses, Outlived, Active, Ended
  <2> QED BY <1>4, <2>1, <2>2, <2>3, <2>4 DEF RowKept
<1>6. CASE DeliverRow(q) /\ Current(q)
  <2>1. items' = Merged(q.rows, items) /\ Record(q.rows)
    BY <1>6 DEF DeliverRow, Accept
  <2>2. /\ o \in DOMAIN items'
        /\ o \in DOMAIN q.rows => items'[o] = q.rows[o]
        /\ o \notin DOMAIN q.rows => items'[o] = items[o]
    <3>1. /\ DOMAIN Merged(q.rows, items) = DOMAIN q.rows \cup DOMAIN items
          /\ \A p \in DOMAIN q.rows : Merged(q.rows, items)[p] = q.rows[p]
          /\ \A p \in DOMAIN items \ DOMAIN q.rows : Merged(q.rows, items)[p] = items[p]
      BY <1>2, MergedIsList
    <3> QED BY <2>1, <3>1
  <2> QED BY <1>4, <2>1, <2>2 DEF RowKept
<1>7. CASE DeliverCleared(q) /\ Current(q)
  <2>1. items' = [p \in DOMAIN items \ {p \in DOMAIN items : items[p] \notin Active} |-> items[p]]
    BY <1>7 DEF DeliverCleared
  <2>2. items[o] \in Active => o \in DOMAIN items' /\ items'[o] = items[o]
    BY <2>1
  <2>3. status[o] \in Active => items[o] \in Active
    BY <1>2, <1>3 DEF Statuses, Active, Ended
  <2> QED BY <2>2, <2>3 DEF RowKept
<1> QED BY <1>5, <1>6, <1>7 DEF ListChange

LEMMA StepKeepsRows ==
    ASSUME IInv, Next, generation' = generation, NEW o \in DOMAIN items
    PROVE  RowKept(o)
<1>1. CASE items' = items
  BY <1>1 DEF RowKept
<1>2. CASE \E q \in requests : ListChange(q)
  BY <1>2, ListChangeKeeps
<1> QED BY <1>1, <1>2, OnlyAnswersChangeList

\* A late poll never hides an operation that is active, unless it is another member's.
THEOREM ActiveShown == Spec => ActiveStaysShown
<1>1. IInv /\ [Next]_vars =>
        [\A o \in DOMAIN items :
            status[o] \in Active /\ generation' = generation /\ ~OthersList(o)
               => o \in DOMAIN items']_vars
  BY StepKeepsRows DEF RowKept
<1> QED BY <1>1, Inductive, PTL DEF Spec, ActiveStaysShown

\* No step of a login loses a completion, but for a history cleared on the server, an
\* operation that so many have outlived that the list leaves it out, and the list of
\* another member.
THEOREM CompletionsKept == Spec => CompletionRecorded
<1>1. IInv /\ [Next]_vars =>
        [\A o \in DOMAIN items :
            (/\ items[o] \in Active /\ generation' = generation
             /\ ~(o \in DOMAIN items' /\ items'[o] \in Active)
             /\ status[o] # "deleted" /\ ~Outlived(o) /\ ~OthersList(o))
               => TaskOf[o] \in updates']_vars
  BY StepKeepsRows DEF RowKept
<1> QED BY <1>1, Inductive, PTL DEF Spec, CompletionRecorded
=============================================================================
