------------------------- MODULE TaskDocumentProofs -------------------------
(***************************************************************************)
(* Proofs about TaskDocument for any number of requests, versions,         *)
(* operations and characters: the row lock and the checks made under it    *)
(* keep first drafts, final versions, locked fragments and the inputs of   *)
(* active operations consistent, although the task's state is read before  *)
(* the lock.                                                               *)
(***************************************************************************)
EXTENDS TaskDocument, WellFoundedInduction, TLAPS

\* The order indexes of the fragments have an upper bound.
Bounded == \E n \in Nat : \A l \in locks : l.order < n

Inv == IInv /\ Bounded

\* The largest order_index exists, so max(order_index) + 1 is past all of them.
LEMMA NextOrderIsNext ==
    ASSUME locks \subseteq Fragment, Bounded
    PROVE  NextOrder \in Nat /\ \A l \in locks : l.order < NextOrder
<1>1. CASE locks = {}
  BY <1>1 DEF NextOrder
<1>2. CASE locks # {}
  <2> DEFINE S == {l.order : l \in locks}
             U == {n \in Nat : \A l \in locks : l.order <= n}
  <2>1. \A l \in locks : l.order \in Nat
    BY DEF Fragment
  <2>2. U # {} /\ U \subseteq Nat
    <3>1. PICK b \in Nat : \A l \in locks : l.order < b
      BY DEF Bounded
    <3>2. b \in U
      BY <2>1, <3>1
    <3> QED BY <3>2
  <2>3. PICK n \in U : \A k \in U : ~(<<k, n>> \in OpToRel(<, Nat))
    <3> HIDE DEF U
    <3> QED BY <2>2, WFMin, NatLessThanWellFounded
  <2>4. \A k \in U : ~(k < n)
    BY <2>3 DEF OpToRel
  <2>5. \E l \in locks : l.order = n
    <3> SUFFICES ASSUME \A l \in locks : l.order # n PROVE FALSE
      OBVIOUS
    <3>1. n \in Nat /\ \A l \in locks : l.order <= n
      OBVIOUS
    <3>2. \A l \in locks : l.order <= n - 1
      BY <2>1, <3>1
    <3>3. n - 1 \in Nat
      BY <1>2, <2>1, <3>1, <3>2
    <3>4. n - 1 \in U
      BY <3>2, <3>3
    <3> QED BY <2>4, <3>1, <3>4
  <2>6. n \in S /\ \A k \in S : n >= k
    BY <2>1, <2>5
  <2>7. Max(S) \in S /\ \A k \in S : Max(S) >= k
    BY <2>6 DEF Max
  <2>8. NextOrder = Max(S) + 1
    BY <1>2 DEF NextOrder
  <2>9. S \subseteq Nat /\ \A l \in locks : l.order \in S
    BY <2>1
  <2>10. PICK mx \in Nat : mx = Max(S)
    BY <2>7, <2>9
  <2>11. \A l \in locks : l.order \in Nat /\ l.order <= mx
    BY <2>7, <2>9, <2>10, <2>1
  <2>12. NextOrder = mx + 1
    BY <2>8, <2>10
  <2> HIDE DEF S
  <2> QED BY <2>11, <2>12
<1> QED BY <1>1, <1>2

\* Kinds, running and succeeded states of the state machine.
LEMMA Domain ==
    /\ \A k \in AiOperationKind :
         /\ RunningState(k) \in TaskState \ {"finalized", "archived"}
         /\ SucceededState(k) \in TaskState \ {"finalized", "archived"}
    /\ {"draft", "archived", "editing", "finalized"} \subseteq TaskState
BY DEF AiOperationKind, RunningState, SucceededState, TaskState

\* The invariant holds initially.
LEMMA InvInit == Init => Inv
<1> SUFFICES ASSUME Init PROVE Inv
  OBVIOUS
<1>1. NewRequest \in Request
  BY Domain DEF NewRequest, Request, RequestKind
<1>2. TypeOK
  BY <1>1, DocumentAssumption DEF Init, TypeOK, TaskState
<1>3. Bounded
  BY DEF Init, Bounded
<1>4. FinalVersion /\ OneFirstDraft /\ LocksApart /\ ActiveOwnsTask
  BY DocumentAssumption, Domain
     DEF Init, FinalVersion, OneFirstDraft, LocksApart, ActiveOwnsTask, NewRequest
<1>5. RowHeld /\ Loaded /\ Checked /\ InitialFinal
  BY DocumentAssumption DEF Init, RowHeld, Loaded, Checked, InitialFinal, NewRequest
<1> QED BY <1>2, <1>3, <1>4, <1>5 DEF Inv, IInv

\* submit() keeps the invariant.
LEMMA SubmitStep ==
    ASSUME Inv, NEW k \in AiOperationKind, Submit(k)
    PROVE  Inv'
<1> USE DEF Submit, Inv, IInv, document
<1>1. TypeOK'
  <2>1. active' \in Operation
    BY DEF Operation, TypeOK
  <2> QED BY <2>1, Domain DEF TypeOK
<1>2. FinalVersion' /\ OneFirstDraft' /\ LocksApart' /\ Bounded'
  BY Domain DEF FinalVersion, OneFirstDraft, LocksApart, Bounded
<1>3. ActiveOwnsTask'
  <2>1. active'.kind = k /\ active'.phase = "queued" /\ state' = RunningState(k)
    OBVIOUS
  <2>2. \A r \in Requests : req'[r].pc # "locked"
    BY DocumentAssumption DEF RowHeld
  <2> QED BY <2>1, <2>2 DEF ActiveOwnsTask, OwnStates
<1>4. RowHeld' /\ Loaded' /\ Checked'
  BY DEF RowHeld, Loaded, Checked, Overlaps
<1>5. InitialFinal'
  <2>1. active'.initial = state /\ ended' = ended /\ final' = final
    OBVIOUS
  <2> QED BY <2>1, DocumentAssumption DEF InitialFinal, FinalVersion
<1> QED BY <1>1, <1>2, <1>3, <1>4, <1>5

\* A claim keeps the invariant.
LEMMA ClaimStep ==
    ASSUME Inv, Claim
    PROVE  Inv'
<1> USE DEF Claim, Inv, IInv, document
<1>1. active \in Operation
  BY DEF TypeOK
<1>2. active' \in Operation /\ active'.kind = active.kind /\ active'.initial = active.initial
  BY <1>1 DEF Operation
<1>3. TypeOK'
  BY <1>2 DEF TypeOK
<1>4. FinalVersion' /\ OneFirstDraft' /\ LocksApart' /\ Bounded'
  BY DEF FinalVersion, OneFirstDraft, LocksApart, Bounded
<1>5. ActiveOwnsTask'
  BY <1>1, <1>2, DocumentAssumption DEF ActiveOwnsTask, OwnStates, RowHeld
<1>6. RowHeld' /\ Loaded' /\ Checked'
  BY DEF RowHeld, Loaded, Checked, Overlaps
<1>7. InitialFinal'
  BY <1>1, <1>2 DEF InitialFinal
<1> QED BY <1>3, <1>4, <1>5, <1>6, <1>7

\* A succeeded operation keeps the invariant.
LEMMA SucceedStep ==
    ASSUME Inv, Succeed
    PROVE  Inv'
<1> USE DEF Succeed, Inv, IInv
<1>1. active \in Operation /\ active.kind \in AiOperationKind
  BY DEF TypeOK, Operation
<1>2. versions \subseteq versions' /\ versions' \subseteq Versions
      /\ drafts' \subseteq versions' /\ final' \subseteq versions'
  BY DEF TypeOK, Fresh
<1>3. TypeOK'
  BY <1>1, <1>2, Domain DEF TypeOK
<1>4. FinalVersion' /\ LocksApart' /\ Bounded'
  BY <1>1, Domain DEF FinalVersion, LocksApart, Bounded
<1>5. OneFirstDraft'
  BY DEF OneFirstDraft, DraftAllowed
<1>6. ActiveOwnsTask' /\ InitialFinal'
  BY DEF ActiveOwnsTask, InitialFinal
<1>7. RowHeld' /\ Checked'
  BY DEF RowHeld, Checked, Overlaps
<1>8. Loaded'
  BY <1>2 DEF Loaded
<1> QED BY <1>3, <1>4, <1>5, <1>6, <1>7, <1>8

\* A reset leaves a state that the task had, or the operation's initial one.
LEMMA ResetStates ==
    ASSUME NEW o, state' = ResetFrom(o) \/ state' = o.initial
    PROVE  state' \in {state, o.initial}
BY DEF ResetFrom

\* A failed or cancelled operation keeps the invariant.
LEMMA FailStep ==
    ASSUME Inv, Fail
    PROVE  Inv'
<1> USE DEF Fail, Inv, IInv, document
<1>1. active \in Operation /\ active.initial \in TaskState
  BY DEF TypeOK, Operation
<1>2. state' \in {state, active.initial}
  BY ResetStates
<1>3. TypeOK'
  BY <1>1, <1>2 DEF TypeOK
<1>4. FinalVersion'
  BY <1>2 DEF FinalVersion, InitialFinal
<1>5. OneFirstDraft' /\ LocksApart' /\ Bounded'
  BY DEF OneFirstDraft, LocksApart, Bounded
<1>6. ActiveOwnsTask' /\ InitialFinal'
  BY DEF ActiveOwnsTask, InitialFinal
<1>7. RowHeld' /\ Loaded' /\ Checked'
  BY DEF RowHeld, Loaded, Checked, Overlaps
<1> QED BY <1>3, <1>4, <1>5, <1>6, <1>7

\* A worker that is gone, its operation put back or not, keeps the invariant.
LEMMA AbandonStep ==
    ASSUME Inv, Abandon
    PROVE  Inv'
<1> USE DEF Abandon, Inv, IInv, document
<1>1. active \in Operation /\ active.initial \in TaskState
  BY DEF TypeOK, Operation
<1>2. /\ active' \in Operation /\ active'.phase = "abandoned"
      /\ active'.kind = active.kind /\ active'.initial = active.initial
  BY <1>1 DEF Operation
<1>3. state' \in {state, active.initial}
  BY ResetStates
<1>4. TypeOK'
  BY <1>1, <1>2, <1>3 DEF TypeOK
<1>5. FinalVersion'
  BY <1>3 DEF FinalVersion, InitialFinal
<1>6. OneFirstDraft' /\ LocksApart' /\ Bounded'
  BY DEF OneFirstDraft, LocksApart, Bounded
<1>7. ActiveOwnsTask'
  <2>1. state \in {RunningState(active.kind)} \cup {o.initial : o \in ended}
    BY DEF ActiveOwnsTask, OwnStates
  <2>2. state' \in OwnStates'
    BY <1>2, <1>3, <2>1 DEF OwnStates
  <2>3. \A r \in Requests : req'[r].pc # "locked"
    BY DEF ActiveOwnsTask
  <2> QED BY <2>2, <2>3 DEF ActiveOwnsTask
<1>8. InitialFinal'
  BY <1>1, <1>2 DEF InitialFinal
<1>9. RowHeld' /\ Loaded' /\ Checked'
  BY DEF RowHeld, Loaded, Checked, Overlaps
<1> QED BY <1>4, <1>5, <1>6, <1>7, <1>8, <1>9

\* A process late for an operation that has ended keeps the invariant.
LEMMA LateStep ==
    ASSUME Inv, NEW o \in ended, LateReset(o)
    PROVE  Inv'
<1> USE DEF LateReset, Inv, IInv, document
<1>1. o \in Operation /\ o.initial \in TaskState
  BY DEF TypeOK, Operation
<1>2. state' \in {state, o.initial}
  BY ResetStates
<1>3. TypeOK'
  BY <1>1, <1>2 DEF TypeOK
<1>4. FinalVersion'
  BY <1>1, <1>2 DEF FinalVersion, InitialFinal
<1>5. OneFirstDraft' /\ LocksApart' /\ Bounded' /\ InitialFinal'
  BY DEF OneFirstDraft, LocksApart, Bounded, InitialFinal
<1>6. ActiveOwnsTask'
  BY <1>2 DEF ActiveOwnsTask, OwnStates
<1>7. RowHeld' /\ Loaded' /\ Checked'
  BY DEF RowHeld, Loaded, Checked, Overlaps
<1> QED BY <1>3, <1>4, <1>5, <1>6, <1>7

\* Loading a task and a version keeps the invariant.
LEMMA LoadStep ==
    ASSUME Inv, NEW r \in Requests, Load(r)
    PROVE  Inv'
<1> USE DEF Inv, IInv, document
<1>1. PICK kind \in Kinds, v \in versions \cup {None}, x \in Ranges \cup {None},
           order \in {l.order : l \in locks} \cup {0} :
        /\ kind \in {"manual_edit", "create_lock", "finalize"} <=> v # None
        /\ kind = "create_lock" <=> x # None
        /\ req' = [req EXCEPT ![r] =
                     [pc |-> "loaded", kind |-> kind, seen |-> state, seenFrom |-> from,
                      version |-> v, range |-> x, order |-> order]]
  BY DEF Load
<1>2. UNCHANGED <<state, from, active, ended, submits, versions, drafts, final, locks, inputs, row, prev>>
  BY DEF Load
<1>3. order \in Nat /\ kind \in RequestKind /\ v \in Versions \cup {None}
  BY DocumentAssumption DEF TypeOK, Fragment
<1> DEFINE q == [pc |-> "loaded", kind |-> kind, seen |-> state, seenFrom |-> from,
                 version |-> v, range |-> x, order |-> order]
<1>4. q \in Request
  BY <1>3 DEF Request, TypeOK
<1>5. req' \in [Requests -> Request] /\ req'[r] = q
      /\ \A s \in Requests : s # r => req'[s] = req[s]
  <2> HIDE DEF q
  <2>1. req' = [req EXCEPT ![r] = q]
    BY <1>1 DEF q
  <2> QED BY <1>4, <2>1 DEF TypeOK
<1>6. /\ req'[r].pc = "loaded" /\ req'[r].kind = kind /\ req'[r].seen = state
      /\ req'[r].seenFrom = from /\ req'[r].version = v /\ req'[r].range = x
  BY <1>5
<1> HIDE DEF q
<1>7. TypeOK'
  BY <1>2, <1>5 DEF TypeOK
<1>8. FinalVersion' /\ OneFirstDraft' /\ LocksApart' /\ Bounded' /\ InitialFinal'
  BY <1>2 DEF FinalVersion, OneFirstDraft, LocksApart, Bounded, InitialFinal
<1>9. ActiveOwnsTask' /\ Checked'
  BY <1>2, <1>5, <1>6 DEF ActiveOwnsTask, OwnStates, Checked, Overlaps
<1>10. RowHeld'
  <2>1. req[r].pc = "new"
    BY DEF Load
  <2> QED BY <1>2, <1>5, <1>6, <2>1 DEF RowHeld
<1>11. Loaded'
  <2>1. (kind \in {"manual_edit", "create_lock", "finalize"} => v \in versions)
        /\ (kind = "create_lock" => x \in Ranges)
    BY <1>1, DocumentAssumption
  <2>2. "finalized" \in {state, from} => final # {}
    BY DEF FinalVersion
  <2> QED BY <1>2, <1>5, <1>6, <2>1, <2>2 DEF Loaded
<1> QED BY <1>7, <1>8, <1>9, <1>10, <1>11

\* Taking the row lock, or being refused under it, keeps the invariant.
LEMMA LockStep ==
    ASSUME Inv, NEW r \in Requests, Lock(r)
    PROVE  Inv'
<1> USE DEF Inv, IInv, document
<1>1. /\ UNCHANGED <<state, from, active, ended, submits, versions, drafts, final, locks, inputs, prev>>
      /\ req[r].pc = "loaded" /\ row = None
  BY DEF Lock, RowFree
<1>2. req \in [Requests -> Request] /\ locks \subseteq Fragment
  BY DEF TypeOK
<1>3. FinalVersion' /\ OneFirstDraft' /\ LocksApart' /\ Bounded' /\ InitialFinal'
  BY <1>1 DEF FinalVersion, OneFirstDraft, LocksApart, Bounded, InitialFinal
<1>4. \A s \in Requests : req[s].pc # "locked"
  BY <1>1, DocumentAssumption DEF RowHeld
<1>5. CASE Busy \/ Refused(req[r])
  <2>1. req' = [req EXCEPT ![r].pc = "done"] /\ row' = None
    BY <1>1, <1>5 DEF Lock
  <2>2. req'[r].pc = "done" /\ \A s \in Requests : s # r => req'[s] = req[s]
    BY <1>2, <2>1 DEF Request
  <2>3. req' \in [Requests -> Request]
    BY <1>2, <2>1 DEF Request
  <2>4. TypeOK'
    BY <1>1, <2>1, <2>3 DEF TypeOK
  <2>5. \A s \in Requests : req'[s].pc # "locked"
    BY <1>4, <2>2
  <2>6. ActiveOwnsTask' /\ RowHeld' /\ Checked'
    BY <1>1, <2>1, <2>5, DocumentAssumption DEF ActiveOwnsTask, OwnStates, RowHeld, Checked
  <2>7. Loaded'
    BY <1>1, <2>2 DEF Loaded
  <2> QED BY <1>3, <2>4, <2>6, <2>7
<1>6. CASE ~(Busy \/ Refused(req[r]))
  <2>1. PICK order : order = IF req[r].kind = "create_lock" THEN NextOrder ELSE req[r].order
    OBVIOUS
  <2>2. NextOrder \in Nat /\ \A l \in locks : l.order < NextOrder
    BY <1>2, NextOrderIsNext
  <2>3. order \in Nat
    BY <1>2, <2>1, <2>2 DEF Request
  <2>4. req' = [req EXCEPT ![r] = [req[r] EXCEPT !.pc = "locked", !.order = order]] /\ row' = r
    BY <1>2, <1>6, <2>1 DEF Lock, Request
  <2>5. /\ req'[r].pc = "locked" /\ req'[r].order = order
        /\ req'[r].kind = req[r].kind /\ req'[r].seen = req[r].seen
        /\ req'[r].seenFrom = req[r].seenFrom /\ req'[r].version = req[r].version
        /\ req'[r].range = req[r].range
        /\ \A s \in Requests : s # r => req'[s] = req[s]
    BY <1>2, <2>4 DEF Request
  <2>6. req' \in [Requests -> Request]
    BY <1>2, <2>3, <2>4, ZenonT(40) DEF Request
  <2>7. TypeOK'
    BY <1>1, <2>4, <2>6 DEF TypeOK
  <2>8. ActiveOwnsTask'
    BY <1>1, <1>6 DEF ActiveOwnsTask, Busy
  <2>9. RowHeld'
    BY <1>4, <2>4, <2>5 DEF RowHeld
  <2>10. Loaded'
    BY <1>1, <2>5 DEF Loaded
  <2>11. Checked'
    <3>1. req[r].kind = "restore" => req[r].seenFrom # None
      BY <1>6 DEF Refused, TaskNotRestorable
    <3>2. req[r].kind = "create_lock" => ~Overlaps(req[r].version, req[r].range)
      BY <1>6 DEF Refused, LockOverlap
    <3>3. req[r].kind = "create_lock" => \A l \in locks : l.order < order
      BY <2>1, <2>2
    <3> QED BY <1>1, <1>4, <2>5, <3>1, <3>2, <3>3 DEF Checked, Overlaps
  <2> QED BY <1>3, <2>7, <2>8, <2>9, <2>10, <2>11
<1> QED BY <1>5, <1>6

\* The columns a handler writes keep their types and what they promise.
LEMMA WriteKeeps ==
    ASSUME Inv, NEW r \in Requests, req[r].pc = "locked", Write(r)
    PROVE  /\ state' \in TaskState /\ from' \in TaskState \cup {None}
           /\ versions \subseteq versions' /\ versions' \subseteq Versions
           /\ drafts' = drafts /\ final' \subseteq versions'
           /\ final # {} => final' # {}
           /\ locks' \subseteq Fragment /\ inputs' \in Requests \cup {None}
           /\ FinalVersion' /\ LocksApart' /\ Bounded'
<1> USE DEF Inv, IInv, document, Write, UpdateTask, UpdateNotes, ArchiveTask, RestoreTask,
            CreateManualEdit, CreateLock, DeleteLock, FinalizeVersion
<1>1. /\ req[r] \in Request /\ req[r].kind \in RequestKind
      /\ req[r].seen \in TaskState /\ req[r].seenFrom \in TaskState \cup {None}
      /\ req[r].order \in Nat
  BY DEF TypeOK, Request
<1>2. /\ state \in TaskState /\ from \in TaskState \cup {None}
      /\ versions \subseteq Versions /\ final \subseteq versions
      /\ locks \subseteq Fragment /\ inputs \in Requests \cup {None}
  BY DEF TypeOK
<1>3. "finalized" \in {req[r].seen, req[r].seenFrom} => final # {}
  BY DEF Loaded
<1>4. {"archived", "editing", "finalized"} \subseteq TaskState
  BY Domain
<1>5. CASE req[r].kind \in {"update", "notes"}
  <2>1. inputs' = r /\ UNCHANGED <<state, from, versions, drafts, final, locks>>
    BY <1>5 DEF Write
  <2> QED BY <1>2, <2>1 DEF FinalVersion, LocksApart, Bounded
<1>6. CASE req[r].kind = "archive"
  <2>1. /\ state' = Flush(req[r].seen, "archived", state)
        /\ from' = Flush(req[r].seenFrom,
                         IF req[r].seen = "archived" THEN req[r].seenFrom ELSE req[r].seen, from)
        /\ UNCHANGED <<versions, drafts, final, locks, inputs>>
    BY <1>6 DEF Write
  <2>2. state' \in {"archived", state} /\ from' \in {req[r].seenFrom, req[r].seen, from}
    BY <2>1 DEF Flush
  <2>3. "finalized" \in {state', from'} => final' # {}
    BY <1>3, <2>1, <2>2 DEF FinalVersion
  <2>4. LocksApart' /\ Bounded'
    BY <2>1 DEF LocksApart, Bounded
  <2> QED BY <1>1, <1>2, <1>4, <2>1, <2>2, <2>3, <2>4 DEF FinalVersion
<1>7. CASE req[r].kind = "restore"
  <2>1. /\ state' = Flush(req[r].seen, req[r].seenFrom, state)
        /\ from' = Flush(req[r].seenFrom, None, from)
        /\ UNCHANGED <<versions, drafts, final, locks, inputs>>
    BY <1>7 DEF Write
  <2>2. state' \in {req[r].seenFrom, state} /\ from' \in {None, from}
    BY <2>1 DEF Flush
  <2>3. req[r].seenFrom \in TaskState
    BY <1>1, <1>7 DEF Checked
  <2>4. "finalized" \in {state', from'} => final' # {}
    BY <1>3, <1>4, <2>1, <2>2, DocumentAssumption DEF FinalVersion
  <2>5. LocksApart' /\ Bounded'
    BY <2>1 DEF LocksApart, Bounded
  <2> QED BY <1>2, <2>1, <2>2, <2>3, <2>4, <2>5 DEF FinalVersion
<1>8. CASE req[r].kind = "manual_edit"
  <2>1. /\ \E v \in Versions : versions' = versions \cup {v}
        /\ state' = Flush(req[r].seen, "editing", state)
        /\ UNCHANGED <<from, drafts, final, locks, inputs>>
    BY <1>8 DEF Write
  <2>2. state' \in {"editing", state}
    BY <2>1 DEF Flush
  <2>3. FinalVersion' /\ LocksApart' /\ Bounded'
    BY <2>1, <2>2 DEF FinalVersion, LocksApart, Bounded
  <2> QED BY <1>2, <1>4, <2>1, <2>2, <2>3
<1>9. CASE req[r].kind = "create_lock"
  <2>1. PICK f : f = [version |-> req[r].version, range |-> req[r].range, order |-> req[r].order]
    OBVIOUS
  <2>2. locks' = locks \cup {f} /\ UNCHANGED <<state, from, versions, drafts, final, inputs>>
    BY <1>9, <2>1 DEF Write
  <2>3. req[r].version \in Versions /\ req[r].range \in Ranges
    BY <1>2, <1>9 DEF Loaded
  <2>4. f \in Fragment
    BY <1>1, <2>1, <2>3 DEF Fragment
  <2>5. f.version = req[r].version /\ f.range = req[r].range /\ f.order = req[r].order
    BY <2>1
  <2>6. \A l \in locks : l.order < f.order
    BY <1>9, <2>5 DEF Checked
  <2>7. \A l \in locks : l.version = f.version =>
          f.range.end <= l.range.start \/ l.range.end <= f.range.start
    <3> SUFFICES ASSUME NEW l \in locks, l.version = f.version
                 PROVE  f.range.end <= l.range.start \/ l.range.end <= f.range.start
      OBVIOUS
    <3>1. ~(f.range.start < l.range.end /\ f.range.end > l.range.start)
      BY <1>9, <2>5 DEF Checked, Overlaps
    <3>2. f.range \in Ranges /\ l.range \in Ranges
      BY <1>2, <2>4 DEF Fragment
    <3>3. /\ f.range.start \in Int /\ f.range.end \in Int
          /\ l.range.start \in Int /\ l.range.end \in Int
      BY <3>2 DEF Ranges
    <3> QED BY <3>1, <3>3
  <2>8. f.order \in Nat /\ \A l \in locks : l.order \in Nat
    BY <1>2, <2>4 DEF Fragment
  <2>9. LocksApart'
    <3> SUFFICES ASSUME NEW k \in locks', NEW l \in locks', k # l
                 PROVE  /\ k.order # l.order
                        /\ k.version = l.version =>
                             k.range.end <= l.range.start \/ l.range.end <= k.range.start
      BY DEF LocksApart
    <3>1. CASE k \in locks /\ l \in locks
      BY <3>1 DEF LocksApart
    <3>2. CASE k = f /\ l \in locks
      BY <2>6, <2>7, <2>8, <3>2
    <3>3. CASE l = f /\ k \in locks
      BY <2>6, <2>7, <2>8, <3>3
    <3> QED BY <2>2, <3>1, <3>2, <3>3
  <2>10. Bounded'
    <3>1. f.order + 1 \in Nat /\ \A l \in locks' : l.order < f.order + 1
      BY <2>2, <2>6, <2>8
    <3> QED BY <3>1 DEF Bounded
  <2> QED BY <1>2, <2>2, <2>4, <2>9, <2>10 DEF FinalVersion
<1>10. CASE req[r].kind = "delete_lock"
  <2>1. locks' = {l \in locks : l.order # req[r].order}
        /\ UNCHANGED <<state, from, versions, drafts, final, inputs>>
    BY <1>10 DEF Write
  <2>2. FinalVersion' /\ LocksApart' /\ Bounded'
    BY <2>1 DEF FinalVersion, LocksApart, Bounded
  <2> QED BY <1>2, <2>1, <2>2
<1>11. CASE req[r].kind = "finalize"
  <2>1. /\ final' = {req[r].version} /\ state' = Flush(req[r].seen, "finalized", state)
        /\ UNCHANGED <<from, versions, drafts, locks, inputs>>
    BY <1>11 DEF Write, FinalAfter
  <2>2. state' \in {"finalized", state}
    BY <2>1 DEF Flush
  <2>3. req[r].version \in versions
    BY <1>11 DEF Loaded
  <2>4. FinalVersion' /\ LocksApart' /\ Bounded'
    BY <2>1 DEF FinalVersion, LocksApart, Bounded
  <2> QED BY <1>2, <1>4, <2>1, <2>2, <2>3, <2>4
<1> QED BY <1>1, <1>5, <1>6, <1>7, <1>8, <1>9, <1>10, <1>11 DEF RequestKind

\* A committed handler keeps the invariant.
LEMMA CommitStep ==
    ASSUME Inv, NEW r \in Requests, Commit(r)
    PROVE  Inv'
<1> USE DEF Inv, IInv
<1>1. /\ req[r].pc = "locked" /\ Write(r) /\ row' = None
      /\ req' = [req EXCEPT ![r].pc = "done"] /\ UNCHANGED <<active, ended, submits>>
  BY DEF Commit
<1>2. req \in [Requests -> Request] /\ row = r /\ active = None
  BY <1>1 DEF TypeOK, RowHeld, ActiveOwnsTask
<1>3. req'[r].pc = "done" /\ \A s \in Requests : s # r => req'[s] = req[s]
  BY <1>1, <1>2 DEF Request
<1>4. req' \in [Requests -> Request]
  BY <1>1, <1>2 DEF Request
<1>5. \A s \in Requests : req'[s].pc # "locked"
  BY <1>2, <1>3 DEF RowHeld
<1>6. /\ state' \in TaskState /\ from' \in TaskState \cup {None}
      /\ versions \subseteq versions' /\ versions' \subseteq Versions
      /\ drafts' = drafts /\ final' \subseteq versions'
      /\ final # {} => final' # {}
      /\ locks' \subseteq Fragment /\ inputs' \in Requests \cup {None}
      /\ FinalVersion' /\ LocksApart' /\ Bounded'
  BY <1>1, WriteKeeps
<1>7. prev' \in TaskState \cup {None}
  BY DEF Commit, TypeOK
<1>8. TypeOK'
  BY <1>1, <1>4, <1>6, <1>7 DEF TypeOK
<1>9. OneFirstDraft'
  BY <1>6 DEF OneFirstDraft
<1>10. ActiveOwnsTask' /\ RowHeld' /\ Checked'
  BY <1>1, <1>2, <1>5, DocumentAssumption DEF ActiveOwnsTask, RowHeld, Checked
<1>12. InitialFinal'
  BY <1>1, <1>6 DEF InitialFinal
<1>11. Loaded'
  BY <1>3, <1>6 DEF Loaded
<1> QED BY <1>6, <1>8, <1>9, <1>10, <1>11, <1>12

\* Every step keeps the invariant.
LEMMA InvStep == Inv /\ [Next]_vars => Inv'
<1> SUFFICES ASSUME Inv, [Next]_vars PROVE Inv'
  OBVIOUS
<1>1. ASSUME NEW k \in AiOperationKind, Submit(k) PROVE Inv'
  BY <1>1, SubmitStep
<1>2. CASE Succeed
  BY <1>2, SucceedStep
<1>3. CASE Fail
  BY <1>3, FailStep
<1>8. CASE Claim
  BY <1>8, ClaimStep
<1>9. CASE Abandon
  BY <1>9, AbandonStep
<1>10. ASSUME NEW o \in ended, LateReset(o) PROVE Inv'
  BY <1>10, LateStep
<1>4. ASSUME NEW r \in Requests, Load(r) PROVE Inv'
  BY <1>4, LoadStep
<1>5. ASSUME NEW r \in Requests, Lock(r) PROVE Inv'
  BY <1>5, LockStep
<1>6. ASSUME NEW r \in Requests, Commit(r) PROVE Inv'
  BY <1>6, CommitStep
<1>7. CASE UNCHANGED vars
  BY <1>7 DEF vars, Inv, IInv, TypeOK, OneFirstDraft, FinalVersion, LocksApart, ActiveOwnsTask,
              OwnStates, RowHeld, Loaded, Checked, Overlaps, InitialFinal, Bounded
<1> QED BY <1>1, <1>2, <1>3, <1>4, <1>5, <1>6, <1>7, <1>8, <1>9, <1>10 DEF Next

\* The inductive invariant: row lock, loaded values and the checks under the lock.
THEOREM DocumentInvariant == Spec => []Inv
<1>1. Init => Inv
  BY InvInit
<1>2. Inv /\ [Next]_vars => Inv'
  BY InvStep
<1> QED BY <1>1, <1>2, PTL DEF Spec

\* Every column, row and request of TaskDocument keeps its type.
THEOREM TypeCorrect == Spec => []TypeOK
<1>1. Inv => TypeOK
  BY DEF Inv, IInv
<1> QED BY <1>1, DocumentInvariant, PTL

\* However handlers and operations interleave, create_first_draft never adds a
\* second first draft.
THEOREM OneDraft == Spec => []OneFirstDraft
<1>1. Inv => OneFirstDraft
  BY DEF Inv, IInv
<1> QED BY <1>1, DocumentInvariant, PTL

\* finalize_version keeps one current final version, and a finalized task has it.
THEOREM OneFinal == Spec => []FinalVersion
<1>1. Inv => FinalVersion
  BY DEF Inv, IInv
<1> QED BY <1>1, DocumentInvariant, PTL

\* create_lock never stores overlapping fragments or a second use of an order_index.
THEOREM FragmentsApart == Spec => []LocksApart
<1>1. Inv => LocksApart
  BY DEF Inv, IInv
<1> QED BY <1>1, DocumentInvariant, PTL

\* No handler holds the row under an active operation, so only a reset that is late,
\* or the operation's own abandoned one, takes the task out of its running state.
THEOREM OperationOwnsTask == Spec => []ActiveOwnsTask
<1>1. Inv => ActiveOwnsTask
  BY DEF Inv, IInv
<1> QED BY <1>1, DocumentInvariant, PTL

\* What an active operation works on stays as it is until it ends.
THEOREM InputsKept == Spec => InputsStable
<1>1. ASSUME Inv, [Next]_vars, active # None, active' # None
      PROVE  UNCHANGED document
  <2>1. ASSUME NEW k \in AiOperationKind, Submit(k) PROVE FALSE
    BY <1>1, <2>1 DEF Submit
  <2>2. ~Succeed /\ ~Fail
    BY <1>1 DEF Succeed, Fail
  <2>3. ASSUME NEW r \in Requests, Load(r) \/ Lock(r) PROVE UNCHANGED document
    BY <2>3 DEF Load, Lock
  <2>6. ASSUME Claim \/ Abandon \/ \E o \in ended : LateReset(o) PROVE UNCHANGED document
    BY <2>6 DEF Claim, Abandon, LateReset
  <2>4. ASSUME NEW r \in Requests, Commit(r) PROVE FALSE
    BY <1>1, <2>4 DEF Commit, Inv, IInv, ActiveOwnsTask
  <2>5. CASE UNCHANGED vars
    BY <2>5 DEF vars, document
  <2> QED BY <1>1, <2>1, <2>2, <2>3, <2>4, <2>5, <2>6 DEF Next
<1>2. Inv /\ [Next]_vars => [active # None /\ active' # None => UNCHANGED document]_vars
  BY <1>1
<1> QED BY <1>2, DocumentInvariant, PTL DEF Spec, InputsStable
=============================================================================
