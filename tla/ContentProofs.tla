---------------------------- MODULE ContentProofs ---------------------------
(***************************************************************************)
(* Proofs about the contents of a document, whatever the provider answers. *)
(* SuggestionRounds: the safety properties hold for a SuggestionSet of any *)
(* sizes, any keys, titles, issues and notes, and any number of analyses   *)
(* and rounds.  LockedText: the validators and the editor keep the locked  *)
(* fragments, for any alphabet, texts of any length and any number of      *)
(* versions and fragments.                                                 *)
(***************************************************************************)
EXTENDS SuggestionRounds, LockedText, FiniteSetTheorems, SequenceTheorems, TLAPS

-----------------------------------------------------------------------------
(* Sizes *)

\* A function that tells the elements of a finite set apart has as many values.
LEMMA InjectiveImage ==
    ASSUME NEW S, IsFiniteSet(S), NEW f, NEW img,
           \A x, y \in S : f[x] = f[y] => x = y,
           img = {f[x] : x \in S}
    PROVE  IsFiniteSet(img) /\ Cardinality(img) = Cardinality(S)
<1> DEFINE h == [x \in S |-> f[x]]
<1>1. h \in [S -> img]
  OBVIOUS
<1>2. h \in Injection(S, img)
  BY <1>1 DEF Injection, IsInjective
<1>3. h \in Surjection(S, img)
  BY <1>1 DEF Surjection
<1>4. h \in Bijection(S, img)
  BY <1>2, <1>3 DEF Bijection
<1>5. ExistsBijection(S, img)
  BY <1>4 DEF ExistsBijection
<1> QED BY <1>5, FS_Bijection

\* Two finite sets with nothing in common: the sizes add up.
LEMMA DisjointUnion ==
    ASSUME NEW S, NEW T, IsFiniteSet(S), IsFiniteSet(T), S \cap T = {}
    PROVE  /\ IsFiniteSet(S \cup T)
           /\ Cardinality(S \cup T) = Cardinality(S) + Cardinality(T)
<1>1. Cardinality({}) = 0
  BY FS_EmptySet
<1>2. /\ IsFiniteSet(S \cup T)
      /\ Cardinality(S \cup T) = Cardinality(S) + Cardinality(T) - Cardinality(S \cap T)
  BY FS_Union
<1>3. Cardinality(S) \in Nat /\ Cardinality(T) \in Nat
  BY FS_CardinalityType
<1>4. Cardinality(S \cap T) = 0
  BY <1>1
<1> QED BY <1>2, <1>3, <1>4

-----------------------------------------------------------------------------
(* The task's states *)

\* A kind's running state is a running state, its succeeded state is stable.
LEMMA KindStates ==
    \A k \in AiOperationKind :
      /\ RunningState(k) \in RunningStates /\ RunningState(k) \in TaskState
      /\ SucceededState(k) \in TaskState
BY DEF AiOperationKind, RunningState, RunningStates, SucceededState, TaskState

\* assert_transition lets a running state be entered only from a stable one.
LEMMA EnterFromStable ==
    ASSUME NEW s \in TaskState, NEW k \in AiOperationKind,
           AssertTransition(s, RunningState(k))
    PROVE  s \in StableStates
<1>1. RunningState(k) \in RunningStates
  BY KindStates
<1>2. RunningState(k) \in AllowedTransitions(s)
  BY <1>1 DEF AssertTransition, RunningStates
<1>3. s \notin RunningStates
  BY <1>1, <1>2 DEF AllowedTransitions, RunningStates
<1> QED BY <1>3 DEF StableStates

\* The record of an operation, by its fields.
LEMMA OperationRecord ==
    ASSUME NEW k \in AiOperationKind, NEW s \in StableStates,
           NEW n \in (1..MaxAnalyses) \cup {None}, NEW a \in SUBSET Id
    PROVE  [kind |-> k, initial |-> s, analysis |-> n, accepted |-> a] \in Operation
BY DEF Operation

-----------------------------------------------------------------------------
(* Assigning to suggestions *)

\* What Submit and PATCH do to the table: the columns id, analysis and key stay,
\* so no suggestion is lost, doubled or moved, and every analysis keeps as many
\* with the keys they had.
LEMMA Assigned ==
    ASSUME TypeOK, Numbered, EachSetComplete, NEW g \in [rows -> Row],
           \A r \in rows : /\ g[r].id = r.id /\ g[r].key = r.key
                           /\ g[r].analysis = r.analysis,
           rows' = {g[r] : r \in rows},
           analyses' = analyses, round' = round
    PROVE  /\ rows' \subseteq Row /\ Numbered' /\ EachSetComplete'
           /\ \A n : Of(n) # {} => Of(n)' # {}
<1>1. rows' \subseteq Row
  OBVIOUS
<1>2. \A r, s \in rows : g[r] = g[s] => r = s
  BY DEF Numbered
<1>3. IsFiniteSet(rows')
  <2>1. IsFiniteSet(rows)
    BY DEF Numbered
  <2> QED BY <2>1, <1>2, InjectiveImage
<1>4. \A r \in rows' : r.analysis \in 1..Len(analyses) /\ r.id[1] <= round
  BY DEF Numbered
<1>5. \A r, s \in rows' : r.id = s.id => r = s
  BY DEF Numbered
<1>6. Numbered'
  BY <1>3, <1>4, <1>5 DEF Numbered
<1>7. ASSUME NEW n \in 1..Len(analyses)
      PROVE  Of(n)' = {} \/ IsSuggestionSet(Of(n)')
  <2>1. IsFiniteSet(Of(n))
    <3>1. Of(n) \in SUBSET rows /\ IsFiniteSet(rows)
      BY DEF Of, Numbered
    <3> QED BY <3>1, FS_Subset
  <2>2. \A r, s \in Of(n) : g[r] = g[s] => r = s
    BY <1>2 DEF Of
  <2>3. Of(n)' = {g[r] : r \in Of(n)}
    BY DEF Of
  <2>4. Of(n) = {} \/ IsSuggestionSet(Of(n))
    BY DEF EachSetComplete
  <2>5. CASE Of(n) = {}
    BY <2>3, <2>5
  <2>6. CASE IsSuggestionSet(Of(n))
    <3>1. IsFiniteSet(Of(n)') /\ Cardinality(Of(n)') = Cardinality(Of(n))
      BY <2>1, <2>2, <2>3, InjectiveImage
    <3>2. \A r, s \in Of(n) : r.key = s.key => r = s
      BY <2>6 DEF IsSuggestionSet
    <3>3. \A r, s \in Of(n)' : r.key = s.key => r = s
      BY <2>3, <3>2 DEF Of
    <3> QED BY <2>6, <3>1, <3>3 DEF IsSuggestionSet
  <2> QED BY <2>4, <2>5, <2>6
<1>8. EachSetComplete'
  BY <1>7 DEF EachSetComplete
<1>9. \A n : Of(n) # {} => Of(n)' # {}
  BY DEF Of
<1> QED BY <1>1, <1>6, <1>8, <1>9

-----------------------------------------------------------------------------
(* The steps that leave the table of suggestions alone *)

\* A table that does not change keeps its numbering and its sets, when analyses
\* are only corrected or added.
LEMMA TableUnchanged ==
    ASSUME TypeOK, Numbered, EachSetComplete,
           rows' = rows, round' = round, analyses' \in Seq(SUBSET Issues),
           Len(analyses') \in {Len(analyses), Len(analyses) + 1}
    PROVE  Numbered' /\ EachSetComplete'
<1>1. Len(analyses) \in Nat
  BY DEF TypeOK
<1>2. Numbered'
  BY <1>1 DEF Numbered
<1>3. \A n : Of(n)' = Of(n)
  BY DEF Of
<1>4. Of(Len(analyses) + 1) = {}
  BY <1>1 DEF Of, Numbered
<1>5. ASSUME NEW n \in 1..Len(analyses'), n \notin 1..Len(analyses)
      PROVE  Of(n)' = {}
  <2>1. n = Len(analyses) + 1
    BY <1>1, <1>5
  <2> QED BY <2>1, <1>3, <1>4
<1>6. ASSUME NEW n \in 1..Len(analyses')
      PROVE  Of(n)' = {} \/ IsSuggestionSet(Of(n)')
  BY <1>3, <1>5, <1>6 DEF EachSetComplete
<1>7. EachSetComplete'
  BY <1>6 DEF EachSetComplete
<1> QED BY <1>2, <1>7

\* The fields of the page and of the operation.
LEMMA Fields ==
    ASSUME TypeOK
    PROVE  /\ page.analysis \in (1..MaxAnalyses) \cup {None}
           /\ page.ids \in SUBSET Id
           /\ op # None => op \in Operation
           /\ op # None => op.kind \in AiOperationKind /\ op.initial \in StableStates
BY DEF TypeOK, Operation

\* Every initial state satisfies the invariant.
LEMMA InitInv == Init => IInv
<1> SUFFICES ASSUME Init PROVE IInv
  OBVIOUS
<1>1. TypeOK
  BY SizeAssumption DEF Init, TypeOK, TaskState
<1>2. IsFiniteSet(rows)
  BY FS_EmptySet DEF Init
<1>3. Numbered
  BY <1>2 DEF Init, Numbered
<1>4. EachSetComplete
  BY DEF Init, EachSetComplete
<1>5. SnapshotHolds
  BY DEF Init, SnapshotHolds
<1>6. Supplied
  BY DEF Init, Supplied
<1> QED BY <1>1, <1>3, <1>4, <1>5, <1>6 DEF IInv

\* The page loads an analysis or its suggestions.
LEMMA LoadInv ==
    ASSUME IInv, LoadAnalysis \/ LoadSuggestions
    PROVE  IInv'
<1> USE DEF IInv
<1>1. page' \in [analysis : (1..MaxAnalyses) \cup {None}, ids : SUBSET Id]
  <2>1. CASE LoadAnalysis
    <3>1. PICK n \in selected : page' = [page EXCEPT !.analysis = n]
      BY <2>1 DEF LoadAnalysis
    <3>2. n \in 1..MaxAnalyses
      BY SizeAssumption DEF TypeOK
    <3> QED BY <3>1, <3>2 DEF TypeOK
  <2>2. CASE LoadSuggestions
    <3>1. PICK n \in selected : page' = [page EXCEPT !.ids = Ids(Of(n))]
      BY <2>2 DEF LoadSuggestions
    <3>2. Ids(Of(n)) \in SUBSET Id
      BY DEF TypeOK, Ids, Of, Row
    <3> QED BY <3>1, <3>2 DEF TypeOK
  <2> QED BY <2>1, <2>2
<1>2. UNCHANGED <<state, analyses, selected, rows, round, op>>
  BY DEF LoadAnalysis, LoadSuggestions
<1>3. TypeOK'
  BY <1>1, <1>2 DEF TypeOK
<1>4. Numbered' /\ EachSetComplete'
  BY <1>2, TableUnchanged DEF TypeOK
<1>5. SnapshotHolds'
  BY <1>2 DEF SnapshotHolds, Selected, Of, Ids
<1>6. Supplied'
  BY <1>2 DEF Supplied, Of
<1> QED BY <1>3, <1>4, <1>5, <1>6

\* Submission of an analysis: nothing of the table is involved.
LEMMA SubmitAnalysisInv ==
    ASSUME IInv, SubmitAnalysis
    PROVE  IInv'
<1> USE DEF IInv
<1>1. state \in StableStates
  <2>1. "analysis" \in AiOperationKind /\ RunningState("analysis") = "analyzing"
    BY DEF AiOperationKind, RunningState
  <2>2. AssertTransition(state, RunningState("analysis")) /\ state \in TaskState
    BY <2>1 DEF SubmitAnalysis, TypeOK
  <2> QED BY <2>1, <2>2, EnterFromStable
<1>2. op' \in Operation
  BY <1>1 DEF SubmitAnalysis, Operation, AiOperationKind
<1>3. TypeOK'
  BY <1>2 DEF SubmitAnalysis, TypeOK, TaskState
<1>4. Numbered' /\ EachSetComplete'
  BY TableUnchanged DEF SubmitAnalysis, TypeOK
<1>5. op'.kind = "analysis"
  BY DEF SubmitAnalysis
<1>6. SnapshotHolds'
  BY <1>5 DEF SnapshotHolds
<1>7. Supplied'
  <2>1. state \notin Suggested
    BY DEF SubmitAnalysis, TypeOK, AssertTransition, AllowedTransitions, Suggested
  <2>2. /\ state' \notin Suggested /\ op'.initial = state /\ op'.kind = "analysis"
        /\ selected' = selected
    BY DEF SubmitAnalysis, Suggested
  <2> QED BY <2>1, <2>2 DEF Supplied
<1> QED BY <1>3, <1>4, <1>6, <1>7

\* PATCH of an analysis: the analyses stay as many.
LEMMA CorrectAnalysisInv ==
    ASSUME IInv, CorrectAnalysis
    PROVE  IInv'
<1> USE DEF IInv
<1>1. PICK n \in 1..Len(analyses), issues \in SUBSET Issues :
        analyses' = [analyses EXCEPT ![n] = issues]
  BY DEF CorrectAnalysis
<1>2. analyses' \in Seq(SUBSET Issues) /\ Len(analyses') = Len(analyses)
  BY <1>1 DEF TypeOK
<1>3. TypeOK'
  BY <1>2 DEF CorrectAnalysis, TypeOK
<1>4. Numbered' /\ EachSetComplete'
  BY <1>2, TableUnchanged DEF CorrectAnalysis
<1>5. SnapshotHolds'
  BY DEF CorrectAnalysis, SnapshotHolds
<1>6. Supplied'
  BY DEF CorrectAnalysis, Supplied, Of
<1> QED BY <1>3, <1>4, <1>5, <1>6

\* An operation that fails, is refused, or stores a version.
LEMMA EndInv ==
    ASSUME IInv, Fail \/ SuggestionsRefused \/ VersionStored
    PROVE  IInv'
<1> USE DEF IInv
<1>1. UNCHANGED <<analyses, selected, rows, round, page>> /\ op' = None
  BY DEF Fail, SuggestionsRefused, VersionStored, End
<1>2. op # None
  BY DEF Fail, SuggestionsRefused, VersionStored, Executing
<1>3. state' \in TaskState
  <2>1. state' = op.initial \/ state' = SucceededState(op.kind)
    BY DEF Fail, SuggestionsRefused, VersionStored, End
  <2> QED BY <1>2, <2>1, Fields, KindStates DEF StableStates
<1>4. TypeOK'
  BY <1>1, <1>3 DEF TypeOK
<1>5. Numbered' /\ EachSetComplete'
  BY <1>1, TableUnchanged DEF TypeOK
<1>6. SnapshotHolds'
  BY <1>1 DEF SnapshotHolds
<1>7. Supplied'
  <2>1. state' \in Suggested => op.initial \in Suggested
    <3>1. CASE Fail \/ SuggestionsRefused
      BY <3>1 DEF Fail, SuggestionsRefused, End
    <3>2. CASE VersionStored
      BY <1>2, <3>2 DEF VersionStored, Executing, Supplied
    <3> QED BY <3>1, <3>2
  <2>2. \A n : Of(n)' = Of(n)
    BY <1>1 DEF Of
  <2> QED BY <1>1, <1>2, <2>1, <2>2 DEF Supplied
<1> QED BY <1>4, <1>5, <1>6, <1>7

\* A new analysis has no suggestions yet.
LEMMA AnalysisStoredInv ==
    ASSUME IInv, AnalysisStored
    PROVE  IInv'
<1> USE DEF IInv
<1>1. /\ analyses' \in Seq(SUBSET Issues)
      /\ Len(analyses') = Len(analyses) + 1
      /\ Len(analyses) \in Nat /\ Len(analyses) < MaxAnalyses
  BY SizeAssumption DEF AnalysisStored, TypeOK
<1>2. selected' \subseteq 1..Len(analyses')
  BY <1>1 DEF AnalysisStored, SelectOnly
<1>3. state' \in TaskState
  BY KindStates DEF AnalysisStored, End, AiOperationKind
<1>4. TypeOK'
  BY <1>1, <1>2, <1>3, SizeAssumption DEF AnalysisStored, End, TypeOK
<1>5. Numbered' /\ EachSetComplete'
  BY <1>1, TableUnchanged DEF AnalysisStored
<1>6. SnapshotHolds'
  BY DEF AnalysisStored, End, SnapshotHolds
<1>7. Supplied'
  <2>1. state' \notin Suggested /\ op' = None
    BY DEF AnalysisStored, End, SucceededState, Suggested
  <2>2. selected' = {Len(analyses) + 1}
    BY DEF AnalysisStored, SelectOnly
  <2> QED BY <2>1, <2>2 DEF Supplied
<1> QED BY <1>4, <1>5, <1>6, <1>7

-----------------------------------------------------------------------------
(* The steps that change the table of suggestions *)

\* PATCH of one suggestion: its decision and note.
LEMMA UpdateSuggestionInv ==
    ASSUME IInv, UpdateSuggestion
    PROVE  IInv'
<1> USE DEF IInv
<1>1. PICK r \in rows, d \in Decision, n \in Notes \cup {None} :
        rows' = (rows \ {r}) \cup {[r EXCEPT !.decision = d, !.note = n]}
  BY DEF UpdateSuggestion
<1>2. UNCHANGED <<state, analyses, selected, round, page, op>> /\ op = None
  BY DEF UpdateSuggestion
<1>3. PICK new : new = [r EXCEPT !.decision = d, !.note = n]
  OBVIOUS
<1>4. /\ new \in Row
      /\ new.id = r.id /\ new.key = r.key /\ new.analysis = r.analysis
  BY <1>3 DEF TypeOK, Row
<1>5. PICK g : g = [s \in rows |-> IF s = r THEN new ELSE s]
  OBVIOUS
<1>6. g \in [rows -> Row]
  BY <1>4, <1>5 DEF TypeOK
<1>7. \A s \in rows : /\ g[s].id = s.id /\ g[s].key = s.key
                      /\ g[s].analysis = s.analysis
  BY <1>4, <1>5
<1>8. rows' = {g[s] : s \in rows}
  BY <1>1, <1>3, <1>5
<1>9. /\ rows' \subseteq Row /\ Numbered' /\ EachSetComplete'
      /\ \A m : Of(m) # {} => Of(m)' # {}
  BY <1>2, <1>6, <1>7, <1>8, Assigned
<1>10. TypeOK'
  BY <1>2, <1>9 DEF TypeOK
<1>11. SnapshotHolds'
  BY <1>2 DEF SnapshotHolds
<1>12. Supplied'
  BY <1>2, <1>9 DEF Supplied
<1> QED BY <1>9, <1>10, <1>11, <1>12

\* Submission with a snapshot: the decisions of the snapshot become those of the
\* table, for the analysis of the snapshot and no other.
LEMMA SubmitInv ==
    ASSUME IInv, NEW kind \in AiOperationKind \ {"analysis"},
           NEW a \in SUBSET page.ids, NEW noted \in SUBSET page.ids, NEW n \in Notes,
           Submit(kind, a, noted, n)
    PROVE  IInv'
<1> USE DEF IInv
<1>1. /\ op = None /\ SnapshotCurrent
      /\ AssertTransition(state, RunningState(kind))
      /\ op' = [kind |-> kind, initial |-> state, analysis |-> page.analysis, accepted |-> a]
      /\ state' = RunningState(kind)
      /\ UNCHANGED <<analyses, selected, round, page>>
  BY DEF Submit
<1>2. PICK g : g = [r \in rows |->
                     IF r.analysis # page.analysis THEN r
                     ELSE [r EXCEPT !.decision = IF r.id \in a THEN "accepted" ELSE "rejected",
                                    !.note = IF r.id \in noted THEN n ELSE None]]
  OBVIOUS
<1>3. rows' = {g[r] : r \in rows}
  BY <1>2 DEF Submit
<1>4. ASSUME NEW r \in rows
      PROVE  /\ g[r] \in Row
             /\ g[r].id = r.id /\ g[r].key = r.key /\ g[r].analysis = r.analysis
             /\ r.analysis = page.analysis =>
                  (g[r].decision = "accepted" <=> r.id \in a)
  <2>1. r \in Row
    BY DEF TypeOK
  <2>2. CASE r.analysis # page.analysis
    BY <1>2, <2>1, <2>2
  <2>3. CASE r.analysis = page.analysis
    <3>1. PICK d, m : /\ d = (IF r.id \in a THEN "accepted" ELSE "rejected")
                      /\ m = (IF r.id \in noted THEN n ELSE None)
      OBVIOUS
    <3>2. d \in Decision /\ m \in Notes \cup {None} /\ (d = "accepted" <=> r.id \in a)
      BY <3>1 DEF Decision
    <3>3. g[r] = [r EXCEPT !.decision = d, !.note = m]
      BY <1>2, <2>3, <3>1
    <3> QED BY <2>1, <3>2, <3>3 DEF Row
  <2> QED BY <2>2, <2>3
<1>5. g \in [rows -> Row]
  BY <1>2, <1>4
<1>6. /\ rows' \subseteq Row /\ Numbered' /\ EachSetComplete'
      /\ \A m : Of(m) # {} => Of(m)' # {}
  BY <1>1, <1>3, <1>4, <1>5, Assigned
<1>7. page.analysis \in 1..MaxAnalyses /\ page.analysis \in selected /\ a \in SUBSET Id
  <2>1. page.analysis \in selected
    BY <1>1 DEF SnapshotCurrent
  <2>2. \A m \in selected : m \in 1..MaxAnalyses
    BY SizeAssumption DEF TypeOK
  <2> QED BY <2>1, <2>2, Fields
<1>8. op' \in Operation
  <2>1. state \in StableStates
    BY <1>1, EnterFromStable DEF TypeOK
  <2> QED BY <1>1, <1>7, <2>1, OperationRecord
<1>9. TypeOK'
  BY <1>1, <1>6, <1>8, KindStates DEF TypeOK
<1>10. SnapshotHolds'
  <2>1. op'.analysis = page.analysis /\ op'.accepted = a
    BY <1>1
  <2>2. op'.analysis \in selected'
    BY <1>1, <1>7, <2>1
  <2>3. \A r \in Of(op.analysis)' : r.decision = "accepted" <=> r.id \in a
    BY <1>3, <1>4, <2>1 DEF Of
  <2>4. {r \in Of(op.analysis)' : r.decision = "accepted"} = Selected'
    BY <2>1, <2>3 DEF Selected
  <2>5. op'.accepted \subseteq Ids(Of(op.analysis)')
    <3>1. a \subseteq Ids(Of(page.analysis))
      BY <1>1 DEF SnapshotCurrent
    <3>2. Ids(Of(page.analysis)) \subseteq Ids(Of(op.analysis)')
      BY <1>3, <1>4, <2>1 DEF Ids, Of
    <3> QED BY <2>1, <3>1, <3>2
  <2>6. Ids(Of(op.analysis)') = Ids(Of(op.analysis))'
    BY DEF Ids
  <2> QED BY <2>2, <2>4, <2>5, <2>6 DEF SnapshotHolds
<1>11. Supplied'
  <2>1. kind \in {"first_draft", "revision"} => state \in Suggested
    BY <1>1 DEF TypeOK, AssertTransition, AllowedTransitions, RunningState, Suggested
  <2>2. state' \notin Suggested
    BY <1>1, KindStates DEF RunningStates, Suggested
  <2>3. op'.initial = state /\ op'.kind = kind /\ selected' = selected
    BY <1>1
  <2> QED BY <1>6, <2>1, <2>2, <2>3 DEF Supplied
<1> QED BY <1>6, <1>9, <1>10, <1>11

\* What a stored round knows of its answer: the accepted suggestions are rows of
\* the analysis, the new items have keys of their own and theirs, and together
\* they are a SuggestionSet.
Round(n, fixed, new) ==
    /\ n \in 1..Len(analyses)
    /\ fixed = Selected /\ fixed \subseteq Of(n)
    /\ new \subseteq Item /\ IsFiniteSet(new)
    /\ \A i, j \in new : i.key = j.key => i = j
    /\ \A i \in new, r \in fixed : i.key # r.key /\ i.title # r.title
    /\ FitsSet(fixed, new)
    /\ rows' = (rows \ (Of(n) \ fixed)) \cup {NewRow(n, i) : i \in new}

\* The step that stores a round is of that form.
LEMMA StoredRound ==
    ASSUME IInv, SuggestionsStored
    PROVE  \E fixed, new : Round(op.analysis, fixed, new)
<1> USE DEF IInv
<1>1. PICK fixed, previous : fixed = Selected /\ previous = Of(op.analysis)
  OBVIOUS
<1>2. PICK items \in Answers(op.analysis) : \E new \in Replacements(items, previous, fixed) :
        /\ FitsSet(fixed, new)
        /\ rows' = DeleteUnselected(previous, fixed) \cup {NewRow(op.analysis, i) : i \in new}
  BY <1>1 DEF SuggestionsStored
<1>3. PICK new \in Replacements(items, previous, fixed) :
        /\ FitsSet(fixed, new)
        /\ rows' = DeleteUnselected(previous, fixed) \cup {NewRow(op.analysis, i) : i \in new}
  BY <1>2
<1>4. /\ items \subseteq Item /\ IsFiniteSet(items)
      /\ \A i, j \in items : i.key = j.key => i = j
  BY DEF Answers, IsSuggestionSet
<1>5. new \subseteq Fresh(items, fixed)
  BY DEF Replacements
<1>6. new \subseteq items
  BY <1>5 DEF Fresh
<1>7. IsFiniteSet(new)
  BY <1>4, <1>6, FS_Subset
<1>8. \A i \in new, r \in fixed : i.key # r.key /\ i.title # r.title
  BY <1>5 DEF Fresh, KeysOf, TitlesOf
<1>9. op.analysis \in 1..Len(analyses)
  <2>1. op # None /\ op.kind # "analysis"
    BY DEF SuggestionsStored, Executing
  <2> QED BY <2>1 DEF SnapshotHolds, TypeOK
<1>10. fixed \subseteq Of(op.analysis)
  BY <1>1 DEF Selected
<1>11. Round(op.analysis, fixed, new)
  BY <1>1, <1>3, <1>4, <1>6, <1>7, <1>8, <1>9, <1>10 DEF Round, DeleteUnselected
<1> QED BY <1>11

\* What it leaves in the table: for its own analysis the accepted rows and one new
\* row for each item, and the rows of other analyses as they were.
RoundStored(o, fixed, new, added) ==
    /\ round' = round + 1 /\ round' \in 0..MaxRounds
    /\ added \subseteq Row
    /\ \A r \in added : /\ r.analysis = o /\ r.id[1] = round + 1
                        /\ r.id[2] = r.key
    /\ \A r, s \in added : r.key = s.key => r = s
    /\ \A r \in added, s \in fixed : r.key # s.key /\ r.title # s.title
    /\ IsFiniteSet(added) /\ Cardinality(added) = Cardinality(new)
    /\ {r \in rows' : r.analysis = o} = fixed \cup added
    /\ \A m : m # o => Of(m)' = Of(m)

\* A stored round leaves that.
LEMMA RoundRows ==
    ASSUME IInv, SuggestionsStored, NEW o, o = op.analysis,
           NEW fixed, NEW new, Round(o, fixed, new),
           NEW added, added = {NewRow(o, i) : i \in new}
    PROVE  RoundStored(o, fixed, new, added)
<1> USE DEF IInv
<1>1. /\ o \in 1..Len(analyses)
      /\ fixed \subseteq Of(o)
      /\ new \subseteq Item /\ IsFiniteSet(new)
      /\ \A i, j \in new : i.key = j.key => i = j
      /\ \A i \in new, r \in fixed : i.key # r.key /\ i.title # r.title
      /\ rows' = (rows \ (Of(o) \ fixed)) \cup added
  BY DEF Round
<1>2. round' = round + 1 /\ round' \in 0..MaxRounds /\ round' \in 1..MaxRounds
  BY SizeAssumption DEF SuggestionsStored, TypeOK
<1>3. o \in 1..MaxAnalyses
  BY <1>1, SizeAssumption DEF TypeOK
<1>4. PICK f : f = [i \in new |-> NewRow(o, i)]
  OBVIOUS
<1>5. ASSUME NEW i \in new
      PROVE  /\ f[i] \in Row
             /\ f[i].id = <<round + 1, i.key>> /\ f[i].analysis = o
             /\ f[i].key = i.key /\ f[i].title = i.title
  <2>1. i.key \in Keys /\ i.title \in Titles /\ i.ref \in Issues
    BY <1>1 DEF Item
  <2>2. <<round + 1, i.key>> \in Id
    BY <1>2, <2>1 DEF Id
  <2> QED BY <1>3, <1>4, <2>1, <2>2 DEF NewRow, Row, Decision
<1>6. added = {f[i] : i \in new}
  BY <1>4
<1>7. added \subseteq Row
  BY <1>5, <1>6
<1>8. \A r \in added : /\ r.analysis = o /\ r.id[1] = round + 1
                       /\ r.id[2] = r.key
  BY <1>5, <1>6
<1>9. \A r, s \in added : r.key = s.key => r = s
  <2> SUFFICES ASSUME NEW r \in added, NEW s \in added, r.key = s.key
               PROVE  r = s
    OBVIOUS
  <2>1. PICK i \in new, j \in new : r = f[i] /\ s = f[j]
    BY <1>6
  <2>2. i.key = j.key
    BY <1>5, <2>1
  <2> QED BY <1>1, <2>1, <2>2
<1>10. ASSUME NEW r \in added, NEW s \in fixed
       PROVE  r.key # s.key /\ r.title # s.title
  <2>1. PICK i \in new : r = f[i]
    BY <1>6
  <2>2. i.key # s.key /\ i.title # s.title
    BY <1>1
  <2> QED BY <1>5, <2>1, <2>2
<1>11. IsFiniteSet(added) /\ Cardinality(added) = Cardinality(new)
  <2>1. \A i, j \in new : f[i] = f[j] => i = j
    BY <1>1, <1>5
  <2> QED BY <1>1, <1>6, <2>1, InjectiveImage
<1>12. \A m : Of(m)' = {r \in rows' : r.analysis = m}
  BY DEF Of
<1>13. {r \in rows' : r.analysis = o} = fixed \cup added
  BY <1>1, <1>8 DEF Of
<1>14. \A m : m # o => {r \in rows' : r.analysis = m} = Of(m)
  BY <1>1, <1>8 DEF Of
<1>15. \A m : m # o => Of(m)' = Of(m)
  BY <1>12, <1>14
<1> QED BY <1>2, <1>7, <1>8, <1>9, <1>10, <1>11, <1>13, <1>15 DEF RoundStored

\* A stored round leaves the analysis with a SuggestionSet, under new ids.
LEMMA SuggestionsStoredInv ==
    ASSUME IInv, SuggestionsStored
    PROVE  IInv'
<1> USE DEF IInv
<1>1. PICK o : o = op.analysis
  OBVIOUS
<1>2. PICK fixed, new : Round(o, fixed, new)
  BY <1>1, StoredRound
<1>3. PICK added : added = {NewRow(o, i) : i \in new}
  OBVIOUS
<1>4. /\ round' = round + 1 /\ round' \in 0..MaxRounds
      /\ added \subseteq Row
      /\ \A r \in added : r.analysis = o /\ r.id[1] = round + 1 /\ r.id[2] = r.key
      /\ \A r, s \in added : r.key = s.key => r = s
      /\ \A r \in added, s \in fixed : r.key # s.key /\ r.title # s.title
      /\ IsFiniteSet(added) /\ Cardinality(added) = Cardinality(new)
      /\ {r \in rows' : r.analysis = o} = fixed \cup added
      /\ \A m : m # o => Of(m)' = Of(m)
  <2>1. RoundStored(o, fixed, new, added)
    BY <1>1, <1>2, <1>3, RoundRows
  <2> QED BY <2>1 DEF RoundStored
<1>5. /\ o \in 1..Len(analyses) /\ fixed \subseteq Of(o)
      /\ rows' = (rows \ (Of(o) \ fixed)) \cup added
      /\ FitsSet(fixed, new)
  BY <1>1, <1>2, <1>3 DEF Round
<1>6. UNCHANGED <<analyses, selected, page>> /\ op' = None
  BY DEF SuggestionsStored, End
<1>7. TypeOK'
  <2>1. state' \in TaskState
    BY KindStates DEF SuggestionsStored, End, AiOperationKind
  <2>2. rows' \subseteq Row
    BY <1>4, <1>5 DEF TypeOK
  <2> QED BY <1>4, <1>6, <2>1, <2>2 DEF TypeOK
<1>8. Numbered'
  <2>1. IsFiniteSet(rows')
    <3>1. rows \ (Of(o) \ fixed) \in SUBSET rows /\ IsFiniteSet(rows)
      BY DEF Numbered
    <3>2. IsFiniteSet(rows \ (Of(o) \ fixed))
      BY <3>1, FS_Subset
    <3>3. PICK left : left = rows \ (Of(o) \ fixed)
      OBVIOUS
    <3>4. IsFiniteSet(left \cup added)
      BY <1>4, <3>2, <3>3, FS_Union
    <3> QED BY <1>5, <3>3, <3>4
  <2>2. ASSUME NEW r \in rows'
        PROVE  r.analysis \in 1..Len(analyses) /\ r.id[1] <= round + 1
    <3>1. round \in Nat /\ \A s \in rows : s.id[1] \in Nat
      BY SizeAssumption DEF TypeOK, Row, Id
    <3>2. CASE r \in rows
      BY <3>1, <3>2 DEF Numbered
    <3>3. CASE r \in added
      BY <1>4, <1>5, <3>1, <3>3
    <3> QED BY <1>5, <3>2, <3>3
  <2>3. \A r \in rows, s \in added : r.id # s.id
    <3>1. round \in Nat /\ \A r \in rows : r.id[1] \in Nat /\ r.id[1] <= round
      BY SizeAssumption DEF TypeOK, Row, Id, Numbered
    <3> QED BY <1>4, <3>1
  <2>4. \A r, s \in added : r.id = s.id => r = s
    BY <1>4
  <2>5. \A r, s \in rows : r.id = s.id => r = s
    BY DEF Numbered
  <2>6. \A r, s \in rows' : r.id = s.id => r = s
    BY <1>5, <2>3, <2>4, <2>5
  <2> QED BY <1>4, <1>6, <2>1, <2>2, <2>6 DEF Numbered
<1>9. IsSuggestionSet(Of(o)')
  <2>1. Of(o)' = fixed \cup added
    BY <1>4 DEF Of
  <2>2. Cardinality(Of(o)') \in MinSuggestions..MaxSuggestions
    <3>1. IsFiniteSet(fixed)
      <4>1. fixed \in SUBSET rows /\ IsFiniteSet(rows)
        BY <1>5 DEF Of, Numbered
      <4> QED BY <4>1, FS_Subset
    <3>2. fixed \cap added = {}
      BY <1>4
    <3>3. Cardinality(fixed \cup added) = Cardinality(fixed) + Cardinality(added)
      BY <1>4, <3>1, <3>2, DisjointUnion
    <3> QED BY <1>4, <1>5, <2>1, <3>3 DEF FitsSet
  <2>3. \A r, s \in Of(o)' : r.key = s.key => r = s
    <3>1. \A r, s \in Of(o) : r.key = s.key => r = s
      BY <1>5 DEF EachSetComplete, IsSuggestionSet
    <3> QED BY <1>4, <1>5, <2>1, <3>1
  <2> QED BY <2>2, <2>3 DEF IsSuggestionSet
<1>10. EachSetComplete'
  <2>1. ASSUME NEW m \in 1..Len(analyses), m # o
        PROVE  Of(m)' = {} \/ IsSuggestionSet(Of(m)')
    BY <1>4, <2>1 DEF EachSetComplete
  <2> QED BY <1>6, <1>9, <2>1 DEF EachSetComplete
<1>11. SnapshotHolds'
  BY <1>6 DEF SnapshotHolds
<1>12. Supplied'
  <2>1. op # None /\ op.kind # "analysis"
    BY DEF SuggestionsStored, Executing
  <2>2. \A n \in selected' : n = o
    BY <1>1, <1>6, <2>1 DEF SnapshotHolds, Supplied
  <2>3. Of(o)' # {}
    <3>1. Cardinality({}) = 0
      BY FS_EmptySet
    <3>2. Cardinality(Of(o)') # 0
      BY <1>9, SizeAssumption DEF IsSuggestionSet
    <3> QED BY <3>1, <3>2
  <2> QED BY <1>6, <2>2, <2>3 DEF Supplied
<1> QED BY <1>7, <1>8, <1>10, <1>11, <1>12

-----------------------------------------------------------------------------
(* The theorems *)

\* Whatever is submitted, patched, corrected, stored or refused, in any order: the
\* invariant of the table, the snapshot and the ids holds.
THEOREM Inductive == Spec => []IInv
<1>1. ASSUME IInv, [Next]_vars
      PROVE  IInv'
  <2>1. CASE LoadAnalysis \/ LoadSuggestions
    BY <1>1, <2>1, LoadInv
  <2>2. CASE SubmitAnalysis
    BY <1>1, <2>2, SubmitAnalysisInv
  <2>3. CASE \E kind \in AiOperationKind \ {"analysis"}, a \in SUBSET page.ids,
               noted \in SUBSET page.ids, n \in Notes : Submit(kind, a, noted, n)
    BY <1>1, <2>3, SubmitInv
  <2>4. CASE UpdateSuggestion
    BY <1>1, <2>4, UpdateSuggestionInv
  <2>5. CASE CorrectAnalysis
    BY <1>1, <2>5, CorrectAnalysisInv
  <2>6. CASE Fail \/ SuggestionsRefused \/ VersionStored
    BY <1>1, <2>6, EndInv
  <2>7. CASE AnalysisStored
    BY <1>1, <2>7, AnalysisStoredInv
  <2>8. CASE SuggestionsStored
    BY <1>1, <2>8, SuggestionsStoredInv
  <2>9. CASE UNCHANGED vars
    <3>2. TypeOK'
      BY <1>1, <2>9 DEF IInv, TypeOK, vars
    <3>3. Numbered' /\ EachSetComplete'
      BY <1>1, <2>9, TableUnchanged DEF IInv, TypeOK, vars
    <3>4. SnapshotHolds'
      BY <1>1, <2>9 DEF IInv, SnapshotHolds, Selected, Of, Ids, vars
    <3>5. Supplied'
      BY <1>1, <2>9 DEF IInv, Supplied, Of, vars
    <3> QED BY <3>2, <3>3, <3>4, <3>5 DEF IInv
  <2> QED BY <1>1, <2>1, <2>2, <2>3, <2>4, <2>5, <2>6, <2>7, <2>8, <2>9 DEF Next
<1> QED BY <1>1, InitInv, PTL DEF Spec

\* Every variable keeps its type: rows stay rows of the schema, an operation's
\* initial state, to which a failure returns the task, is a stable one.
THEOREM TypeCorrect == Spec => []TypeOK
<1>1. IInv => TypeOK
  BY DEF IInv
<1> QED BY <1>1, Inductive, PTL

\* persist() of suggestions and the handlers: an analysis has no suggestions or a
\* whole SuggestionSet, for every pair of sizes dto.py could name, and a draft or a
\* revision that executes has one.
THEOREM SetsComplete == Spec => []SetComplete
<1>1. ASSUME IInv
      PROVE  SetComplete
  <2>1. ASSUME op # None, op.kind \in {"first_draft", "revision"}
        PROVE  IsSuggestionSet(Of(op.analysis))
    <3>1. op.analysis \in selected /\ op.analysis \in 1..Len(analyses)
      BY <1>1, <2>1 DEF IInv, SnapshotHolds, TypeOK
    <3>2. Of(op.analysis) # {}
      BY <1>1, <2>1, <3>1 DEF IInv, Supplied
    <3> QED BY <1>1, <3>1, <3>2 DEF IInv, EachSetComplete
  <2> QED BY <1>1, <2>1 DEF IInv, SetComplete
<1> QED BY <1>1, Inductive, PTL

\* _apply_suggestion_snapshot: what an operation was submitted with is in the
\* table until it ends.
THEOREM SnapshotKept == Spec => []SnapshotHolds
<1>1. IInv => SnapshotHolds
  BY DEF IInv
<1> QED BY <1>1, Inductive, PTL

\* persist() of suggestions: a round keeps every accepted suggestion, with its id
\* and note, and adds none with the key or the title of one.
THEOREM AcceptedSurvive == Spec => AcceptedKept
<1>1. ASSUME IInv, [Next]_vars, round' # round
      PROVE  /\ Selected \subseteq rows'
             /\ \A r \in rows' \ rows, s \in Selected :
                  r.analysis = s.analysis => r.key # s.key /\ r.title # s.title
  <2>1. SuggestionsStored
    BY <1>1 DEF Next, vars, LoadAnalysis, LoadSuggestions, SubmitAnalysis, Submit,
                UpdateSuggestion, CorrectAnalysis, Fail, AnalysisStored,
                SuggestionsRefused, VersionStored
  <2>2. PICK o : o = op.analysis
    OBVIOUS
  <2>3. PICK fixed, new : Round(o, fixed, new)
    BY <1>1, <2>1, <2>2, StoredRound
  <2>4. PICK added : added = {NewRow(o, i) : i \in new}
    OBVIOUS
  <2>5. \A r \in added, s \in fixed : r.key # s.key /\ r.title # s.title
    <3>1. RoundStored(o, fixed, new, added)
      BY <1>1, <2>1, <2>2, <2>3, <2>4, RoundRows
    <3> QED BY <3>1 DEF RoundStored
  <2>6. /\ fixed = Selected /\ fixed \subseteq rows
        /\ rows' = (rows \ (Of(o) \ fixed)) \cup added
    BY <2>3, <2>4 DEF Round, Of
  <2> QED BY <2>5, <2>6
<1>2. IInv /\ [Next]_vars =>
        [round' # round =>
           /\ Selected \subseteq rows'
           /\ \A r \in rows' \ rows, s \in Selected :
                r.analysis = s.analysis => r.key # s.key /\ r.title # s.title]_vars
  BY <1>1
<1> QED BY <1>2, Inductive, PTL DEF Spec, AcceptedKept
-----------------------------------------------------------------------------
(* The texts and the locked fragments of a document (LockedText) *)

USE TextAssumption

\* A text is a sequence of characters of bounded length.
LEMMA TextIsSequence ==
    ASSUME NEW t
    PROVE  t \in Text <=> t \in Seq(Alphabet) /\ Len(t) <= MaxLength
<1>1. ASSUME t \in Text
      PROVE  t \in Seq(Alphabet) /\ Len(t) <= MaxLength
  <2>1. PICK m \in 0..MaxLength : t \in [1..m -> Alphabet]
    BY <1>1 DEF Text, SeqOf
  <2> QED BY <2>1 DEF TextAssumption
<1>2. ASSUME t \in Seq(Alphabet), Len(t) <= MaxLength
      PROVE  t \in Text
  <2>1. t \in [1..Len(t) -> Alphabet] /\ Len(t) \in 0..MaxLength
    BY <1>2 DEF TextAssumption
  <2> QED BY <2>1 DEF Text, SeqOf
<1> QED BY <1>1, <1>2

\* content[start:end] is a text as long as the range.
LEMMA SliceOfText ==
    ASSUME NEW t \in Text, NEW m \in Nat, NEW n \in Nat,
           m <= n, n <= Len(t)
    PROVE  /\ Slice(t, m, n) \in Text
           /\ Len(Slice(t, m, n)) = n - m
           /\ \A i \in 1..(n - m) : Slice(t, m, n)[i] = t[m + i]
<1>1. t \in Seq(Alphabet) /\ Len(t) \in Nat /\ Len(t) <= MaxLength
  BY TextIsSequence
<1>2. \A i \in (m + 1)..n : t[i] \in Alphabet
  BY <1>1
<1>3. PICK s : s = SubSeq(t, m + 1, n)
  OBVIOUS
<1>4. /\ s \in Seq(Alphabet)
      /\ Len(s) = IF m + 1 <= n THEN n - (m + 1) + 1 ELSE 0
      /\ \A i \in 1..(n - (m + 1) + 1) : s[i] = t[m + 1 + i - 1]
  BY <1>2, <1>3, SubSeqProperties
<1>5. Len(s) = n - m /\ Len(s) <= MaxLength
  BY <1>1, <1>4 DEF TextAssumption
<1>6. \A i \in 1..(n - m) : s[i] = t[m + i]
  BY <1>4
<1>7. s \in Text
  BY <1>4, <1>5, TextIsSequence
<1> QED BY <1>3, <1>5, <1>6, <1>7 DEF Slice

\* A set of numbers between two bounds has a least and a greatest element.
LEMMA Extremes ==
    ASSUME NEW S, NEW m \in Int, NEW n \in Int, S \subseteq m..n, S # {}
    PROVE  /\ Min(S) \in S /\ \A y \in S : Min(S) <= y
           /\ Max(S) \in S /\ \A y \in S : y <= Max(S)
<1>1. \E x \in S : \A y \in S : x <= y
  <2>1. PICK D : D = {x - m : x \in S}
    OBVIOUS
  <2>2. D \subseteq Nat /\ D # {}
    <3>1. \A x \in S : x - m \in Nat
      OBVIOUS
    <3> QED BY <2>1, <3>1
  <2>3. PICK d \in D : \A k \in D : ~(<<k, d>> \in OpToRel(<, Nat))
    BY <2>2, WFMin, NatLessThanWellFounded
  <2>4. \A k \in D : ~(k < d)
    BY <2>2, <2>3 DEF OpToRel
  <2>5. PICK x \in S : d = x - m
    BY <2>1
  <2>6. \A y \in S : x <= y
    BY <2>1, <2>4, <2>5
  <2> QED BY <2>6
<1>2. \E x \in S : \A y \in S : x >= y
  <2>1. PICK D : D = {n - x : x \in S}
    OBVIOUS
  <2>2. D \subseteq Nat /\ D # {}
    <3>1. \A x \in S : n - x \in Nat
      OBVIOUS
    <3> QED BY <2>1, <3>1
  <2>3. PICK d \in D : \A k \in D : ~(<<k, d>> \in OpToRel(<, Nat))
    BY <2>2, WFMin, NatLessThanWellFounded
  <2>4. \A k \in D : ~(k < d)
    BY <2>2, <2>3 DEF OpToRel
  <2>5. PICK x \in S : d = n - x
    BY <2>1
  <2>6. \A y \in S : x >= y
    BY <2>1, <2>4, <2>5
  <2> QED BY <2>6
<1>3. Min(S) \in S /\ \A y \in S : Min(S) <= y
  BY <1>1 DEF Min
<1>4. Max(S) \in S /\ \A y \in S : Max(S) >= y
  BY <1>2 DEF Max
<1> QED BY <1>3, <1>4

\* strip() leaves a text.
LEMMA StripTyped ==
    ASSUME NEW t \in Text
    PROVE  Strip(t) \in Text
<1>1. t \in Seq(Alphabet) /\ Len(t) \in Nat /\ Len(t) <= MaxLength
  BY TextIsSequence
<1>2. PICK solid : solid = {i \in DOMAIN t : t[i] # Blank}
  OBVIOUS
<1>3. CASE solid = {}
  <2>1. << >> \in Seq(Alphabet) /\ Len(<< >>) <= MaxLength
    BY DEF TextAssumption
  <2>2. Strip(t) = << >>
    BY <1>2, <1>3 DEF Strip
  <2> QED BY <2>1, <2>2, TextIsSequence
<1>4. CASE solid # {}
  <2>1. solid \subseteq 1..Len(t) /\ 1 \in Int /\ Len(t) \in Int
    BY <1>1, <1>2
  <2>2. /\ Min(solid) \in solid /\ Max(solid) \in solid
        /\ \A y \in solid : y <= Max(solid)
    BY <1>4, <2>1, Extremes
  <2>3. PICK m \in 1..Len(t), n \in 1..Len(t) : m = Min(solid) /\ n = Max(solid)
    BY <2>1, <2>2
  <2>4. m <= n
    BY <2>2, <2>3
  <2>5. Strip(t) = Slice(t, m - 1, n)
    <3>1. Strip(t) = SubSeq(t, m, n)
      BY <1>2, <1>4, <2>3, Zenon DEF Strip
    <3>2. m - 1 + 1 = m
      OBVIOUS
    <3> QED BY <3>1, <3>2, Zenon DEF Slice
  <2>6. m - 1 \in Nat /\ n \in Nat /\ m - 1 <= n /\ n <= Len(t)
    BY <1>1, <2>4
  <2> QED BY <2>5, <2>6, SliceOfText
<1> QED BY <1>3, <1>4


\* startswith compares character by character from the start.
LEMMA PrefixCharacters ==
    ASSUME NEW s \in Seq(Alphabet), NEW t \in Seq(Alphabet), IsPrefix(s, t)
    PROVE  Len(s) <= Len(t) /\ \A i \in 1..Len(s) : s[i] = t[i]
<1>1. Len(s) \in Nat /\ Len(t) \in Nat /\ Len(s) <= Len(t)
  BY DEF IsPrefix
<1>2. PICK u, v : u = SubSeq(s, 1, Len(s)) /\ v = SubSeq(t, 1, Len(s)) /\ u = v
  BY DEF IsPrefix
<1>3. /\ 1 \in Int /\ Len(s) \in Int
      /\ \A i \in 1..Len(s) : s[i] \in Alphabet
      /\ \A i \in 1..Len(s) : t[i] \in Alphabet
  BY <1>1
<1>4. \A i \in 1..(Len(s) - 1 + 1) : u[i] = s[1 + i - 1]
  BY <1>2, <1>3, SubSeqProperties
<1>5. \A i \in 1..(Len(s) - 1 + 1) : v[i] = t[1 + i - 1]
  BY <1>2, <1>3, SubSeqProperties
<1>6. \A i \in 1..Len(s) : s[i] = t[i]
  <2> TAKE i \in 1..Len(s)
  <2>1. i \in 1..(Len(s) - 1 + 1) /\ 1 + i - 1 = i
    BY <1>1
  <2> QED BY <1>2, <1>4, <1>5, <2>1
<1> QED BY <1>1, <1>6

\* endswith compares character by character from the end.
LEMMA SuffixCharacters ==
    ASSUME NEW s \in Seq(Alphabet), NEW t \in Seq(Alphabet), IsSuffix(s, t)
    PROVE  Len(s) <= Len(t) /\ \A i \in 1..Len(s) : s[i] = t[Len(t) - Len(s) + i]
<1>1. PICK u, v : u = Reverse(s) /\ v = Reverse(t)
  OBVIOUS
<1>2. /\ u \in Seq(Alphabet) /\ Len(u) = Len(s)
      /\ \A i \in 1..Len(s) : u[i] = s[(Len(s) - i) + 1]
  BY <1>1 DEF Reverse
<1>3. /\ v \in Seq(Alphabet) /\ Len(v) = Len(t)
      /\ \A i \in 1..Len(t) : v[i] = t[(Len(t) - i) + 1]
  BY <1>1 DEF Reverse
<1>4. IsPrefix(u, v)
  BY <1>1 DEF IsSuffix
<1>5. Len(s) <= Len(t) /\ \A i \in 1..Len(s) : u[i] = v[i]
  BY <1>2, <1>3, <1>4, PrefixCharacters
<1>6. \A i \in 1..Len(s) : s[i] = t[Len(t) - Len(s) + i]
  <2> TAKE i \in 1..Len(s)
  <2>0. Len(s) \in Nat /\ Len(s) - i + 1 \in 1..Len(s)
    BY LenProperties
  <2>1. PICK j \in 1..Len(s) : j = Len(s) - i + 1
    BY <2>0
  <2>2. (Len(s) - j) + 1 = i /\ (Len(t) - j) + 1 = Len(t) - Len(s) + i /\ j \in 1..Len(t)
    BY <1>5, <2>1
  <2> QED BY <1>2, <1>3, <1>5, <2>2
<1> QED BY <1>5, <1>6

\* What validate_selection_revision lets through is the parent with the selection
\* replaced: prefix and suffix do not overlap in it.
LEMMA OnlySelectionReplaced ==
    ASSUME NEW parent \in Text, NEW candidate \in Text,
           NEW x \in Selection, x.end <= Len(parent),
           OutsideUnchanged(parent, candidate, x)
    PROVE  \E middle \in Text :
             candidate = Slice(parent, 0, x.start) \o middle
                           \o Slice(parent, x.end, Len(parent))
<1>1. /\ x.start \in Nat /\ x.end \in Nat /\ x.start <= x.end
      /\ parent \in Seq(Alphabet) /\ candidate \in Seq(Alphabet)
      /\ Len(parent) \in Nat /\ Len(candidate) \in Nat
  BY TextIsSequence DEF Selection, TextAssumption
<1>2. PICK p : p = Slice(parent, 0, x.start)
  OBVIOUS
<1>3. PICK q : q = Slice(parent, x.end, Len(parent))
  OBVIOUS
<1>4. p \in Seq(Alphabet) /\ q \in Seq(Alphabet) /\ Len(p) \in Nat /\ Len(q) \in Nat
  <2>1. 0 <= x.start /\ x.start <= Len(parent) /\ Len(parent) <= Len(parent) /\ 0 \in Nat
    BY <1>1
  <2>2. p \in Text
    BY <1>1, <1>2, <2>1, SliceOfText
  <2>3. q \in Text
    BY <1>1, <1>3, <2>1, SliceOfText
  <2> QED BY <2>2, <2>3, TextIsSequence
<1>5. Len(candidate) >= Len(p) + Len(q) /\ IsPrefix(p, candidate) /\ IsSuffix(q, candidate)
  BY <1>2, <1>3 DEF OutsideUnchanged
<1>6. /\ \A i \in 1..Len(p) : p[i] = candidate[i]
      /\ \A i \in 1..Len(q) : q[i] = candidate[Len(candidate) - Len(q) + i]
  BY <1>1, <1>4, <1>5, PrefixCharacters, SuffixCharacters
<1>7. PICK n \in Nat : n = Len(candidate) - Len(q) /\ Len(p) <= n /\ n <= Len(candidate)
  <2>1. Len(candidate) - Len(q) \in Nat /\ Len(p) <= Len(candidate) - Len(q)
        /\ Len(candidate) - Len(q) <= Len(candidate)
    BY <1>1, <1>4, <1>5
  <2> QED BY <2>1
<1>8. PICK middle : middle = Slice(candidate, Len(p), n)
  OBVIOUS
<1>9. /\ middle \in Text /\ Len(middle) = n - Len(p)
      /\ \A i \in 1..(n - Len(p)) : middle[i] = candidate[Len(p) + i]
  <2>1. PICK m \in Nat : m = Len(p)
    BY <1>4
  <2>2. m <= n /\ n <= Len(candidate)
    BY <1>7, <2>1
  <2>3. /\ Slice(candidate, m, n) \in Text
        /\ Len(Slice(candidate, m, n)) = n - m
        /\ \A i \in 1..(n - m) : Slice(candidate, m, n)[i] = candidate[m + i]
    BY <2>2, SliceOfText
  <2>4. middle = Slice(candidate, m, n)
    BY <1>8, <2>1
  <2> QED BY <2>1, <2>3, <2>4
<1>10. middle \in Seq(Alphabet)
  BY <1>9, TextIsSequence
<1>11. PICK h : h = p \o middle
  OBVIOUS
<1>12. /\ h \in Seq(Alphabet) /\ Len(h) = n
       /\ \A i \in 1..n : h[i] = candidate[i]
  <2>1. /\ h \in Seq(Alphabet) /\ Len(h) = Len(p) + Len(middle)
        /\ \A i \in 1..(Len(p) + Len(middle)) :
             h[i] = IF i <= Len(p) THEN p[i] ELSE middle[i - Len(p)]
    BY <1>4, <1>10, <1>11, ConcatProperties
  <2>2. Len(p) + Len(middle) = n
    BY <1>4, <1>7, <1>9
  <2>3. ASSUME NEW i \in 1..n
        PROVE  h[i] = candidate[i]
    <3>1. h[i] = IF i <= Len(p) THEN p[i] ELSE middle[i - Len(p)]
      BY <2>1, <2>2
    <3>2. CASE i <= Len(p)
      BY <1>4, <1>6, <3>1, <3>2
    <3>3. CASE ~(i <= Len(p))
      <4>1. i - Len(p) \in 1..(n - Len(p)) /\ Len(p) + (i - Len(p)) = i
        BY <1>4, <1>7, <3>3
      <4>2. middle[i - Len(p)] = candidate[Len(p) + (i - Len(p))]
        BY <1>9, <4>1
      <4> QED BY <3>1, <3>3, <4>1, <4>2
    <3> QED BY <3>2, <3>3
  <2> QED BY <2>1, <2>2, <2>3
<1>13. PICK w : w = h \o q
  OBVIOUS
<1>14. /\ w \in Seq(Alphabet) /\ Len(w) = Len(candidate)
       /\ \A i \in 1..Len(w) : w[i] = candidate[i]
  <2>1. /\ w \in Seq(Alphabet) /\ Len(w) = Len(h) + Len(q)
        /\ \A i \in 1..(Len(h) + Len(q)) :
             w[i] = IF i <= Len(h) THEN h[i] ELSE q[i - Len(h)]
    BY <1>4, <1>12, <1>13, ConcatProperties
  <2>2. Len(h) + Len(q) = Len(candidate)
    BY <1>1, <1>4, <1>7, <1>12
  <2>3. ASSUME NEW i \in 1..Len(candidate)
        PROVE  w[i] = candidate[i]
    <3>1. w[i] = IF i <= n THEN h[i] ELSE q[i - n]
      BY <1>12, <2>1, <2>2
    <3>2. CASE i <= n
      BY <1>7, <1>12, <3>1, <3>2
    <3>3. CASE ~(i <= n)
      <4>1. i - n \in 1..Len(q) /\ Len(candidate) - Len(q) + (i - n) = i
        BY <1>1, <1>4, <1>7, <3>3
      <4>2. q[i - n] = candidate[Len(candidate) - Len(q) + (i - n)]
        BY <1>6, <4>1
      <4> QED BY <3>1, <3>3, <4>1, <4>2
    <3> QED BY <3>2, <3>3
  <2> QED BY <2>1, <2>2, <2>3
<1>15. w = candidate
  BY <1>1, <1>14, SeqEqual
<1> QED BY <1>2, <1>3, <1>9, <1>11, <1>13, <1>15

\* max(order_index) + 1 exists, and the bound of the instance is a bound on it.
LEMMA NextFragmentOrder ==
    ASSUME TextTypeOK
    PROVE  NextOrder \in Nat
<1>1. PICK S : S = {l.order : l \in locks} \cup {-1}
  OBVIOUS
<1>2. \A l \in locks : l.order \in 0..MaxOrder
  BY DEF TextTypeOK, Lock
<1>3. S \subseteq (-1)..MaxOrder /\ S # {} /\ -1 \in Int /\ MaxOrder \in Int
  BY <1>1, <1>2 DEF TextAssumption
<1>4. Max(S) \in S
  BY <1>3, Extremes
<1>5. PICK mx \in (-1)..MaxOrder : mx = Max(S)
  BY <1>3, <1>4
<1>6. NextOrder = mx + 1
  BY <1>1, <1>5 DEF NextOrder
<1> QED BY <1>5, <1>6

\* t is the text of parent with the selection x replaced.
Replaced(parent, x, t) ==
    \E middle \in Text :
      t = Slice(parent, 0, x.start) \o middle \o Slice(parent, x.end, Len(parent))

\* SelectionOnly, version by version.
LEMMA SelectionByVersion ==
    /\ SelectionOnly <=>
         \A i \in DOMAIN versions : versions[i].selection # NoSelection =>
           Replaced(versions[versions[i].parent].text, versions[i].selection, versions[i].text)
    /\ SelectionOnly' <=>
         \A i \in DOMAIN versions' : versions'[i].selection # NoSelection =>
           Replaced(versions'[versions'[i].parent].text, versions'[i].selection, versions'[i].text)
BY DEF SelectionOnly, Replaced, Slice, Text, SeqOf

\* A new version goes behind its parent and leaves every older one alone.
LEMMA VersionAdded ==
    ASSUME TextInv,
           NEW t \in Text, NEW p \in 0..Len(versions), NEW x \in Selection \cup {NoSelection},
           p = 0 => x = NoSelection,
           x # NoSelection => Replaced(versions[p].text, x, t),
           AddVersion(t, p, x)
    PROVE  TextInv'
<1>1. /\ versions \in Seq(Version) /\ Len(versions) \in Nat /\ Len(versions) < MaxVersions
      /\ MaxVersions \in Nat
  BY DEF TextInv, TextTypeOK, AddVersion, TextAssumption
<1>2. PICK v : v = [text |-> t, parent |-> p, selection |-> x]
  OBVIOUS
<1>3. v \in Version /\ v.text = t /\ v.parent = p /\ v.selection = x
  <2>1. p \in 0..MaxVersions
    BY <1>1
  <2> QED BY <1>2, <2>1 DEF Version
<1>4. versions' = Append(versions, v) /\ locks' = locks
  BY <1>2 DEF AddVersion
<1>5. /\ versions' \in Seq(Version) /\ Len(versions') = Len(versions) + 1
      /\ DOMAIN versions' = 1..(Len(versions) + 1)
      /\ \A i \in 1..Len(versions) : versions'[i] = versions[i]
      /\ versions'[Len(versions) + 1] = v
  BY <1>1, <1>3, <1>4, AppendProperties
<1>6. \A i \in 1..Len(versions) : versions[i] \in Version /\ versions[i].parent \in Nat
  <2> TAKE i \in 1..Len(versions)
  <2>1. versions[i] \in Version
    BY <1>1, ElementOfSeq
  <2>2. versions[i].parent \in 0..MaxVersions
    BY <2>1 DEF Version
  <2> QED BY <1>1, <2>1, <2>2
<1>7. \A i \in 1..Len(versions) :
        versions[i].parent < i /\ (versions[i].parent = 0 => versions[i].selection = NoSelection)
  BY <1>1 DEF TextInv, ParentsEarlier
<1>8. TextTypeOK'
  BY <1>1, <1>4, <1>5 DEF TextInv, TextTypeOK, Version, Lock, Text,
     SeqOf, Selection
<1>9. ParentsEarlier'
  <2>1. ASSUME NEW i \in 1..(Len(versions) + 1)
        PROVE  versions'[i].parent < i /\ (versions'[i].parent = 0 => versions'[i].selection = NoSelection)
    <3>1. CASE i \in 1..Len(versions)
      BY <1>5, <1>7, <3>1
    <3>2. CASE i = Len(versions) + 1
      BY <1>1, <1>3, <1>5, <3>2
    <3> QED BY <1>1, <3>1, <3>2
  <2> QED BY <1>5, <2>1 DEF ParentsEarlier
<1>10. SelectionOnly'
  <2>1. ASSUME NEW i \in 1..(Len(versions) + 1), versions'[i].selection # NoSelection
        PROVE  Replaced(versions'[versions'[i].parent].text, versions'[i].selection, versions'[i].text)
    <3>1. CASE i \in 1..Len(versions)
      <4>1. PICK q : q = versions[i].parent
        OBVIOUS
      <4>2. versions[i].selection # NoSelection /\ versions'[i] = versions[i]
        BY <1>5, <2>1, <3>1
      <4>3. q \in 1..Len(versions)
        BY <1>1, <1>6, <1>7, <3>1, <4>1, <4>2
      <4>4. versions'[q] = versions[q]
        BY <1>5, <4>3
      <4>5. i \in DOMAIN versions
        BY <1>1, <3>1
      <4>6. Replaced(versions[q].text, versions[i].selection, versions[i].text)
        BY <4>1, <4>2, <4>5, SelectionByVersion DEF TextInv
      <4> QED BY <4>1, <4>2, <4>4, <4>6
    <3>2. CASE i = Len(versions) + 1
      <4>1. versions'[i] = v /\ x # NoSelection
        BY <1>3, <1>5, <2>1, <3>2
      <4>2. p \in 1..Len(versions)
        BY <1>1, <4>1
      <4>3. versions'[p] = versions[p]
        BY <1>5, <4>2
      <4> QED BY <1>3, <4>1, <4>3
    <3> QED BY <1>1, <3>1, <3>2
  <2> QED BY <1>5, <2>1, SelectionByVersion
<1> QED BY <1>8, <1>9, <1>10 DEF TextInv

\* The operations and the manual edit create well-formed versions.
LEMMA NewVersions ==
    ASSUME TextInv, NEW t \in Text
    PROVE  /\ CreateFirstDraft(t) => TextInv'
           /\ \A p \in DOMAIN versions :
                /\ ReviseFull(p, t) => TextInv'
                /\ CreateManualEdit(p, t) => TextInv'
                /\ \A x \in Selection : ReviseSelection(p, x, t) => TextInv'
<1>1. /\ versions \in Seq(Version) /\ Len(versions) \in Nat
      /\ DOMAIN versions = 1..Len(versions)
  BY LenProperties DEF TextInv, TextTypeOK
<1>2. ASSUME CreateFirstDraft(t)
      PROVE  TextInv'
  <2>1. 0 \in 0..Len(versions) /\ NoSelection \in Selection \cup {NoSelection}
    BY <1>1
  <2>2. AddVersion(t, 0, NoSelection)
    BY <1>2 DEF CreateFirstDraft
  <2> QED BY <2>1, <2>2, VersionAdded
<1>3. ASSUME NEW p \in DOMAIN versions
      PROVE  p \in 0..Len(versions) /\ p # 0 /\ NoSelection \in Selection \cup {NoSelection}
  BY <1>1, <1>3
<1>4. ASSUME NEW p \in DOMAIN versions, ReviseFull(p, t)
      PROVE  TextInv'
  <2>1. AddVersion(t, p, NoSelection)
    BY <1>4 DEF ReviseFull
  <2> QED BY <1>3, <2>1, VersionAdded
<1>5. ASSUME NEW p \in DOMAIN versions, CreateManualEdit(p, t)
      PROVE  TextInv'
  <2>1. PICK s \in Text : s = Strip(t)
    BY StripTyped
  <2>2. AddVersion(s, p, NoSelection)
    BY <1>5, <2>1 DEF CreateManualEdit
  <2> QED BY <1>3, <2>2, VersionAdded
<1>6. ASSUME NEW p \in DOMAIN versions, NEW x \in Selection, ReviseSelection(p, x, t)
      PROVE  TextInv'
  <2>1. /\ x.end <= Len(versions[p].text) /\ OutsideUnchanged(versions[p].text, t, x)
        /\ AddVersion(t, p, x)
    BY <1>6 DEF ReviseSelection
  <2>2. PICK parent \in Text : parent = versions[p].text
    <3>1. versions[p] \in Version
      BY <1>1, ElementOfSeq
    <3> QED BY <3>1 DEF Version
  <2>3. Replaced(parent, x, t)
    BY <2>1, <2>2, OnlySelectionReplaced DEF Replaced
  <2>4. x \in Selection \cup {NoSelection}
    OBVIOUS
  <2> QED BY <1>3, <2>1, <2>2, <2>3, <2>4, VersionAdded
<1> QED BY <1>2, <1>4, <1>5, <1>6

\* The handlers of the fragments leave the versions alone.
LEMMA FragmentsChanged ==
    ASSUME TextInv, versions' = versions, locks' \subseteq Lock
    PROVE  TextInv'
<1>1. TextTypeOK'
  BY DEF TextInv, TextTypeOK, Version, Lock, Text, SeqOf,
         Selection
<1>2. ParentsEarlier'
  BY DEF TextInv, ParentsEarlier
<1>3. SelectionOnly'
  BY SelectionByVersion DEF TextInv
<1> QED BY <1>1, <1>2, <1>3 DEF TextInv

LEMMA FragmentCreated ==
    ASSUME TextInv,
           NEW v \in DOMAIN versions, NEW x \in Selection, CreateLock(v, x)
    PROVE  TextInv'
<1>1. /\ versions \in Seq(Version) /\ Len(versions) \in Nat /\ Len(versions) <= MaxVersions
      /\ DOMAIN versions = 1..Len(versions) /\ MaxVersions \in Nat
  BY LenProperties DEF TextInv, TextTypeOK, TextAssumption
<1>2. PICK text \in Text : text = versions[v].text
  <2>1. versions[v] \in Version
    BY <1>1, ElementOfSeq
  <2> QED BY <2>1 DEF Version
<1>3. /\ x.start \in 0..MaxLength /\ x.end \in 0..MaxLength /\ x.start < x.end
      /\ x.start \in Nat /\ x.end \in Nat /\ x.start <= x.end
  BY DEF Selection, TextAssumption
<1>4. PICK s : s = Slice(text, x.start, x.end)
  OBVIOUS
<1>5. s \in Text
  <2>1. x.end <= Len(text)
    BY <1>2 DEF CreateLock
  <2> QED BY <1>3, <1>4, <2>1, SliceOfText
<1>6. PICK n \in 0..MaxOrder : n = NextOrder
  <2>1. NextOrder \in Nat /\ NextOrder <= MaxOrder
    BY NextFragmentOrder DEF TextInv, CreateLock
  <2> QED BY <2>1 DEF TextAssumption
<1>7. PICK l : l = [version |-> v, start |-> x.start, end |-> x.end, order |-> n,
                    text |-> s, since |-> Len(versions)]
  OBVIOUS
<1>8. l \in Lock
  <2>1. v \in 1..MaxVersions /\ Len(versions) \in 1..MaxVersions
    BY <1>1
  <2> QED BY <1>3, <1>5, <1>7, <2>1 DEF Lock
<1>9. locks' = locks \cup {l} /\ versions' = versions
  BY <1>2, <1>4, <1>6, <1>7 DEF CreateLock
<1>10. locks' \subseteq Lock
  BY <1>8, <1>9 DEF TextInv, TextTypeOK
<1> QED BY <1>9, <1>10, FragmentsChanged

\* The strengthening that TypeOK and SelectionOnly need is inductive.
THEOREM TextsInductive == TextSpec => []TextInv
<1>1. TextInit => TextInv
  <2> SUFFICES ASSUME TextInit PROVE TextInv
    OBVIOUS
  <2>1. versions = << >> /\ locks = {}
    BY DEF TextInit
  <2>2. versions \in Seq(Version) /\ Len(versions) = 0 /\ DOMAIN versions = {}
    BY <2>1
  <2>3. TextTypeOK
    BY <2>1, <2>2 DEF TextTypeOK, TextAssumption
  <2> QED BY <2>2, <2>3 DEF TextInv, SelectionOnly, ParentsEarlier
<1>2. TextInv /\ [TextNext]_textVars => TextInv'
  <2> SUFFICES ASSUME TextInv, [TextNext]_textVars PROVE TextInv'
    OBVIOUS
  <2>1. locks \subseteq Lock
    BY DEF TextInv, TextTypeOK
  <2>2. ASSUME NEW l \in locks, DeleteLock(l)
        PROVE  TextInv'
    BY <2>1, <2>2, FragmentsChanged DEF DeleteLock
  <2>3. CASE UNCHANGED textVars
    BY <2>1, <2>3, FragmentsChanged DEF textVars
  <2>4. CASE \E t \in Text : CreateFirstDraft(t)
    BY <2>4, NewVersions
  <2>5. CASE \E p \in DOMAIN versions, t \in Text :
               ReviseFull(p, t) \/ CreateManualEdit(p, t)
    BY <2>5, NewVersions
  <2>6. CASE \E p \in DOMAIN versions, t \in Text, x \in Selection :
               ReviseSelection(p, x, t)
    BY <2>6, NewVersions
  <2>7. CASE \E v \in DOMAIN versions, x \in Selection : CreateLock(v, x)
    BY <2>7, FragmentCreated
  <2> QED BY <2>2, <2>3, <2>4, <2>5, <2>6, <2>7 DEF TextNext
<1> QED BY <1>1, <1>2, PTL DEF TextSpec

\* Versions, offsets and order indexes keep their types: what strip() and a slice
\* leave is a text again.
THEOREM TextsTypeCorrect == TextSpec => []TextTypeOK
<1>1. TextInv => TextTypeOK
  BY DEF TextInv
<1> QED BY <1>1, TextsInductive, PTL

\* Whatever the model answers, a version made by a selection revision is its parent
\* with the selection replaced: the prefix and the suffix that
\* validate_selection_revision compares cannot overlap, and no later step changes a
\* parent.
THEOREM SelectionReplacedOnly == TextSpec => []SelectionOnly
<1>1. TextInv => SelectionOnly
  BY DEF TextInv
<1> QED BY <1>1, TextsInductive, PTL
-----------------------------------------------------------------------------
(* Induction.  The library's principle has an operator for its hypothesis; a *)
(* set of numbers serves as well and can be cited.                           *)

\* A set that has 0, and n + 1 whenever it has n, has every number.
LEMMA Induction ==
    ASSUME NEW P, 0 \in P, \A n \in Nat : n \in P => n + 1 \in P
    PROVE  \A n \in Nat : n \in P
<1> SUFFICES ASSUME Nat \ P # {} PROVE FALSE
  OBVIOUS
<1>1. PICK D : D = Nat \ P
  OBVIOUS
<1>2. PICK d \in D : \A k \in D : ~(<<k, d>> \in OpToRel(<, Nat))
  BY <1>1, WFMin, NatLessThanWellFounded
<1>3. \A k \in D : ~(k < d)
  BY <1>1, <1>2 DEF OpToRel
<1>4. d # 0 /\ d \in Nat /\ d - 1 \in Nat
  BY <1>1
<1>5. d - 1 \in P
  BY <1>1, <1>3, <1>4
<1>6. (d - 1) + 1 \in P /\ (d - 1) + 1 = d
  BY <1>4, <1>5
<1> QED BY <1>1, <1>6

\* Among finitely many fragments one has the largest order index.
LEMMA LastFragment ==
    ASSUME NEW S, S # {}, \A l \in S : l.order \in 0..MaxOrder
    PROVE  \E m \in S : \A l \in S : l.order <= m.order
<1>1. PICK D : D = {l.order : l \in S}
  OBVIOUS
<1>2. D \subseteq 0..MaxOrder /\ D # {}
  BY <1>1
<1>3. Max(D) \in D /\ \A y \in D : y <= Max(D)
  <2>1. 0 \in Int /\ MaxOrder \in Int
    BY DEF TextAssumption
  <2> QED BY <1>2, <2>1, Extremes
<1>4. PICK m \in S : m.order = Max(D)
  BY <1>1, <1>3
<1> QED BY <1>1, <1>3, <1>4

Sorted(S) ==
    {s \in SetToSeqs(S) : \A i, j \in DOMAIN s : i < j => s[i].order < s[j].order}

\* Fragments with different order indexes can be sorted by them.
LEMMA SortedExists ==
    ASSUME NEW S, IsFiniteSet(S), \A l \in S : l.order \in 0..MaxOrder,
           \A k, l \in S : k # l => k.order # l.order
    PROVE  Sorted(S) # {}
<1>1. PICK P : P = {n \in Nat : \A R \in SUBSET S : Cardinality(R) = n => Sorted(R) # {}}
  OBVIOUS
<1>2. 0 \in P
  <2>1. ASSUME NEW R \in SUBSET S, Cardinality(R) = 0
        PROVE  Sorted(R) # {}
    <3>1. R = {}
      BY <2>1, FS_Subset, FS_EmptySet
    <3>2. [i \in {} |-> i] \in Sorted(R)
      BY <2>1, <3>1 DEF Sorted, SetToSeqs
    <3> QED BY <3>2
  <2> QED BY <1>1, <2>1
<1>3. ASSUME NEW n \in Nat, n \in P
      PROVE  n + 1 \in P
  <2>1. ASSUME NEW R \in SUBSET S, Cardinality(R) = n + 1
        PROVE  Sorted(R) # {}
    <3>1. IsFiniteSet(R)
      BY FS_Subset
    <3>2. R # {}
      BY <2>1, FS_EmptySet
    <3>3. PICK m \in R : \A l \in R : l.order <= m.order
      BY <3>2, LastFragment
    <3>4. R \ {m} \in SUBSET S /\ Cardinality(R \ {m}) = n
      <4>1. Cardinality(R \ {m}) = Cardinality(R) - 1
        BY <3>1, FS_RemoveElement
      <4> QED BY <2>1, <4>1
    <3>5. PICK s : s \in Sorted(R \ {m})
      BY <1>1, <1>3, <3>4
    <3>6. /\ s \in [1..n -> R \ {m}]
          /\ \A i, j \in 1..n : i # j => s[i] # s[j]
          /\ \A i, j \in 1..n : i < j => s[i].order < s[j].order
      BY <3>4, <3>5 DEF Sorted, SetToSeqs
    <3>7. PICK t : t = [i \in 1..(n + 1) |-> IF i = n + 1 THEN m ELSE s[i]]
      OBVIOUS
    <3>8. t \in [1..(n + 1) -> R]
      BY <3>6, <3>7
    <3>9. \A i \in 1..n : t[i] = s[i] /\ t[i] \in R \ {m} /\ t[i].order < m.order
      <4> TAKE i \in 1..n
      <4>1. t[i] = s[i] /\ t[i] \in R \ {m}
        BY <3>6, <3>7
      <4>2. t[i].order <= m.order /\ t[i].order # m.order
        BY <3>3, <4>1
      <4>3. t[i].order \in Int /\ m.order \in Int
        BY <4>1
      <4> QED BY <4>1, <4>2, <4>3
    <3>10. t[n + 1] = m
      BY <3>7
    <3>11. \A i, j \in 1..(n + 1) : i # j => t[i] # t[j]
      BY <3>6, <3>9, <3>10
    <3>12. \A i, j \in 1..(n + 1) : i < j => t[i].order < t[j].order
      <4> TAKE i, j \in 1..(n + 1)
      <4>1. CASE j \in 1..n
        BY <3>6, <3>9, <4>1
      <4>2. CASE j = n + 1
        BY <3>9, <3>10, <4>2
      <4> QED BY <4>1, <4>2
    <3>13. t \in Sorted(R)
      BY <2>1, <3>8, <3>11, <3>12 DEF Sorted, SetToSeqs
    <3> QED BY <3>13
  <2> QED BY <1>1, <2>1
<1>4. Cardinality(S) \in P
  <2>1. Cardinality(S) \in Nat
    BY FS_CardinalityType
  <2> QED BY <1>2, <1>3, <2>1, Induction
<1> QED BY <1>1, <1>4

\* ByOrder lists each fragment once.
LEMMA ByOrderLists ==
    ASSUME NEW S, IsFiniteSet(S), \A l \in S : l.order \in 0..MaxOrder,
           \A k, l \in S : k # l => k.order # l.order
    PROVE  /\ Cardinality(S) \in Nat
           /\ ByOrder(S) \in [1..Cardinality(S) -> S]
           /\ \A i, j \in 1..Cardinality(S) : i # j => ByOrder(S)[i] # ByOrder(S)[j]
           /\ \A l \in S : \E i \in 1..Cardinality(S) : ByOrder(S)[i] = l
<1>1. ByOrder(S) \in Sorted(S)
  BY SortedExists DEF ByOrder, Sorted
<1>2. PICK n : n = Cardinality(S)
  OBVIOUS
<1>3. n \in Nat /\ IsFiniteSet(1..n) /\ Cardinality(1..n) = n
  <2>1. n \in Nat
    BY <1>2, FS_CardinalityType
  <2>2. IsFiniteSet(1..n) /\ Cardinality(1..n) = n
    BY <2>1, FS_Interval
  <2> QED BY <2>1, <2>2
<1>4. PICK s : s = ByOrder(S)
  OBVIOUS
<1>5. s \in [1..n -> S] /\ \A i, j \in 1..n : i # j => s[i] # s[j]
  BY <1>1, <1>2, <1>4 DEF Sorted, SetToSeqs
<1>6. s \in Injection(1..n, S)
  BY <1>5 DEF Injection, IsInjective
<1>7. s \in Surjection(1..n, S)
  BY <1>2, <1>3, <1>6, FS_Injection
<1>8. \A l \in S : \E i \in 1..n : s[i] = l
  BY <1>7 DEF Surjection
<1> QED BY <1>2, <1>3, <1>4, <1>5, <1>8

-----------------------------------------------------------------------------
(* Folds *)

\* The last index of a set of indexes.
LEMMA LastIndex ==
    ASSUME NEW n \in Nat, NEW s \in SUBSET (1..n), s # {}
    PROVE  Max(s) \in s /\ \A i \in s : i <= Max(s)
<1>1. 1 \in Int /\ n \in Int
  OBVIOUS
<1> QED BY <1>1, Extremes

\* The function that FoldLeft is defined by, for the steps of a function.
FoldOf(g, n, T, base, step) ==
    /\ g \in [SUBSET (1..n) -> T]
    /\ g[{}] = base
    /\ \A s \in SUBSET (1..n) : s # {} => g[s] = step[<<g[s \ {Max(s)}], Max(s)>>]

\* There is such a function.
LEMMA Folding ==
    ASSUME NEW n \in Nat, NEW T, NEW base \in T, NEW step \in [T \X (1..n) -> T]
    PROVE  \E g : FoldOf(g, n, T, base, step)
<1>1. PICK P : P = {m \in Nat : m <= n => \E g : FoldOf(g, m, T, base, step)}
  OBVIOUS
<1>2. 0 \in P
  <2>1. PICK g : g = [s \in SUBSET (1..0) |-> base]
    OBVIOUS
  <2>2. 1..0 = {}
    OBVIOUS
  <2>3. FoldOf(g, 0, T, base, step)
    BY <2>1, <2>2 DEF FoldOf
  <2> QED BY <1>1, <2>3
<1>3. ASSUME NEW m \in Nat, m \in P
      PROVE  m + 1 \in P
  <2>1. SUFFICES ASSUME m + 1 <= n
                 PROVE  \E g : FoldOf(g, m + 1, T, base, step)
    BY <1>1
  <2>2. PICK f : FoldOf(f, m, T, base, step)
    BY <1>1, <1>3, <2>1
  <2>3. /\ f \in [SUBSET (1..m) -> T] /\ f[{}] = base
        /\ \A s \in SUBSET (1..m) : s # {} => f[s] = step[<<f[s \ {Max(s)}], Max(s)>>]
    BY <2>2 DEF FoldOf
  <2>4. PICK g : g = [s \in SUBSET (1..(m + 1)) |->
                        IF m + 1 \in s THEN step[<<f[s \ {m + 1}], m + 1>>] ELSE f[s]]
    OBVIOUS
  <2>5. ASSUME NEW s \in SUBSET (1..(m + 1)), m + 1 \in s
        PROVE  /\ Max(s) = m + 1 /\ s \ {m + 1} \in SUBSET (1..m)
               /\ g[s] \in T /\ g[s] = step[<<g[s \ {Max(s)}], Max(s)>>]
    <3>1. PICK i : i = Max(s)
      OBVIOUS
    <3>2. Max(s) = m + 1
      <4>1. m + 1 \in Nat /\ s # {}
        BY <2>5
      <4>2. i \in s /\ \A j \in s : j <= i
        BY <3>1, <4>1, LastIndex
      <4> QED BY <2>5, <3>1, <4>2
    <3>3. PICK r : r = s \ {m + 1}
      OBVIOUS
    <3>4. r \in SUBSET (1..m) /\ r \in SUBSET (1..(m + 1)) /\ m + 1 \notin r
      BY <2>5, <3>3
    <3>5. g[r] = f[r] /\ f[r] \in T
      BY <2>3, <2>4, <3>4
    <3>6. g[s] = step[<<f[r], m + 1>>]
      BY <2>4, <2>5, <3>3
    <3>7. <<f[r], m + 1>> \in T \X (1..n)
      BY <2>1, <3>5
    <3> QED BY <3>2, <3>3, <3>4, <3>5, <3>6, <3>7
  <2>6. ASSUME NEW s \in SUBSET (1..(m + 1)), m + 1 \notin s
        PROVE  /\ g[s] = f[s] /\ g[s] \in T /\ s \in SUBSET (1..m)
               /\ s # {} => g[s] = step[<<g[s \ {Max(s)}], Max(s)>>]
    <3>1. s \in SUBSET (1..m)
      BY <2>6
    <3>2. g[s] = f[s] /\ f[s] \in T
      BY <2>3, <2>4, <2>6, <3>1
    <3>3. ASSUME s # {} PROVE g[s] = step[<<g[s \ {Max(s)}], Max(s)>>]
      <4>1. PICK r : r = s \ {Max(s)}
        OBVIOUS
      <4>2. r \in SUBSET (1..m) /\ r \in SUBSET (1..(m + 1)) /\ m + 1 \notin r
        BY <3>1, <4>1, <2>6
      <4>3. g[r] = f[r]
        BY <2>4, <4>2
      <4> QED BY <2>3, <3>1, <3>2, <3>3, <4>1, <4>3
    <3> QED BY <3>1, <3>2, <3>3
  <2>7. g \in [SUBSET (1..(m + 1)) -> T]
    BY <2>4, <2>5, <2>6
  <2>8. g[{}] = base
    BY <2>3, <2>4
  <2>9. \A s \in SUBSET (1..(m + 1)) : s # {} => g[s] = step[<<g[s \ {Max(s)}], Max(s)>>]
    BY <2>5, <2>6
  <2>10. FoldOf(g, m + 1, T, base, step)
    BY <2>7, <2>8, <2>9 DEF FoldOf
  <2> QED BY <2>10
<1> QED
  <2>1. n \in P
    BY <1>2, <1>3, Induction
  <2> QED BY <1>1, <2>1

\* Sets of indexes are taken apart from the end.
LEMMA FirstIndexes ==
    ASSUME NEW n \in Nat, NEW k \in 1..n
    PROVE  /\ 1..k \in SUBSET (1..n) /\ 1..k # {}
           /\ Max(1..k) = k /\ (1..k) \ {Max(1..k)} = 1..(k - 1)
<1>1. PICK s : s = 1..k
  OBVIOUS
<1>2. s \in SUBSET (1..n) /\ s # {} /\ k \in s /\ \A i \in s : i <= k
  <2>1. k \in 1..k /\ 1..k \subseteq 1..n /\ \A i \in 1..k : i <= k
    OBVIOUS
  <2> QED BY <1>1, <2>1
<1>3. PICK m : m = Max(s)
  OBVIOUS
<1>4. m \in s /\ \A i \in s : i <= m
  BY <1>2, <1>3, LastIndex
<1>5. m = k
  BY <1>2, <1>4
<1>6. s \ {k} = 1..(k - 1)
  <2>1. k \in Int /\ (1..k) \ {k} = 1..(k - 1)
    OBVIOUS
  <2> QED BY <1>1, <2>1
<1> QED BY <1>1, <1>2, <1>3, <1>5, <1>6

\* Induction up to n.
LEMMA InductionTo ==
    ASSUME NEW n \in Nat, NEW Q, 0 \in Q, \A k \in 1..n : k - 1 \in Q => k \in Q
    PROVE  \A k \in 0..n : k \in Q
<1>1. PICK P : P = {k \in Nat : k <= n => k \in Q}
  OBVIOUS
<1>2. 0 \in P
  BY <1>1
<1>3. ASSUME NEW k \in Nat, k \in P
      PROVE  k + 1 \in P
  <2>1. ASSUME k + 1 <= n PROVE k + 1 \in Q
    <3>1. k \in Q /\ k + 1 \in 1..n /\ (k + 1) - 1 = k
      BY <1>1, <1>3, <2>1
    <3> QED BY <3>1
  <2> QED BY <1>1, <2>1
<1>4. \A k \in Nat : k \in P
  BY <1>2, <1>3, Induction
<1> QED BY <1>1, <1>4

-----------------------------------------------------------------------------
(* The search of validate_locked_fragments, fragment by fragment *)

\* find returns the first place from the offset on, or -1.
LEMMA FirstPlace ==
    ASSUME NEW c \in Seq(Alphabet), NEW t \in Seq(Alphabet), NEW offset \in Nat
    PROVE  /\ Places(c, t, offset) = {} => Find(c, t, offset) = -1
           /\ Places(c, t, offset) # {} =>
                /\ Find(c, t, offset) \in Places(c, t, offset)
                /\ \A p \in Places(c, t, offset) : Find(c, t, offset) <= p
           /\ \A p \in Places(c, t, offset) : p \in Nat /\ offset <= p /\ p + Len(t) <= Len(c)
           /\ Find(c, t, offset) >= 0 =>
                /\ Find(c, t, offset) \in Places(c, t, offset)
                /\ Find(c, t, offset) \in Nat
<1>1. PICK S : S = Places(c, t, offset)
  OBVIOUS
<1>2. /\ offset \in Int /\ Len(c) - Len(t) \in Int /\ Len(c) \in Nat /\ Len(t) \in Nat
      /\ S \subseteq offset..(Len(c) - Len(t))
  <2>1. Len(c) \in Nat /\ Len(t) \in Nat
    BY LenProperties
  <2> QED BY <1>1, <2>1 DEF Places
<1>3. Find(c, t, offset) = IF S = {} THEN -1 ELSE Min(S)
  BY <1>1 DEF Find
<1>4. \A p \in S : p \in Nat /\ offset <= p /\ p + Len(t) <= Len(c)
  BY <1>2
<1>5. S # {} => Min(S) \in S /\ \A p \in S : Min(S) <= p
  BY <1>2, Extremes
<1>6. PICK f : f = Find(c, t, offset)
  OBVIOUS
<1>7. /\ S = {} => f = -1
      /\ S # {} => f \in S /\ f \in Nat /\ \A p \in S : f <= p
  BY <1>3, <1>4, <1>5, <1>6
<1>8. f >= 0 => S # {}
  BY <1>7
<1> QED BY <1>1, <1>4, <1>6, <1>7, <1>8

Fragments(s) == {f.text : f \in Range(s)}

\* Where the search stands: behind the last place of each text.
Founds(s) == [cursor : [Fragments(s) -> Nat], missing : Seq(Range(s))]

NothingYet(s) == [cursor |-> [t \in Fragments(s) |-> 0], missing |-> << >>]

\* What one fragment does to the search.
LEMMA SeekFragment ==
    ASSUME NEW c \in Seq(Alphabet), NEW s, NEW n \in Nat, DOMAIN s = 1..n, NEW k \in 1..n,
           s[k].text \in Seq(Alphabet), NEW found \in Founds(s), NEW next,
           next = Seek(c, found, s[k])
    PROVE  /\ s[k].text \in Fragments(s) /\ found.cursor[s[k].text] \in Nat
           /\ next \in Founds(s)
           /\ LET p == Find(c, s[k].text, found.cursor[s[k].text]) IN
              \/ /\ p >= 0 /\ next.missing = found.missing
                 /\ next.cursor[s[k].text] = p + Len(s[k].text)
                 /\ \A t \in Fragments(s) : t # s[k].text => next.cursor[t] = found.cursor[t]
              \/ ~(p >= 0) /\ next.missing # << >>
<1>1. s[k] \in Range(s) /\ s[k].text \in Fragments(s)
  BY DEF Range, Fragments
<1>2. found.cursor \in [Fragments(s) -> Nat] /\ found.missing \in Seq(Range(s))
  BY DEF Founds
<1>3. found.cursor[s[k].text] \in Nat
  BY <1>1, <1>2
<1>4. PICK p : p = Find(c, s[k].text, found.cursor[s[k].text])
  OBVIOUS
<1>5. CASE p >= 0
  <2>1. p \in Nat /\ p + Len(s[k].text) \in Nat
    <3>1. p \in Nat
      BY <1>3, <1>4, <1>5, FirstPlace
    <3>2. Len(s[k].text) \in Nat
      BY LenProperties
    <3> QED BY <3>1, <3>2
  <2>2. next = [found EXCEPT !.cursor[s[k].text] = p + Len(s[k].text)]
    BY <1>4, <1>5 DEF Seek
  <2>3. PICK cursor : cursor = [found.cursor EXCEPT ![s[k].text] = p + Len(s[k].text)]
    OBVIOUS
  <2>4. next = [cursor |-> cursor, missing |-> found.missing]
    BY <2>2, <2>3 DEF Founds
  <2>5. /\ cursor \in [Fragments(s) -> Nat]
        /\ cursor[s[k].text] = p + Len(s[k].text)
        /\ \A t \in Fragments(s) : t # s[k].text => cursor[t] = found.cursor[t]
    BY <1>1, <1>2, <2>1, <2>3
  <2> QED BY <1>1, <1>2, <1>3, <1>4, <1>5, <2>4, <2>5 DEF Founds
<1>6. CASE ~(p >= 0)
  <2>1. next = [found EXCEPT !.missing = Append(@, s[k])]
    BY <1>4, <1>6 DEF Seek
  <2>2. PICK missing : missing = Append(found.missing, s[k])
    OBVIOUS
  <2>3. next = [cursor |-> found.cursor, missing |-> missing]
    BY <2>1, <2>2 DEF Founds
  <2>4. missing \in Seq(Range(s)) /\ missing # << >>
    BY <1>1, <1>2, <2>2, AppendProperties
  <2> QED BY <1>1, <1>2, <1>3, <1>4, <1>6, <2>3, <2>4 DEF Founds
<1> QED BY <1>5, <1>6

\* The search before and after each of the n fragments in s.
Sought(h, c, s, n) ==
    /\ h[0] = NothingYet(s)
    /\ \A k \in 0..n : h[k] \in Founds(s)
    /\ \A k \in 1..n : h[k] = Seek(c, h[k - 1], s[k])

\* The search goes through the fragments one by one.
LEMMA Searching ==
    ASSUME NEW c \in Seq(Alphabet), NEW s, NEW n \in Nat, DOMAIN s = 1..n,
           \A k \in 1..n : s[k].text \in Seq(Alphabet)
    PROVE  \E h : Sought(h, c, s, n) /\ MissingFragments(c, s) = h[n].missing
<1>1. PICK step : step = [x \in Founds(s) \X (1..n) |-> Seek(c, x[1], s[x[2]])]
  OBVIOUS
<1>2. ASSUME NEW found \in Founds(s), NEW k \in 1..n
      PROVE  Seek(c, found, s[k]) \in Founds(s) /\ step[<<found, k>>] = Seek(c, found, s[k])
  <2>1. Seek(c, found, s[k]) \in Founds(s)
    BY SeekFragment
  <2> QED BY <1>1, <2>1
<1>3. step \in [Founds(s) \X (1..n) -> Founds(s)]
  BY <1>1, <1>2
<1>4. NothingYet(s) \in Founds(s)
  BY DEF NothingYet, Founds
<1>5. PICK f : FoldOf(f, n, Founds(s), NothingYet(s), step)
  BY <1>3, <1>4, Folding
<1>6. f = [i \in SUBSET (1..n) |-> IF i = {} THEN NothingYet(s)
                                   ELSE Seek(c, f[i \ {Max(i)}], s[Max(i)])]
  <2>1. ASSUME NEW i \in SUBSET (1..n), i # {}
        PROVE  f[i] = Seek(c, f[i \ {Max(i)}], s[Max(i)])
    <3>1. Max(i) \in 1..n
      BY <2>1, LastIndex
    <3>2. f[i \ {Max(i)}] \in Founds(s)
      BY <1>5 DEF FoldOf
    <3>3. f[i] = step[<<f[i \ {Max(i)}], Max(i)>>]
      BY <1>5, <2>1 DEF FoldOf
    <3> QED BY <1>2, <3>1, <3>2, <3>3
  <2> QED BY <1>5, <2>1 DEF FoldOf
<1>7. PICK g : g = CHOOSE e : e = [i \in SUBSET (1..n) |-> IF i = {} THEN NothingYet(s)
                                     ELSE Seek(c, e[i \ {Max(i)}], s[Max(i)])]
  OBVIOUS
<1>8. MissingFragments(c, s) = g[1..n].missing
  BY <1>7 DEF MissingFragments, FoldLeft, MapThenFoldSet, NothingYet, Fragments
<1>9. g = [i \in SUBSET (1..n) |-> IF i = {} THEN NothingYet(s)
                                   ELSE Seek(c, g[i \ {Max(i)}], s[Max(i)])]
  BY <1>6, <1>7
<1>10. \A i \in SUBSET (1..n) :
         g[i] = IF i = {} THEN NothingYet(s) ELSE Seek(c, g[i \ {Max(i)}], s[Max(i)])
  BY <1>9
<1>11. PICK h : h = [k \in 0..n |-> g[1..k]]
  OBVIOUS
<1>12. h[0] = NothingYet(s)
  <2>1. {} \in SUBSET (1..n) /\ 1..0 = {} /\ 0 \in 0..n
    OBVIOUS
  <2> QED BY <1>10, <1>11, <2>1
<1>13. ASSUME NEW k \in 1..n
       PROVE  h[k] = Seek(c, h[k - 1], s[k])
  <2>1. k \in 0..n /\ k - 1 \in 0..n
    OBVIOUS
  <2>2. h[k] = g[1..k] /\ h[k - 1] = g[1..(k - 1)]
    BY <1>11, <2>1, Zenon
  <2>3. g[1..k] = Seek(c, g[1..(k - 1)], s[k])
    BY <1>10, FirstIndexes
  <2> QED BY <2>2, <2>3
<1>14. \A k \in 0..n : h[k] \in Founds(s)
  <2>1. PICK Q : Q = {k \in Nat : h[k] \in Founds(s)}
    OBVIOUS
  <2>2. 0 \in Q
    BY <1>4, <1>12, <2>1
  <2>3. ASSUME NEW k \in 1..n, k - 1 \in Q PROVE k \in Q
    <3>1. h[k - 1] \in Founds(s) /\ h[k] = Seek(c, h[k - 1], s[k])
      BY <1>13, <2>1, <2>3
    <3>2. Seek(c, h[k - 1], s[k]) \in Founds(s)
      BY <1>2, <3>1
    <3>3. k \in Nat /\ h[k] \in Founds(s)
      BY <3>1, <3>2
    <3> QED BY <2>1, <3>3
  <2>4. \A k \in 0..n : k \in Q
    BY <2>2, <2>3, InductionTo
  <2> QED BY <2>1, <2>4
<1>15. MissingFragments(c, s) = h[n].missing
  <2>1. n \in 0..n
    OBVIOUS
  <2>2. h[n] = g[1..n]
    BY <1>11, <2>1, Zenon
  <2> QED BY <1>8, <2>2
<1>16. Sought(h, c, s, n)
  BY <1>12, <1>13, <1>14 DEF Sought
<1> QED BY <1>15, <1>16

-----------------------------------------------------------------------------
(* What the validator lets through has every fragment as often as it is listed *)

\* How many of the first k fragments have the text t.
Count(s, t, k) == Cardinality({i \in 1..k : s[i].text = t})

LEMMA Counting ==
    ASSUME NEW s, NEW t
    PROVE  /\ Count(s, t, 0) = 0
           /\ \A k \in Nat : Count(s, t, k) \in Nat
           /\ \A k \in Nat \ {0} :
                Count(s, t, k) = IF s[k].text = t THEN Count(s, t, k - 1) + 1
                                 ELSE Count(s, t, k - 1)
<1>1. ASSUME NEW k \in Nat
      PROVE  IsFiniteSet({i \in 1..k : s[i].text = t}) /\ Count(s, t, k) \in Nat
  <2>1. IsFiniteSet(1..k)
    BY FS_Interval
  <2>2. IsFiniteSet({i \in 1..k : s[i].text = t})
    BY <2>1, FS_Subset
  <2> QED BY <2>2, FS_CardinalityType DEF Count
<1>2. Count(s, t, 0) = 0
  <2>1. {i \in 1..0 : s[i].text = t} = {}
    OBVIOUS
  <2> QED BY <2>1, FS_EmptySet DEF Count
<1>3. ASSUME NEW k \in Nat \ {0}
      PROVE  Count(s, t, k) = IF s[k].text = t THEN Count(s, t, k - 1) + 1
                              ELSE Count(s, t, k - 1)
  <2>1. PICK S : S = {i \in 1..(k - 1) : s[i].text = t}
    OBVIOUS
  <2>2. IsFiniteSet(S) /\ Count(s, t, k - 1) = Cardinality(S)
    <3>1. k - 1 \in Nat
      OBVIOUS
    <3> QED BY <1>1, <2>1, <3>1 DEF Count
  <2>3. CASE s[k].text = t
    <3>1. {i \in 1..k : s[i].text = t} = S \cup {k} /\ k \notin S
      BY <2>1, <2>3
    <3>2. Cardinality(S \cup {k}) = Cardinality(S) + 1
      BY <2>2, <3>1, FS_AddElement
    <3> QED BY <2>2, <2>3, <3>1, <3>2 DEF Count
  <2>4. CASE s[k].text # t
    <3>1. {i \in 1..k : s[i].text = t} = S
      BY <2>1, <2>4
    <3> QED BY <2>2, <2>4, <3>1 DEF Count
  <2> QED BY <2>3, <2>4
<1> QED BY <1>1, <1>2, <1>3

LEMMA CountStep ==
    ASSUME NEW s, NEW k \in Nat \ {0}, NEW t
    PROVE  /\ Count(s, t, k - 1) \in Nat
           /\ s[k].text = t => Count(s, t, k) = Count(s, t, k - 1) + 1
           /\ s[k].text # t => Count(s, t, k) = Count(s, t, k - 1)
<1>1. k - 1 \in Nat
  OBVIOUS
<1>2. Count(s, t, k - 1) \in Nat
  BY <1>1, Counting
<1>3. Count(s, t, k) = IF s[k].text = t THEN Count(s, t, k - 1) + 1 ELSE Count(s, t, k - 1)
  <2>1. \A j \in Nat \ {0} : Count(s, t, j) = IF s[j].text = t THEN Count(s, t, j - 1) + 1
                                              ELSE Count(s, t, j - 1)
    BY Counting, Zenon
  <2> QED BY <2>1
<1> QED BY <1>2, <1>3

\* Places of t in c, one for each of k fragments, none over another, all before cursor.
Reserved(c, t, count, cursor) ==
    \E places \in SUBSET Places(c, t, 0) :
      /\ IsFiniteSet(places) /\ Cardinality(places) = count
      /\ \A p \in places : p + Len(t) <= cursor
      /\ \A p, q \in places : p < q => p + Len(t) <= q

\* One more fragment is found behind the places of the others.
LEMMA OneMorePlace ==
    ASSUME NEW c \in Seq(Alphabet), NEW t \in Seq(Alphabet), t # << >>,
           NEW count \in Nat, NEW cursor \in Nat, Reserved(c, t, count, cursor),
           Find(c, t, cursor) >= 0
    PROVE  Reserved(c, t, count + 1, Find(c, t, cursor) + Len(t))
<1>1. PICK places \in SUBSET Places(c, t, 0) :
        /\ IsFiniteSet(places) /\ Cardinality(places) = count
        /\ \A p \in places : p + Len(t) <= cursor
        /\ \A p, q \in places : p < q => p + Len(t) <= q
  BY DEF Reserved
<1>2. PICK new : new = Find(c, t, cursor)
  OBVIOUS
<1>3. new \in Places(c, t, cursor) /\ new \in Nat /\ cursor <= new
  BY <1>2, FirstPlace
<1>4. Len(t) \in Nat /\ Len(t) > 0 /\ Len(c) \in Nat
  BY LenProperties, EmptySeq
<1>5. new \in Places(c, t, 0)
  BY <1>3, <1>4 DEF Places
<1>6. ASSUME NEW p \in places
      PROVE  p \in Nat /\ p < new /\ p + Len(t) <= new /\ p + Len(t) <= new + Len(t)
  <2>1. p \in Nat
    <3>1. p \in Places(c, t, 0) /\ 0 \in Nat
      BY <1>1
    <3> QED BY <3>1, FirstPlace
  <2> QED BY <1>1, <1>3, <1>4, <2>1
<1>7. PICK more : more = places \cup {new}
  OBVIOUS
<1>8. IsFiniteSet(more) /\ Cardinality(more) = count + 1
  <2>1. new \notin places
    BY <1>3, <1>6
  <2> QED BY <1>1, <1>7, <2>1, FS_AddElement
<1>9. \A p \in more : p + Len(t) <= new + Len(t)
  BY <1>3, <1>4, <1>6, <1>7
<1>10. \A p, q \in more : p < q => p + Len(t) <= q
  <2> TAKE p, q \in more
  <2>1. CASE p \in places /\ q \in places
    BY <1>1, <2>1
  <2>2. CASE p \in places /\ q = new
    BY <1>6, <2>2
  <2>3. CASE p = new
    BY <1>3, <1>6, <1>7, <2>3
  <2> QED BY <1>7, <2>1, <2>2, <2>3
<1>11. more \in SUBSET Places(c, t, 0)
  BY <1>1, <1>5, <1>7
<1> QED BY <1>2, <1>8, <1>9, <1>10, <1>11 DEF Reserved

\* If nothing is missing at the end, nothing was missing before.
LEMMA NothingMissing ==
    ASSUME NEW n \in Nat, NEW h, h[n].missing = << >>,
           \A k \in 1..n : h[k].missing = h[k - 1].missing \/ h[k].missing # << >>
    PROVE  \A k \in 0..n : h[k].missing = << >>
<1>1. PICK Q : Q = {j \in Nat : h[n - j].missing = << >>}
  OBVIOUS
<1>2. 0 \in Q
  <2>1. n - 0 = n
    OBVIOUS
  <2> QED BY <1>1, <2>1
<1>3. ASSUME NEW j \in 1..n, j - 1 \in Q PROVE j \in Q
  <2>1. (n - j) + 1 \in 1..n /\ n - (j - 1) = (n - j) + 1 /\ ((n - j) + 1) - 1 = n - j
    OBVIOUS
  <2>2. h[(n - j) + 1].missing = << >>
    BY <1>1, <1>3, <2>1
  <2>3. h[n - j].missing = << >>
    BY <2>1, <2>2
  <2> QED BY <1>1, <2>3
<1>4. \A j \in 0..n : j \in Q
  BY <1>2, <1>3, InductionTo
<1> SUFFICES ASSUME NEW k \in 0..n PROVE h[k].missing = << >>
  OBVIOUS
<1>5. n - k \in 0..n /\ n - (n - k) = k
  OBVIOUS
<1> QED BY <1>1, <1>4, <1>5

\* A candidate in which no fragment is missing has each text as often as it is listed.
LEMMA NothingMissingOccurs ==
    ASSUME NEW c \in Seq(Alphabet), NEW s, NEW n \in Nat, DOMAIN s = 1..n,
           \A k \in 1..n : s[k].text \in Seq(Alphabet) /\ s[k].text # << >>,
           MissingFragments(c, s) = << >>, NEW t \in Seq(Alphabet)
    PROVE  Occurs(c, t, Count(s, t, n))
<1>1. PICK h : /\ h[0] = NothingYet(s)
               /\ \A k \in 0..n : h[k] \in Founds(s)
               /\ \A k \in 1..n : h[k] = Seek(c, h[k - 1], s[k])
               /\ MissingFragments(c, s) = h[n].missing
  <2>1. \A k \in 1..n : s[k].text \in Seq(Alphabet)
    OBVIOUS
  <2>2. PICK h : Sought(h, c, s, n) /\ MissingFragments(c, s) = h[n].missing
    BY <2>1, Searching
  <2> QED BY <2>2 DEF Sought
<1>2. ASSUME NEW k \in 1..n
      PROVE  /\ k - 1 \in 0..n /\ h[k - 1] \in Founds(s)
             /\ s[k].text \in Fragments(s) /\ h[k - 1].cursor[s[k].text] \in Nat
             /\ LET p == Find(c, s[k].text, h[k - 1].cursor[s[k].text]) IN
                \/ /\ p >= 0 /\ h[k].missing = h[k - 1].missing
                   /\ h[k].cursor[s[k].text] = p + Len(s[k].text)
                   /\ \A u \in Fragments(s) :
                        u # s[k].text => h[k].cursor[u] = h[k - 1].cursor[u]
                \/ ~(p >= 0) /\ h[k].missing # << >>
  <2>1. k - 1 \in 0..n /\ h[k - 1] \in Founds(s) /\ h[k] = Seek(c, h[k - 1], s[k])
    <3>1. k - 1 \in 0..n
      OBVIOUS
    <3> QED BY <1>1, <3>1
  <2> QED BY <2>1, SeekFragment
<1>3. \A k \in 0..n : h[k].missing = << >>
  <2>1. \A k \in 1..n : h[k].missing = h[k - 1].missing \/ h[k].missing # << >>
    BY <1>2
  <2> QED BY <1>1, <2>1, NothingMissing
<1>4. CASE t \notin Fragments(s)
  <2>1. {i \in 1..n : s[i].text = t} = {}
    BY <1>4 DEF Fragments, Range
  <2>2. Count(s, t, n) = 0
    BY <2>1, FS_EmptySet DEF Count
  <2>3. {} \in kSubset(0, Places(c, t, 0))
    BY FS_EmptySet DEF kSubset
  <2> QED BY <2>2, <2>3 DEF Occurs
<1>5. CASE t \in Fragments(s)
  <2>1. PICK Q : Q = {k \in Nat : Reserved(c, t, Count(s, t, k), h[k].cursor[t])}
    OBVIOUS
  <2>2. 0 \in Q
    <3>1. {} \in SUBSET Places(c, t, 0) /\ IsFiniteSet({}) /\ Cardinality({}) = Count(s, t, 0)
      BY Counting, FS_EmptySet
    <3> QED BY <2>1, <3>1 DEF Reserved
  <2>3. ASSUME NEW k \in 1..n, k - 1 \in Q
        PROVE  k \in Q
    <3>1. /\ k \in Nat \ {0} /\ k - 1 \in Nat /\ Count(s, t, k - 1) \in Nat
          /\ Reserved(c, t, Count(s, t, k - 1), h[k - 1].cursor[t])
      <4>1. k \in Nat \ {0} /\ k - 1 \in Nat
        OBVIOUS
      <4> QED BY <2>1, <2>3, <4>1, Counting
    <3>2. PICK p : p = Find(c, s[k].text, h[k - 1].cursor[s[k].text])
      OBVIOUS
    <3>3. /\ p >= 0 /\ h[k].cursor[s[k].text] = p + Len(s[k].text)
          /\ t # s[k].text => h[k].cursor[t] = h[k - 1].cursor[t]
      <4>1. h[k].missing = << >>
        BY <1>3
      <4> QED BY <1>2, <1>5, <3>2, <4>1
    <3>4. CASE s[k].text = t
      <4>1. Count(s, t, k) = Count(s, t, k - 1) + 1
        BY <3>1, <3>4, CountStep
      <4>2. h[k - 1].cursor[t] \in Nat /\ t # << >>
        BY <1>2, <3>4
      <4>3. Reserved(c, t, Count(s, t, k - 1) + 1, p + Len(t))
        BY <3>1, <3>2, <3>3, <3>4, <4>2, OneMorePlace
      <4>4. Reserved(c, t, Count(s, t, k), h[k].cursor[t])
        BY <3>3, <3>4, <4>1, <4>3
      <4> QED BY <2>1, <3>1, <4>4
    <3>5. CASE s[k].text # t
      <4>1. Count(s, t, k) = Count(s, t, k - 1)
        BY <3>1, <3>5, CountStep
      <4> QED BY <2>1, <3>1, <3>3, <3>5, <4>1
    <3> QED BY <3>4, <3>5
  <2>4. n \in Q
    <3>1. n \in 0..n
      OBVIOUS
    <3> QED BY <2>2, <2>3, <3>1, InductionTo
  <2>5. PICK places \in SUBSET Places(c, t, 0) :
          /\ Cardinality(places) = Count(s, t, n)
          /\ \A p, q \in places : p < q => p + Len(t) <= q
    BY <2>1, <2>4 DEF Reserved
  <2>6. places \in kSubset(Count(s, t, n), Places(c, t, 0))
    BY <2>5 DEF kSubset
  <2> QED BY <2>5, <2>6 DEF Occurs
<1> QED BY <1>4, <1>5

\* Counting further finds no fewer.
LEMMA CountGrows ==
    ASSUME NEW s, NEW t, NEW n \in Nat, NEW k \in 1..n
    PROVE  Count(s, t, k) <= Count(s, t, n)
<1>1. IsFiniteSet({i \in 1..n : s[i].text = t})
  <2>1. IsFiniteSet(1..n)
    BY FS_Interval
  <2> QED BY <2>1, FS_Subset
<1>2. {i \in 1..k : s[i].text = t} \in SUBSET {i \in 1..n : s[i].text = t}
  OBVIOUS
<1> QED BY <1>1, <1>2, FS_Subset DEF Count

-----------------------------------------------------------------------------
(* The fragments of the reachable states *)

\* The columns of a fragment, and the version it was cut from.
LEMMA FragmentFields ==
    ASSUME TextTypeOK, NEW l \in locks
    PROVE  /\ l.text \in Text /\ l.text \in Seq(Alphabet) /\ l.order \in 0..MaxOrder
           /\ l.start \in Nat /\ l.end \in Nat /\ l.since \in Nat
           /\ Cut(l) => /\ versions[l.version].text \in Text
                        /\ versions[l.version].text \in Seq(Alphabet)
                        /\ Len(l.text) = l.end - l.start /\ l.text # << >>
<1>1. /\ l.text \in Text /\ l.order \in 0..MaxOrder /\ l.start \in 0..MaxLength
      /\ l.end \in 0..MaxLength /\ l.since \in 1..MaxVersions
  BY DEF TextTypeOK, Lock
<1>2. l.start \in Nat /\ l.end \in Nat /\ l.since \in Nat /\ l.text \in Seq(Alphabet)
  BY <1>1, TextIsSequence
<1>3. ASSUME Cut(l)
      PROVE  /\ versions[l.version].text \in Text
             /\ versions[l.version].text \in Seq(Alphabet)
             /\ Len(l.text) = l.end - l.start /\ l.text # << >>
  <2>1. versions[l.version] \in Version
    <3>1. versions \in Seq(Version) /\ l.version \in DOMAIN versions
      BY <1>3 DEF Cut, TextTypeOK
    <3> QED BY <3>1, ElementOfSeq, LenProperties
  <2>2. versions[l.version].text \in Text
    BY <2>1 DEF Version
  <2>3. Len(l.text) = l.end - l.start
    <3>1. PICK text \in Text : text = versions[l.version].text
      BY <2>2
    <3>2. l.start <= l.end /\ l.end <= Len(text) /\ l.text = Slice(text, l.start, l.end)
      BY <1>2, <1>3, <3>1 DEF Cut
    <3>3. Len(Slice(text, l.start, l.end)) = l.end - l.start
      BY <1>2, <3>2, SliceOfText
    <3> QED BY <3>2, <3>3
  <2>4. Len(l.text) > 0
    BY <1>2, <1>3, <2>3 DEF Cut
  <2> QED BY <1>2, <2>2, <2>3, <2>4, EmptySeq, TextIsSequence
<1> QED BY <1>1, <1>2, <1>3

\* Any of the fragments can be listed by their order indexes, each once.
LEMMA FragmentList ==
    ASSUME TextTypeOK, FragmentInv, NEW S \in SUBSET locks
    PROVE  /\ IsFiniteSet(S) /\ Cardinality(S) \in Nat
           /\ ByOrder(S) \in [1..Cardinality(S) -> S]
           /\ \A i, j \in 1..Cardinality(S) : i # j => ByOrder(S)[i] # ByOrder(S)[j]
           /\ \A l \in S : \E i \in 1..Cardinality(S) : ByOrder(S)[i] = l
           /\ \A t : Count(ByOrder(S), t, Cardinality(S)) = Cardinality({l \in S : l.text = t})
<1>1. IsFiniteSet(S)
  BY FS_Subset DEF FragmentInv
<1>2. /\ \A l \in S : l.order \in 0..MaxOrder
      /\ \A k, l \in S : k # l => k.order # l.order
  BY FragmentFields DEF FragmentInv, Apart
<1>3. PICK s, n : s = ByOrder(S) /\ n = Cardinality(S)
  OBVIOUS
<1>4. /\ n \in Nat /\ s \in [1..n -> S]
      /\ \A i, j \in 1..n : i # j => s[i] # s[j]
      /\ \A l \in S : \E i \in 1..n : s[i] = l
  BY <1>1, <1>2, <1>3, ByOrderLists
<1>5. ASSUME NEW t
      PROVE  Count(s, t, n) = Cardinality({l \in S : l.text = t})
  <2>1. PICK I : I = {i \in 1..n : s[i].text = t}
    OBVIOUS
  <2>2. IsFiniteSet(I)
    <3>1. IsFiniteSet(1..n)
      BY <1>4, FS_Interval
    <3> QED BY <2>1, <3>1, FS_Subset
  <2>3. \A x, y \in I : s[x] = s[y] => x = y
    BY <1>4, <2>1
  <2>4. {l \in S : l.text = t} = {s[x] : x \in I}
    <3>1. ASSUME NEW l \in S, l.text = t PROVE l \in {s[x] : x \in I}
      BY <1>4, <2>1, <3>1
    <3>2. ASSUME NEW x \in I PROVE s[x] \in S /\ s[x].text = t
      BY <1>4, <2>1
    <3> QED BY <3>1, <3>2
  <2>5. Cardinality({l \in S : l.text = t}) = Cardinality(I)
    BY <2>2, <2>3, <2>4, InjectiveImage
  <2> QED BY <2>1, <2>5 DEF Count
<1> QED BY <1>1, <1>3, <1>4, <1>5

\* An accepted candidate has each locked text as often as it is locked.
LEMMA AcceptedOccurs ==
    ASSUME TextTypeOK, FragmentInv, NEW c \in Text, PreservesLocks(c), NEW l \in locks
    PROVE  Occurs(c, l.text, Cardinality({k \in locks : k.text = l.text}))
<1>1. PICK s, n : s = ByOrder(locks) /\ n = Cardinality(locks)
  OBVIOUS
<1>2. /\ n \in Nat /\ s \in [1..n -> locks]
      /\ Count(s, l.text, n) = Cardinality({k \in locks : k.text = l.text})
  BY <1>1, FragmentList
<1>3. \A k \in 1..n : s[k].text \in Seq(Alphabet) /\ s[k].text # << >>
  <2> TAKE k \in 1..n
  <2>1. s[k] \in locks
    BY <1>2
  <2> QED BY <2>1, FragmentFields DEF FragmentInv
<1>4. MissingFragments(c, s) = << >>
  BY <1>1 DEF PreservesLocks
<1>5. c \in Seq(Alphabet) /\ l.text \in Seq(Alphabet) /\ DOMAIN s = 1..n
  BY <1>2, FragmentFields, TextIsSequence
<1> QED BY <1>2, <1>3, <1>4, <1>5, NothingMissingOccurs

\* A text that occurs n times occurs m times for any m up to n.
LEMMA OccursLess ==
    ASSUME NEW c \in Seq(Alphabet), NEW t \in Seq(Alphabet), NEW n \in Nat, NEW m \in Nat,
           m <= n, Occurs(c, t, n)
    PROVE  Occurs(c, t, m)
<1>1. PICK places \in SUBSET Places(c, t, 0) :
        /\ Cardinality(places) = n
        /\ \A p, q \in places : p < q => p + Len(t) <= q
  BY DEF Occurs, kSubset
<1>2. IsFiniteSet(places)
  <2>1. Len(c) \in Nat /\ Len(t) \in Nat
    BY LenProperties
  <2>2. IsFiniteSet(0..(Len(c) - Len(t)))
    BY <2>1, FS_Interval
  <2>3. places \in SUBSET (0..(Len(c) - Len(t)))
    BY <1>1 DEF Places
  <2> QED BY <2>2, <2>3, FS_Subset
<1>3. PICK f : f \in Bijection(1..n, places)
  BY <1>1, <1>2, FS_CardinalityType DEF ExistsBijection
<1>4. f \in [1..n -> places] /\ \A x, y \in 1..n : f[x] = f[y] => x = y
  BY <1>3 DEF Bijection, Injection, IsInjective
<1>5. PICK few : few = {f[x] : x \in 1..m}
  OBVIOUS
<1>6. Cardinality(few) = m
  <2>1. IsFiniteSet(1..m) /\ Cardinality(1..m) = m
    BY FS_Interval
  <2>2. \A x, y \in 1..m : f[x] = f[y] => x = y
    BY <1>4
  <2> QED BY <1>5, <2>1, <2>2, InjectiveImage
<1>7. few \subseteq places
  BY <1>4, <1>5
<1>8. few \in kSubset(m, Places(c, t, 0))
  BY <1>1, <1>6, <1>7 DEF kSubset
<1> QED BY <1>1, <1>7, <1>8 DEF Occurs

\* How often a text is locked that the i-th version has to have.
Required(S, t, i) == {k \in S : k.text = t /\ k.since < i}

\* A new version, if there is nothing to preserve or it preserves it.
LEMMA VersionKeepsFragments ==
    ASSUME TextInv, FragmentInv, NEW t \in Text, NEW p, NEW x,
           AddVersion(t, p, x), locks = {} \/ PreservesLocks(t)
    PROVE  FragmentInv'
<1>1. /\ versions \in Seq(Version) /\ Len(versions) \in Nat
      /\ DOMAIN versions = 1..Len(versions)
  BY LenProperties DEF TextInv, TextTypeOK
<1>2. PICK v : v = [text |-> t, parent |-> p, selection |-> x]
  OBVIOUS
<1>3. /\ versions' = Append(versions, v) /\ locks' = locks
  BY <1>2 DEF AddVersion
<1>4. /\ DOMAIN versions' = 1..(Len(versions) + 1) /\ Len(versions') = Len(versions) + 1
      /\ \A i \in 1..Len(versions) : versions'[i] = versions[i]
      /\ versions'[Len(versions) + 1].text = t
  BY <1>1, <1>2, <1>3
<1>5. \A l \in locks : Cut(l)'
  <2> TAKE l \in locks
  <2>1. Cut(l) /\ l.since \in Nat
    BY FragmentFields DEF FragmentInv, TextInv
  <2> QED BY <1>1, <1>4, <2>1 DEF Cut
<1>6. ASSUME NEW i \in DOMAIN versions', NEW l \in locks, l.since < i
      PROVE  Occurs(versions'[i].text, l.text, Cardinality(Required(locks, l.text, i)))
  <2>1. CASE i \in DOMAIN versions
    BY <1>1, <1>4, <1>6, <2>1 DEF FragmentInv, LocksPreserved, Required
  <2>2. CASE i = Len(versions) + 1
    <3>1. \A k \in locks : k.since < i
      <4> TAKE k \in locks
      <4>1. k.since \in Nat /\ k.since <= Len(versions)
        BY FragmentFields DEF FragmentInv, TextInv, Cut
      <4> QED BY <1>1, <2>2, <4>1
    <3>2. Required(locks, l.text, i) = {k \in locks : k.text = l.text}
      BY <3>1 DEF Required
    <3>3. Occurs(t, l.text, Cardinality({k \in locks : k.text = l.text}))
      BY AcceptedOccurs DEF TextInv
    <3> QED BY <1>4, <2>2, <3>2, <3>3
  <2> QED BY <1>1, <1>4, <2>1, <2>2
<1>7. LocksPreserved'
  BY <1>3, <1>6 DEF LocksPreserved, Required
<1> QED BY <1>3, <1>5, <1>7 DEF FragmentInv, Apart

\* The next order index is behind all others.
LEMMA OrderBelowNext ==
    ASSUME TextTypeOK, NEW k \in locks
    PROVE  k.order < NextOrder
<1>1. PICK S : S = {l.order : l \in locks} \cup {-1}
  OBVIOUS
<1>2. \A l \in locks : l.order \in 0..MaxOrder
  BY DEF TextTypeOK, Lock
<1>3. S \subseteq (-1)..MaxOrder /\ S # {} /\ -1 \in Int /\ MaxOrder \in Int
  BY <1>1, <1>2 DEF TextAssumption
<1>4. PICK m : m = Max(S)
  OBVIOUS
<1>5. m \in S /\ \A y \in S : y <= m
  BY <1>3, <1>4, Extremes
<1>6. k.order <= m /\ k.order \in Int /\ m \in Int
  BY <1>1, <1>2, <1>3, <1>5
<1>7. NextOrder = m + 1
  BY <1>1, <1>4 DEF NextOrder
<1> QED BY <1>6, <1>7

\* Fewer fragments.
LEMMA FragmentDeleted ==
    ASSUME TextInv, FragmentInv, NEW l \in locks, DeleteLock(l)
    PROVE  FragmentInv'
<1>1. locks' = locks \ {l} /\ versions' = versions
  BY DEF DeleteLock
<1>2. IsFiniteSet(locks) /\ IsFiniteSet(locks')
  BY <1>1, FS_RemoveElement DEF FragmentInv
<1>3. ASSUME NEW i \in DOMAIN versions, NEW k \in locks', k.since < i
      PROVE  Occurs(versions[i].text, k.text, Cardinality(Required(locks', k.text, i)))
  <2>1. k \in locks
    BY <1>1
  <2>2. Occurs(versions[i].text, k.text, Cardinality(Required(locks, k.text, i)))
    BY <1>3, <2>1 DEF FragmentInv, LocksPreserved, Required
  <2>3. IsFiniteSet(Required(locks, k.text, i))
    <3>1. Required(locks, k.text, i) \in SUBSET locks
      BY DEF Required
    <3> QED BY <1>2, <3>1, FS_Subset
  <2>4. Required(locks', k.text, i) \in SUBSET Required(locks, k.text, i)
    BY <1>1 DEF Required
  <2>5. /\ Cardinality(Required(locks, k.text, i)) \in Nat
        /\ Cardinality(Required(locks', k.text, i)) \in Nat
        /\ Cardinality(Required(locks', k.text, i)) <= Cardinality(Required(locks, k.text, i))
    BY <2>3, <2>4, FS_Subset, FS_CardinalityType
  <2>6. versions[i].text \in Seq(Alphabet) /\ k.text \in Seq(Alphabet)
    <3>1. versions[i] \in Version
      BY ElementOfSeq, LenProperties DEF TextInv, TextTypeOK
    <3> QED BY <2>1, <3>1, FragmentFields, TextIsSequence DEF Version, TextInv
  <2> QED BY <2>2, <2>5, <2>6, OccursLess
<1>4. LocksPreserved'
  BY <1>1, <1>3 DEF LocksPreserved, Required
<1>5. /\ \A k \in locks' : Cut(k)'
      /\ \A k, m \in locks' : Apart(k, m)
  BY <1>1 DEF FragmentInv, Cut
<1> QED BY <1>2, <1>4, <1>5 DEF FragmentInv, Apart

\* A new fragment: its order index is new, its range is free, and no version has to
\* have it yet.
LEMMA FragmentAdded ==
    ASSUME TextInv, FragmentInv, NEW v \in DOMAIN versions, NEW x \in Selection,
           CreateLock(v, x)
    PROVE  FragmentInv'
<1>1. PICK l : l = [version |-> v, start |-> x.start, end |-> x.end, order |-> NextOrder,
                    text |-> Slice(versions[v].text, x.start, x.end),
                    since |-> Len(versions)]
  OBVIOUS
<1>2. /\ locks' = locks \cup {l} /\ versions' = versions
      /\ x.end <= Len(versions[v].text) /\ ~Overlaps(v, x)
  BY <1>1 DEF CreateLock
<1>3. /\ x.start \in Nat /\ x.end \in Nat /\ x.start < x.end /\ Len(versions) \in Nat
      /\ DOMAIN versions = 1..Len(versions)
  BY LenProperties DEF Selection, TextInv, TextTypeOK
<1>4. IsFiniteSet(locks')
  BY <1>2, FS_AddElement DEF FragmentInv
<1>5. Cut(l)
  BY <1>1, <1>2, <1>3 DEF Cut
<1>6. ASSUME NEW k \in locks
      PROVE  /\ k.order # l.order
             /\ k.version = l.version => k.end <= l.start \/ l.end <= k.start
  <2>1. k.order < NextOrder
    BY OrderBelowNext DEF TextInv
  <2>2. k.order \in Int /\ k.start \in Nat /\ k.end \in Nat
    BY FragmentFields DEF TextInv
  <2>3. k.version = v => ~(x.start < k.end /\ x.end > k.start)
    BY <1>2 DEF Overlaps
  <2> QED BY <1>1, <1>3, <2>1, <2>2, <2>3
<1>7. \A k, m \in locks' : Apart(k, m)
  <2> TAKE k, m \in locks'
  <2>1. CASE k \in locks /\ m \in locks
    BY <2>1 DEF FragmentInv
  <2>2. CASE k = l /\ m = l
    BY <2>2 DEF Apart
  <2>3. CASE k \in locks /\ m = l
    BY <1>6, <2>3 DEF Apart
  <2>4. CASE k = l /\ m \in locks
    BY <1>6, <2>4 DEF Apart
  <2> QED BY <1>2, <2>1, <2>2, <2>3, <2>4
<1>8. ASSUME NEW i \in DOMAIN versions, NEW k \in locks', k.since < i
      PROVE  Occurs(versions[i].text, k.text, Cardinality(Required(locks', k.text, i)))
  <2>1. ~(l.since < i)
    BY <1>1, <1>3
  <2>2. k \in locks
    BY <1>2, <1>8, <2>1
  <2>3. Required(locks', k.text, i) = Required(locks, k.text, i)
    BY <1>2, <2>1 DEF Required
  <2> QED BY <1>8, <2>2, <2>3 DEF FragmentInv, LocksPreserved, Required
<1>9. LocksPreserved'
  BY <1>2, <1>8 DEF LocksPreserved, Required
<1>10. \A k \in locks' : Cut(k)'
  BY <1>2, <1>5 DEF FragmentInv, Cut
<1> QED BY <1>4, <1>7, <1>9, <1>10 DEF FragmentInv, Apart

\* What a fragment is, which fragments exclude each other and what the versions have
\* of them is inductive.
THEOREM FragmentsInductive == TextSpec => []FragmentInv
<1>1. TextInit => FragmentInv
  BY FS_EmptySet DEF TextInit, FragmentInv, LocksPreserved
<1>2. ASSUME TextInv, FragmentInv, [TextNext]_textVars
      PROVE  FragmentInv'
  <2>1. ASSUME NEW t \in Text, CreateFirstDraft(t)
        PROVE  FragmentInv'
    <3>1. AddVersion(t, 0, NoSelection) /\ versions = << >>
      BY <2>1 DEF CreateFirstDraft
    <3>2. locks = {}
      BY <1>2, <3>1 DEF FragmentInv, Cut
    <3> QED BY <1>2, <3>1, <3>2, VersionKeepsFragments
  <2>2. ASSUME NEW p \in DOMAIN versions, NEW t \in Text, ReviseFull(p, t)
        PROVE  FragmentInv'
    BY <1>2, <2>2, VersionKeepsFragments DEF ReviseFull
  <2>3. ASSUME NEW p \in DOMAIN versions, NEW t \in Text, CreateManualEdit(p, t)
        PROVE  FragmentInv'
    BY <1>2, <2>3, StripTyped, VersionKeepsFragments DEF CreateManualEdit
  <2>4. ASSUME NEW p \in DOMAIN versions, NEW t \in Text, NEW x \in Selection,
               ReviseSelection(p, x, t)
        PROVE  FragmentInv'
    BY <1>2, <2>4, VersionKeepsFragments DEF ReviseSelection
  <2>5. ASSUME NEW v \in DOMAIN versions, NEW x \in Selection, CreateLock(v, x)
        PROVE  FragmentInv'
    BY <1>2, <2>5, FragmentAdded
  <2>6. ASSUME NEW l \in locks, DeleteLock(l)
        PROVE  FragmentInv'
    BY <1>2, <2>6, FragmentDeleted
  <2>7. CASE UNCHANGED textVars
    BY <1>2, <2>7 DEF textVars, FragmentInv, Cut, Apart, LocksPreserved
  <2> QED BY <1>2, <2>1, <2>2, <2>3, <2>4, <2>5, <2>6, <2>7 DEF TextNext
<1> QED BY <1>1, <1>2, TextsInductive, PTL DEF TextSpec

\* Whoever makes a version, from whichever parent, it has each locked text at least as
\* often as it is locked: repeated fragments are looked for one behind the other, and
\* nothing that happens to the fragments later asks more of an old version.
THEOREM FragmentsPreserved == TextSpec => []LocksPreserved
<1>1. FragmentInv => LocksPreserved
  BY DEF FragmentInv
<1> QED BY <1>1, FragmentsInductive, PTL

-----------------------------------------------------------------------------
(* A text that has every fragment often enough passes the validators *)

\* Places of t in c that do not overlap, n of them.
Disjoint(c, t, n, W) ==
    /\ W \subseteq Places(c, t, 0) /\ IsFiniteSet(W) /\ Cardinality(W) = n
    /\ W \subseteq Nat
    /\ \A p, q \in W : p < q => p + Len(t) <= q

\* The places that lie before the cursor.
Below(W, cursor) == {p \in W : p < cursor}

\* Such places exist for a text that occurs often enough.
LEMMA OccursDisjoint ==
    ASSUME NEW c \in Seq(Alphabet), NEW t \in Seq(Alphabet), NEW n \in Nat, Occurs(c, t, n)
    PROVE  \E W : Disjoint(c, t, n, W)
<1>1. PICK W \in SUBSET Places(c, t, 0) :
        /\ Cardinality(W) = n
        /\ \A p, q \in W : p < q => p + Len(t) <= q
  BY DEF Occurs, kSubset
<1>2. IsFiniteSet(W) /\ W \subseteq Nat
  <2>1. Len(c) \in Nat /\ Len(t) \in Nat
    BY LenProperties
  <2>2. IsFiniteSet(0..(Len(c) - Len(t)))
    BY <2>1, FS_Interval
  <2>3. W \in SUBSET (0..(Len(c) - Len(t)))
    BY <1>1 DEF Places
  <2>4. IsFiniteSet(W)
    BY <2>2, <2>3, FS_Subset
  <2>5. W \subseteq Nat
    BY <2>1, <2>3
  <2> QED BY <2>4, <2>5
<1> QED BY <1>1, <1>2 DEF Disjoint

\* The search finds the first place p behind the cursor, and by that passes one of the
\* disjoint places at most.
LEMMA OneStartsWithin ==
    ASSUME NEW c, NEW t \in Seq(Alphabet), NEW n, NEW W, Disjoint(c, t, n, W),
           NEW cursor \in Nat, NEW p \in Nat, \A q \in W : ~(q < cursor) => p <= q
    PROVE  Cardinality(Below(W, p + Len(t))) <= Cardinality(Below(W, cursor)) + 1
<1>1. IsFiniteSet(W) /\ W \subseteq Nat /\ \A q, r \in W : q < r => q + Len(t) <= r
  BY DEF Disjoint
<1>2. IsFiniteSet(Below(W, cursor)) /\ Cardinality(Below(W, cursor)) \in Nat
  BY <1>1, FS_Subset, FS_CardinalityType DEF Below
<1>3. PICK new : new = Below(W, p + Len(t)) \ Below(W, cursor)
  OBVIOUS
<1>4. ASSUME NEW q \in new, NEW r \in new
      PROVE  q = r
  <2>1. PICK d \in Nat : d = Len(t)
    BY LenProperties
  <2>2. q \in W /\ r \in W /\ p <= q /\ p <= r /\ q < p + d /\ r < p + d
    BY <1>3, <2>1 DEF Below
  <2>3. q \in Nat /\ r \in Nat /\ (q < r => q + d <= r) /\ (r < q => r + d <= q)
    BY <1>1, <2>1, <2>2
  <2> QED BY <2>2, <2>3
<1>5. PICK old : old = Below(W, cursor)
  OBVIOUS
<1>6. \E x : Below(W, p + Len(t)) \subseteq old \cup {x}
  <2>1. CASE new = {}
    BY <1>3, <1>5, <2>1
  <2>2. CASE new # {}
    <3>1. PICK x \in new : TRUE
      BY <2>2
    <3>2. new = {x}
      BY <1>4, <3>1
    <3> QED BY <1>3, <1>5, <3>2
  <2> QED BY <2>1, <2>2
<1>7. PICK x : Below(W, p + Len(t)) \in SUBSET (old \cup {x})
  BY <1>6
<1>8. /\ IsFiniteSet(old \cup {x}) /\ Cardinality(old \cup {x}) \in Nat
      /\ Cardinality(old \cup {x}) <= Cardinality(old) + 1
  <2>1. /\ IsFiniteSet(old \cup {x})
        /\ Cardinality(old \cup {x}) = IF x \in old THEN Cardinality(old) ELSE Cardinality(old) + 1
    BY <1>2, <1>5, FS_AddElement
  <2> QED BY <1>2, <1>5, <2>1
<1>9. /\ Cardinality(Below(W, p + Len(t))) <= Cardinality(old \cup {x})
      /\ Cardinality(Below(W, p + Len(t))) \in Nat
  BY <1>7, <1>8, FS_Subset, FS_CardinalityType
<1> QED BY <1>2, <1>5, <1>8, <1>9

\* While fewer places lie before the cursor than there are, another one is found.
LEMMA PlaceAhead ==
    ASSUME NEW c \in Seq(Alphabet), NEW t \in Seq(Alphabet), NEW n \in Nat, NEW W,
           Disjoint(c, t, n, W), NEW cursor \in Nat, Cardinality(Below(W, cursor)) < n
    PROVE  /\ Find(c, t, cursor) \in Nat
           /\ \A q \in W : ~(q < cursor) => Find(c, t, cursor) <= q
<1>1. W \subseteq Nat /\ W \subseteq Places(c, t, 0) /\ Cardinality(W) = n
  BY DEF Disjoint
<1>2. PICK q \in W : ~(q < cursor)
  <2> SUFFICES ASSUME \A q \in W : q < cursor PROVE FALSE
    OBVIOUS
  <2>1. Below(W, cursor) = W
    BY DEF Below
  <2> QED BY <1>1, <2>1
<1>3. \A r \in W : ~(r < cursor) => r \in Places(c, t, cursor)
  <2> TAKE r \in W
  <2> HAVE ~(r < cursor)
  <2>1. r \in Nat /\ r \in Places(c, t, 0)
    BY <1>1
  <2>2. Len(c) \in Nat /\ Len(t) \in Nat
    BY LenProperties
  <2>3. r \in cursor..(Len(c) - Len(t))
    BY <2>1, <2>2 DEF Places
  <2> QED BY <2>1, <2>3 DEF Places
<1>4. Places(c, t, cursor) # {}
  BY <1>2, <1>3
<1>5. /\ Find(c, t, cursor) \in Places(c, t, cursor)
      /\ \A r \in Places(c, t, cursor) : Find(c, t, cursor) <= r
  BY <1>4, FirstPlace
<1>6. Find(c, t, cursor) \in Nat
  BY <1>5, FirstPlace
<1> QED BY <1>3, <1>5, <1>6

\* The search finds every fragment.
LEMMA NoneMissing ==
    ASSUME TextTypeOK, FragmentInv, NEW c \in Text,
           \A l \in locks : Occurs(c, l.text, Cardinality({k \in locks : k.text = l.text}))
    PROVE  MissingFragments(c, ByOrder(locks)) = << >>
<1>1. PICK s, n : s = ByOrder(locks) /\ n = Cardinality(locks)
  OBVIOUS
<1>2. /\ n \in Nat /\ s \in [1..n -> locks]
      /\ \A t : Count(s, t, n) = Cardinality({l \in locks : l.text = t})
  BY <1>1, FragmentList
<1>3. c \in Seq(Alphabet)
  BY TextIsSequence
<1>4. ASSUME NEW k \in 1..n
      PROVE  s[k] \in locks /\ s[k].text \in Seq(Alphabet)
  BY <1>2, FragmentFields
<1>5. PICK h : /\ h[0] = NothingYet(s)
               /\ \A k \in 0..n : h[k] \in Founds(s)
               /\ \A k \in 1..n : h[k] = Seek(c, h[k - 1], s[k])
               /\ MissingFragments(c, s) = h[n].missing
  <2>1. n \in Nat /\ DOMAIN s = 1..n
    BY <1>2
  <2>2. \A k \in 1..n : s[k].text \in Seq(Alphabet)
    BY <1>4
  <2>3. PICK h : Sought(h, c, s, n) /\ MissingFragments(c, s) = h[n].missing
    BY <1>3, <2>1, <2>2, Searching
  <2> QED BY <2>3 DEF Sought
<1>6. \A t \in Fragments(s) : \E W : Disjoint(c, t, Count(s, t, n), W)
  <2> TAKE t \in Fragments(s)
  <2>1. PICK k \in 1..n : t = s[k].text
    BY <1>2 DEF Fragments, Range
  <2>2. s[k] \in locks /\ t \in Seq(Alphabet)
    BY <1>4, <2>1
  <2>3. Occurs(c, t, Count(s, t, n))
    BY <1>2, <2>1, <2>2
  <2>4. Count(s, t, n) \in Nat
    BY <1>2, Counting
  <2> QED BY <1>3, <2>2, <2>3, <2>4, OccursDisjoint
<1>7. PICK W : W = [t \in Fragments(s) |-> CHOOSE X : Disjoint(c, t, Count(s, t, n), X)]
  OBVIOUS
<1>8. \A t \in Fragments(s) : Disjoint(c, t, Count(s, t, n), W[t])
  BY <1>6, <1>7
<1>9. PICK Q : Q = {k \in Nat : /\ h[k].missing = << >>
                                /\ \A t \in Fragments(s) :
                                     Cardinality(Below(W[t], h[k].cursor[t])) <= Count(s, t, k)}
  OBVIOUS
<1>10. 0 \in Q
  <2>1. h[0].missing = << >>
    BY <1>5 DEF NothingYet
  <2>2. ASSUME NEW t \in Fragments(s)
        PROVE  Cardinality(Below(W[t], h[0].cursor[t])) <= Count(s, t, 0)
    <3>1. h[0].cursor[t] = 0
      BY <1>5 DEF NothingYet
    <3>2. W[t] \subseteq Nat
      BY <1>8 DEF Disjoint
    <3>3. Below(W[t], 0) = {}
      BY <3>2 DEF Below
    <3>4. Cardinality(Below(W[t], h[0].cursor[t])) = 0
      BY <3>1, <3>3, FS_EmptySet
    <3>5. Count(s, t, 0) = 0
      BY Counting
    <3> QED BY <3>4, <3>5
  <2> QED BY <1>9, <2>1, <2>2
<1>11. ASSUME NEW k \in 1..n, k - 1 \in Q
       PROVE  k \in Q
  <2>1. /\ k - 1 \in 0..n /\ k \in Nat \ {0} /\ k - 1 \in Nat
        /\ h[k - 1] \in Founds(s) /\ h[k] = Seek(c, h[k - 1], s[k])
    BY <1>2, <1>5
  <2>2. PICK t, cursor, p : /\ t = s[k].text /\ cursor = h[k - 1].cursor[t]
                            /\ p = Find(c, t, cursor)
    OBVIOUS
  <2>3. /\ t \in Fragments(s) /\ cursor \in Nat
        /\ \/ /\ p >= 0 /\ h[k].missing = h[k - 1].missing /\ h[k].cursor[t] = p + Len(t)
              /\ \A u \in Fragments(s) : u # t => h[k].cursor[u] = h[k - 1].cursor[u]
           \/ ~(p >= 0)
    <3>1. /\ DOMAIN s = 1..n /\ \A j \in 1..n : s[j].text \in Seq(Alphabet)
      BY <1>2, <1>4
    <3>2. /\ s[k].text \in Fragments(s) /\ h[k - 1].cursor[s[k].text] \in Nat
          /\ LET f == Find(c, s[k].text, h[k - 1].cursor[s[k].text]) IN
             \/ /\ f >= 0 /\ h[k].missing = h[k - 1].missing
                /\ h[k].cursor[s[k].text] = f + Len(s[k].text)
                /\ \A u \in Fragments(s) :
                     u # s[k].text => h[k].cursor[u] = h[k - 1].cursor[u]
             \/ ~(f >= 0) /\ h[k].missing # << >>
      BY <1>2, <1>3, <2>1, <3>1, SeekFragment
    <3> QED BY <2>2, <3>2
  <2>4. /\ h[k - 1].missing = << >>
        /\ \A u \in Fragments(s) :
             Cardinality(Below(W[u], h[k - 1].cursor[u])) <= Count(s, u, k - 1)
    BY <1>9, <1>11
  <2>5. /\ Count(s, t, k) = Count(s, t, k - 1) + 1 /\ Count(s, t, k - 1) \in Nat
        /\ \A u : u # t => Count(s, u, k) = Count(s, u, k - 1)
    BY <2>1, <2>2, CountStep
  <2>6. /\ t \in Seq(Alphabet) /\ Disjoint(c, t, Count(s, t, n), W[t])
        /\ Count(s, t, n) \in Nat
    BY <1>2, <1>4, <1>8, <2>2, <2>3, Counting
  <2>7. /\ Cardinality(Below(W[t], cursor)) \in Nat
        /\ Cardinality(Below(W[t], cursor)) <= Count(s, t, k - 1)
    <3>1. IsFiniteSet(W[t]) /\ Below(W[t], cursor) \in SUBSET W[t]
      BY <2>6 DEF Disjoint, Below
    <3>2. Cardinality(Below(W[t], cursor)) \in Nat
      BY <3>1, FS_Subset, FS_CardinalityType
    <3> QED BY <2>2, <2>3, <2>4, <3>2
  <2>8. /\ p \in Nat /\ p >= 0
        /\ \A q \in W[t] : ~(q < cursor) => p <= q
    <3>1. Count(s, t, k) <= Count(s, t, n)
      BY <1>2, CountGrows
    <3>2. Cardinality(Below(W[t], cursor)) < Count(s, t, n)
      BY <2>5, <2>6, <2>7, <3>1
    <3>3. p \in Nat /\ \A q \in W[t] : ~(q < cursor) => p <= q
      BY <1>3, <2>2, <2>3, <2>6, <3>2, PlaceAhead
    <3> QED BY <3>3
  <2>9. /\ h[k].missing = << >> /\ h[k].cursor[t] = p + Len(t)
        /\ \A u \in Fragments(s) : u # t => h[k].cursor[u] = h[k - 1].cursor[u]
    BY <2>3, <2>4, <2>8
  <2>10. Cardinality(Below(W[t], p + Len(t))) <= Count(s, t, k)
    <3>1. Cardinality(Below(W[t], p + Len(t))) <= Cardinality(Below(W[t], cursor)) + 1
      BY <2>3, <2>6, <2>8, OneStartsWithin
    <3>2. Cardinality(Below(W[t], p + Len(t))) \in Nat
      <4>1. IsFiniteSet(W[t]) /\ Below(W[t], p + Len(t)) \in SUBSET W[t]
        BY <2>6 DEF Disjoint, Below
      <4> QED BY <4>1, FS_Subset, FS_CardinalityType
    <3> QED BY <2>5, <2>7, <3>1, <3>2
  <2>11. \A u \in Fragments(s) :
           Cardinality(Below(W[u], h[k].cursor[u])) <= Count(s, u, k)
    <3> TAKE u \in Fragments(s)
    <3>1. CASE u = t
      BY <2>9, <2>10, <3>1
    <3>2. CASE u # t
      BY <2>4, <2>5, <2>9, <3>2
    <3> QED BY <3>1, <3>2
  <2> QED BY <1>9, <2>1, <2>9, <2>11
<1>12. n \in Q
  <2>1. n \in 0..n
    BY <1>2
  <2> QED BY <1>2, <1>10, <1>11, <2>1, InductionTo
<1> QED BY <1>1, <1>5, <1>9, <1>12

\* The validators refuse only texts that lack a fragment: greedy search finds as many
\* places of each text as fit beside each other, in whatever order, and in whichever
\* versions, the fragments were locked.
THEOREM OnlyMissingRefused == TextSpec => []NoFalseRefusal
<1>1. TextInv /\ FragmentInv => NoFalseRefusal
  BY NoneMissing DEF TextInv, NoFalseRefusal, PreservesLocks
<1> QED BY <1>1, TextsInductive, FragmentsInductive, PTL

-----------------------------------------------------------------------------
(* The UTF-16 units of a text *)

\* The function that FlattenSeq is defined by, for sequences over U.
Joined(f, n, q, U) ==
    /\ f \in [1..n -> Seq(U)] /\ f[1] = q[1]
    /\ \A k \in 2..n : f[k] = f[k - 1] \o q[k]

\* FlattenSeq joins the sequences one by one.
LEMMA Flattened ==
    ASSUME NEW U, NEW n \in Nat \ {0}, NEW q \in [1..n -> Seq(U)]
    PROVE  \E f : Joined(f, n, q, U) /\ FlattenSeq(q) = f[n]
<1>1. PICK Q : Q = {m \in Nat : m = 0 \/ \E f : Joined(f, m, q, U)}
  OBVIOUS
<1>2. 0 \in Q
  BY <1>1
<1>3. ASSUME NEW m \in 1..n, m - 1 \in Q
      PROVE  m \in Q
  <2>1. CASE m = 1
    <3>1. PICK f : f = [k \in 1..1 |-> q[1]]
      OBVIOUS
    <3>2. f \in [1..1 -> Seq(U)] /\ f[1] = q[1] /\ 2..1 = {}
      BY <3>1
    <3>3. Joined(f, 1, q, U)
      BY <3>2 DEF Joined
    <3> QED BY <1>1, <2>1, <3>3
  <2>2. CASE m # 1
    <3>1. PICK f : Joined(f, m - 1, q, U)
      BY <1>1, <1>3, <2>2
    <3>2. /\ f \in [1..(m - 1) -> Seq(U)] /\ f[1] = q[1]
          /\ \A k \in 2..(m - 1) : f[k] = f[k - 1] \o q[k]
      BY <3>1 DEF Joined
    <3>3. PICK last : last = f[m - 1] \o q[m]
      OBVIOUS
    <3>4. last \in Seq(U)
      <4>1. f[m - 1] \in Seq(U) /\ q[m] \in Seq(U)
        BY <2>2, <3>2
      <4> QED BY <3>3, <4>1, ConcatProperties
    <3>5. PICK g : g = [k \in 1..m |-> IF k = m THEN last ELSE f[k]]
      OBVIOUS
    <3>6. g \in [1..m -> Seq(U)] /\ g[1] = q[1]
      BY <2>2, <3>2, <3>4, <3>5
    <3>7. \A k \in 2..m : g[k] = g[k - 1] \o q[k]
      <4> TAKE k \in 2..m
      <4>1. g[k - 1] = f[k - 1]
        BY <3>5
      <4>2. CASE k = m
        <5>1. m \in 1..m /\ g[m] = last
          BY <3>5
        <5> QED BY <3>3, <4>1, <4>2, <5>1
      <4>3. CASE k # m
        <5>1. g[k] = f[k] /\ k \in 2..(m - 1)
          BY <3>5, <4>3
        <5> QED BY <3>2, <4>1, <5>1
      <4> QED BY <4>2, <4>3
    <3>8. Joined(g, m, q, U)
      BY <3>6, <3>7 DEF Joined
    <3> QED BY <1>1, <3>8
  <2> QED BY <2>1, <2>2
<1>4. PICK f : Joined(f, n, q, U)
  <2>1. n \in 0..n /\ n # 0
    OBVIOUS
  <2>2. n \in Q
    BY <1>2, <1>3, <2>1, InductionTo
  <2> QED BY <1>1, <2>1, <2>2
<1>5. f = [k \in 1..n |-> IF k = 1 THEN q[k] ELSE f[k - 1] \o q[k]]
  <2>1. /\ f \in [1..n -> Seq(U)] /\ f[1] = q[1]
        /\ \A k \in 2..n : f[k] = f[k - 1] \o q[k]
    BY <1>4 DEF Joined
  <2>2. ASSUME NEW k \in 1..n
        PROVE  f[k] = IF k = 1 THEN q[k] ELSE f[k - 1] \o q[k]
    <3>1. k # 1 => k \in 2..n
      OBVIOUS
    <3> QED BY <2>1, <3>1
  <2> QED BY <2>1, <2>2
<1>6. Len(q) = n
  OBVIOUS
<1>7. PICK g : g = CHOOSE e : e = [k \in 1..n |-> IF k = 1 THEN q[k] ELSE e[k - 1] \o q[k]]
  OBVIOUS
<1>8. g = [k \in 1..n |-> IF k = 1 THEN q[k] ELSE g[k - 1] \o q[k]]
  BY <1>5, <1>7
<1>9. FlattenSeq(q) = g[n]
  BY <1>6, <1>7 DEF FlattenSeq
<1>10. \A k \in 1..n : g[k] = IF k = 1 THEN q[k] ELSE g[k - 1] \o q[k]
  BY <1>8
<1>11. PICK R : R = {k \in Nat : k = 0 \/ g[k] \in Seq(U)}
  OBVIOUS
<1>12. ASSUME NEW k \in 1..n, k - 1 \in R
       PROVE  k \in R
  <2>1. CASE k = 1
    BY <1>10, <1>11, <2>1
  <2>2. CASE k # 1
    <3>1. g[k - 1] \in Seq(U)
      BY <1>11, <1>12, <2>2
    <3>2. g[k] = g[k - 1] \o q[k]
      BY <1>10, <2>2
    <3>3. q[k] \in Seq(U)
      OBVIOUS
    <3>4. g[k] \in Seq(U)
      BY <3>1, <3>2, <3>3, ConcatProperties
    <3> QED BY <1>11, <3>4
  <2> QED BY <2>1, <2>2
<1>13. \A k \in 1..n : g[k] \in Seq(U)
  <2>1. 0 \in R
    BY <1>11
  <2>2. \A k \in 0..n : k \in R
    BY <1>12, <2>1, InductionTo
  <2> QED BY <1>11, <2>2
<1>14. Joined(g, n, q, U)
  <2>1. g \in [1..n -> Seq(U)]
    BY <1>8, <1>13
  <2>2. g[1] = q[1]
    BY <1>10
  <2>3. ASSUME NEW k \in 2..n PROVE g[k] = g[k - 1] \o q[k]
    <3>1. k \in 1..n /\ k # 1
      OBVIOUS
    <3> QED BY <1>10, <3>1
  <2> QED BY <2>1, <2>2, <2>3 DEF Joined
<1> QED BY <1>9, <1>14

\* With one more sequence.
LEMMA FlattenOneMore ==
    ASSUME NEW U, NEW n \in Nat, NEW q \in [1..(n + 1) -> Seq(U)],
           NEW r, r = [k \in 1..n |-> q[k]]
    PROVE  FlattenSeq(r) \in Seq(U) /\ FlattenSeq(q) = FlattenSeq(r) \o q[n + 1]
<1>1. PICK f : Joined(f, n + 1, q, U) /\ FlattenSeq(q) = f[n + 1]
  <2>1. n + 1 \in Nat \ {0}
    OBVIOUS
  <2> QED BY <2>1, Flattened
<1>2. /\ f \in [1..(n + 1) -> Seq(U)] /\ f[1] = q[1]
      /\ \A k \in 2..(n + 1) : f[k] = f[k - 1] \o q[k]
  BY <1>1 DEF Joined
<1>3. CASE n = 0
  <2>1. r = << >>
    BY <1>3
  <2>2. FlattenSeq(r) = << >>
    BY <2>1 DEF FlattenSeq
  <2>3. q[1] \in Seq(U)
    BY <1>3
  <2>4. << >> \o q[1] = q[1]
    BY <2>3, ConcatEmptySeq
  <2>5. FlattenSeq(q) = q[1] /\ q[n + 1] = q[1]
    BY <1>1, <1>2, <1>3
  <2> QED BY <2>2, <2>4, <2>5, EmptySeq
<1>4. CASE n # 0
  <2>1. r \in [1..n -> Seq(U)] /\ n \in Nat \ {0}
    BY <1>4
  <2>2. PICK g : Joined(g, n, r, U) /\ FlattenSeq(r) = g[n]
    BY <2>1, Flattened
  <2>3. /\ g \in [1..n -> Seq(U)] /\ g[1] = r[1]
        /\ \A k \in 2..n : g[k] = g[k - 1] \o r[k]
    BY <2>2 DEF Joined
  <2>4. PICK Q : Q = {k \in Nat : k = 0 \/ f[k] = g[k]}
    OBVIOUS
  <2>5. ASSUME NEW k \in 1..n, k - 1 \in Q PROVE k \in Q
    <3>1. r[k] = q[k] /\ k \in Nat
      OBVIOUS
    <3>2. CASE k = 1
      BY <1>2, <2>3, <2>4, <3>1, <3>2
    <3>3. CASE k # 1
      <4>1. k \in 2..n /\ k \in 2..(n + 1) /\ k - 1 # 0
        BY <3>3
      <4>2. f[k - 1] = g[k - 1]
        BY <2>4, <2>5, <4>1
      <4>3. f[k] = f[k - 1] \o q[k] /\ g[k] = g[k - 1] \o r[k]
        BY <1>2, <2>3, <4>1
      <4> QED BY <2>4, <3>1, <4>2, <4>3
    <3> QED BY <3>2, <3>3
  <2>6. f[n] = g[n]
    <3>1. 0 \in Q /\ n \in 0..n
      BY <2>4
    <3>2. n \in Q
      BY <2>5, <3>1, InductionTo
    <3> QED BY <1>4, <2>4, <3>2
  <2>7. n + 1 \in 2..(n + 1) /\ (n + 1) - 1 = n /\ n \in 1..n
    BY <1>4
  <2>8. f[n + 1] = f[n] \o q[n + 1]
    BY <1>2, <2>7
  <2> QED BY <1>1, <2>2, <2>3, <2>6, <2>7, <2>8
<1> QED BY <1>3, <1>4

Unit == Alphabet \X {"high", "low", "unit"}
CharUnits(x) == IF x \in Wide THEN << <<x, "high">>, <<x, "low">> >> ELSE << <<x, "unit">> >>

\* A text with one more character.
LEMMA UnitsOneMore ==
    ASSUME NEW t \in Seq(Alphabet), NEW x \in Alphabet
    PROVE  /\ Units(t) \in Seq(Unit) /\ CharUnits(x) \in Seq(Unit)
           /\ Units(t \o <<x>>) = Units(t) \o CharUnits(x)
<1>1. PICK n \in Nat : n = Len(t)
  BY LenProperties
<1>2. DOMAIN t = 1..n /\ \A k \in 1..n : t[k] \in Alphabet
  BY <1>1, LenProperties, ElementOfSeq
<1>3. PICK s : s = t \o <<x>>
  OBVIOUS
<1>4. /\ DOMAIN s = 1..(n + 1) /\ \A k \in 1..n : s[k] = t[k]
      /\ s[n + 1] = x
  BY <1>1, <1>3
<1>5. \A y \in Alphabet : CharUnits(y) \in Seq(Unit)
  <2> TAKE y \in Alphabet
  <2>1. <<y, "high">> \in Unit /\ <<y, "low">> \in Unit /\ <<y, "unit">> \in Unit
    BY DEF Unit
  <2> QED BY <2>1 DEF CharUnits
<1>6. PICK q, r : /\ q = [k \in 1..(n + 1) |-> CharUnits(s[k])]
                  /\ r = [k \in 1..n |-> CharUnits(t[k])]
  OBVIOUS
<1>7. Units(s) = FlattenSeq(q)
  BY <1>4, <1>6 DEF Units, CharUnits
<1>8. Units(t) = FlattenSeq(r)
  BY <1>2, <1>6 DEF Units, CharUnits
<1>9. q \in [1..(n + 1) -> Seq(Unit)]
  <2>1. \A k \in 1..(n + 1) : s[k] \in Alphabet
    BY <1>2, <1>4
  <2> QED BY <1>5, <1>6, <2>1
<1>10. r = [k \in 1..n |-> q[k]] /\ q[n + 1] = CharUnits(x)
  BY <1>4, <1>6
<1>11. FlattenSeq(r) \in Seq(Unit) /\ FlattenSeq(q) = FlattenSeq(r) \o q[n + 1]
  BY <1>9, <1>10, FlattenOneMore
<1> QED BY <1>3, <1>5, <1>7, <1>8, <1>10, <1>11

LEMMA UnitsTyped ==
    ASSUME NEW t \in Seq(Alphabet)
    PROVE  Units(t) \in Seq(Unit) /\ Len(Units(t)) \in Nat
<1>1. Blank \in Alphabet
  BY DEF TextAssumption
<1>2. Units(t) \in Seq(Unit)
  BY <1>1, UnitsOneMore
<1> QED BY <1>2, LenProperties

\* The units up to n are those up to m and those of the slice between.
LEMMA UnitsJoin ==
    ASSUME NEW t \in Text, NEW m \in Nat, NEW n \in Nat, m <= n, n <= Len(t)
    PROVE  Units(Slice(t, 0, n)) = Units(Slice(t, 0, m)) \o Units(Slice(t, m, n))
<1>1. t \in Seq(Alphabet) /\ Len(t) \in Nat
  BY TextIsSequence, LenProperties
<1>2. PICK d \in Nat : d = n - m
  OBVIOUS
<1>3. ASSUME NEW i \in Nat, NEW j \in Nat, i <= j, j <= Len(t)
      PROVE  Slice(t, i, j) \in Seq(Alphabet) /\ Units(Slice(t, i, j)) \in Seq(Unit)
  <2>1. Slice(t, i, j) \in Seq(Alphabet)
    BY <1>3, SliceOfText, TextIsSequence
  <2> QED BY <2>1, UnitsTyped
<1>4. ASSUME NEW i \in Nat, NEW j \in Nat, i < j, j <= Len(t)
      PROVE  /\ t[j] \in Alphabet
             /\ Units(Slice(t, i, j)) = Units(Slice(t, i, j - 1)) \o CharUnits(t[j])
  <2>1. i + 1 \in 1..Len(t) /\ j \in (i + 1)..Len(t) /\ j \in 1..Len(t) /\ j - 1 \in Nat
    BY <1>1, <1>4
  <2>2. SubSeq(t, i + 1, j) = SubSeq(t, i + 1, j - 1) \o <<t[j]>>
    BY <1>1, <2>1, SubSeqRecursiveSecond
  <2>3. t[j] \in Alphabet
    BY <1>1, <2>1, ElementOfSeq
  <2>4. i <= j - 1 /\ j - 1 <= Len(t)
    BY <1>1, <1>4
  <2>5. SubSeq(t, i + 1, j - 1) \in Seq(Alphabet)
    BY <1>3, <2>1, <2>4 DEF Slice
  <2> QED BY <2>2, <2>3, <2>5, UnitsOneMore DEF Slice
<1>5. PICK Q : Q = {k \in Nat : Units(Slice(t, 0, m + k)) =
                                  Units(Slice(t, 0, m)) \o Units(Slice(t, m, m + k))}
  OBVIOUS
<1>6. 0 \in Q
  <2>1. m + 0 = m /\ m < m + 1 /\ m + 0 < m + 1
    OBVIOUS
  <2>2. Slice(t, m, m) = << >>
    BY SubSeqEmpty DEF Slice
  <2>3. Units(<< >>) = << >>
    BY DEF Units, FlattenSeq
  <2>4. Units(Slice(t, 0, m)) \o << >> = Units(Slice(t, 0, m))
    <3>1. Units(Slice(t, 0, m)) \in Seq(Unit)
      BY <1>1, <1>3
    <3> QED BY <3>1, ConcatEmptySeq
  <2> QED BY <1>5, <2>1, <2>2, <2>3, <2>4
<1>7. ASSUME NEW k \in 1..d, k - 1 \in Q
      PROVE  k \in Q
  <2>1. PICK j \in Nat : j = m + k
    OBVIOUS
  <2>2. /\ m < j /\ 0 < j /\ j <= Len(t) /\ j - 1 \in Nat /\ m <= j - 1 /\ j - 1 <= Len(t)
        /\ m + (k - 1) = j - 1 /\ m <= Len(t) /\ 0 \in Nat /\ 0 <= m
    BY <1>1, <1>2, <2>1
  <2>3. PICK a, b, c : /\ a = Units(Slice(t, 0, m)) /\ b = Units(Slice(t, m, j - 1))
                       /\ c = CharUnits(t[j])
    OBVIOUS
  <2>4. a \in Seq(Unit) /\ b \in Seq(Unit)
    BY <1>3, <2>2, <2>3
  <2>5. c \in Seq(Unit)
    <3>1. t[j] \in Alphabet
      BY <1>4, <2>2
    <3>2. << >> \in Seq(Alphabet)
      BY EmptySeq
    <3> QED BY <2>3, <3>1, <3>2, UnitsOneMore
  <2>6. Units(Slice(t, 0, j - 1)) = a \o b
    BY <1>5, <1>7, <2>2, <2>3
  <2>7. Units(Slice(t, 0, j)) = (a \o b) \o c
    <3>1. Units(Slice(t, 0, j)) = Units(Slice(t, 0, j - 1)) \o CharUnits(t[j])
      BY <1>4, <2>2
    <3> QED BY <2>3, <2>6, <3>1
  <2>8. Units(Slice(t, m, j)) = b \o c
    <3>1. Units(Slice(t, m, j)) = Units(Slice(t, m, j - 1)) \o CharUnits(t[j])
      BY <1>4, <2>2
    <3> QED BY <2>3, <3>1
  <2>9. (a \o b) \o c = a \o (b \o c)
    BY <2>4, <2>5, ConcatAssociative, SMTT(30)
  <2>10. Units(Slice(t, 0, j)) = a \o Units(Slice(t, m, j))
    BY <2>7, <2>8, <2>9
  <2> QED BY <1>5, <2>1, <2>3, <2>10
<1>8. d \in Q
  <2>1. d \in 0..d
    OBVIOUS
  <2> QED BY <1>6, <1>7, <2>1, InductionTo
<1>9. m + d = n
  BY <1>2
<1> QED BY <1>5, <1>8, <1>9

\* A slice, in units: as long as its offsets are apart, and what the whole text has
\* between them.
LEMMA UnitsOfSlice ==
    ASSUME NEW t \in Text, NEW m \in Nat, NEW n \in Nat, m <= n, n <= Len(t)
    PROVE  /\ Utf16Offset(t, m) \in Nat /\ Utf16Offset(t, n) \in Nat
           /\ Utf16Offset(t, m) <= Utf16Offset(t, n)
           /\ Utf16Offset(t, m) + Len(Units(Slice(t, m, n))) = Utf16Offset(t, n)
           /\ Slice(Units(t), Utf16Offset(t, m), Utf16Offset(t, n)) = Units(Slice(t, m, n))
<1>1. t \in Seq(Alphabet) /\ Len(t) \in Nat
  BY TextIsSequence, LenProperties
<1>2. PICK a, b, c : /\ a = Units(Slice(t, 0, m)) /\ b = Units(Slice(t, m, n))
                     /\ c = Units(Slice(t, n, Len(t)))
  OBVIOUS
<1>3. /\ a \in Seq(Unit) /\ Len(a) \in Nat /\ b \in Seq(Unit) /\ Len(b) \in Nat
      /\ c \in Seq(Unit) /\ Len(c) \in Nat
  <2>1. /\ Slice(t, 0, m) \in Seq(Alphabet) /\ Slice(t, m, n) \in Seq(Alphabet)
        /\ Slice(t, n, Len(t)) \in Seq(Alphabet)
    <3>1. 0 \in Nat /\ 0 <= m /\ m <= Len(t) /\ Len(t) <= Len(t)
      BY <1>1
    <3> QED BY <1>1, <3>1, SliceOfText, TextIsSequence
  <2> QED BY <1>2, <2>1, UnitsTyped
<1>4. Units(Slice(t, 0, n)) = a \o b
  BY <1>2, UnitsJoin
<1>5. Units(t) = (a \o b) \o c
  <2>1. Slice(t, 0, Len(t)) = t
    BY <1>1, SubSeqFull DEF Slice
  <2>2. Len(t) <= Len(t)
    BY <1>1
  <2>3. Units(Slice(t, 0, Len(t))) = Units(Slice(t, 0, n)) \o c
    BY <1>1, <1>2, <2>2, UnitsJoin
  <2> QED BY <1>4, <2>1, <2>3
<1>6. a \o b \in Seq(Unit) /\ Len(a \o b) = Len(a) + Len(b)
  BY <1>3, ConcatProperties
<1>7. Utf16Offset(t, m) = Len(a) /\ Utf16Offset(t, n) = Len(a) + Len(b)
  BY <1>2, <1>4, <1>6 DEF Utf16Offset
<1>8. Slice((a \o b) \o c, Len(a), Len(a) + Len(b)) = b
  <2>1. PICK ab, w : ab = a \o b /\ w = ab \o c
    OBVIOUS
  <2>2. ab \in Seq(Unit) /\ Len(ab) = Len(a) + Len(b)
    BY <1>6, <2>1
  <2>3. \A i \in 1..Len(b) : ab[Len(a) + i] = b[i]
    <3>1. \A i \in 1..(Len(a) + Len(b)) : ab[i] = IF i <= Len(a) THEN a[i] ELSE b[i - Len(a)]
      BY <1>3, <2>1, ConcatProperties
    <3> TAKE i \in 1..Len(b)
    <3>2. Len(a) + i \in 1..(Len(a) + Len(b)) /\ ~(Len(a) + i <= Len(a))
          /\ (Len(a) + i) - Len(a) = i
      BY <1>3
    <3> QED BY <3>1, <3>2
  <2>4. \A i \in 1..Len(b) : w[Len(a) + i] = b[i]
    <3>1. \A i \in 1..(Len(ab) + Len(c)) : w[i] = IF i <= Len(ab) THEN ab[i] ELSE c[i - Len(ab)]
      BY <1>3, <2>1, <2>2, ConcatProperties
    <3> TAKE i \in 1..Len(b)
    <3>2. Len(a) + i \in 1..(Len(ab) + Len(c)) /\ Len(a) + i <= Len(ab)
      BY <1>3, <2>2
    <3> QED BY <2>3, <3>1, <3>2
  <2>5. PICK s : s = SubSeq(w, Len(a) + 1, Len(a) + Len(b))
    OBVIOUS
  <2>6. \A i \in (Len(a) + 1)..(Len(a) + Len(b)) : w[i] \in Unit
    <3> TAKE i \in (Len(a) + 1)..(Len(a) + Len(b))
    <3>1. i - Len(a) \in 1..Len(b) /\ Len(a) + (i - Len(a)) = i
      BY <1>3
    <3>2. b[i - Len(a)] \in Unit
      BY <1>3, <3>1, ElementOfSeq
    <3> QED BY <2>4, <3>1, <3>2
  <2>7. PICK lo \in Int, hi \in Int : lo = Len(a) + 1 /\ hi = Len(a) + Len(b)
    BY <1>3
  <2>8. /\ s \in Seq(Unit) /\ Len(s) = (IF lo <= hi THEN hi - lo + 1 ELSE 0)
        /\ \A i \in 1..(hi - lo + 1) : s[i] = w[lo + i - 1]
    BY <2>5, <2>6, <2>7, SubSeqProperties
  <2>9. Len(s) = Len(b) /\ \A i \in 1..Len(b) : s[i] = b[i]
    <3>1. Len(s) = Len(b) /\ hi - lo + 1 = Len(b)
      BY <1>3, <2>7, <2>8
    <3>2. ASSUME NEW i \in 1..Len(b) PROVE s[i] = b[i]
      <4>1. lo + i - 1 = Len(a) + i
        BY <1>3, <2>7
      <4> QED BY <2>4, <2>8, <3>1, <4>1
    <3> QED BY <3>1, <3>2
  <2>10. s = b
    BY <1>3, <2>8, <2>9, SeqEqual
  <2> QED BY <2>1, <2>5, <2>10 DEF Slice
<1> QED BY <1>2, <1>3, <1>5, <1>7, <1>8

-----------------------------------------------------------------------------
(* The fragments in the editor *)

\* What locateLocks returns; no two ranges have a unit in common.
Shown == [lock : locks, start : Nat, end : Nat]
Clear(ranges) == \A r, s \in ranges : r # s => r.end <= s.start \/ s.end <= r.start

\* A range of size units from p on is free.
FreeAt(ranges, p, size) == \A r \in ranges : ~(p < r.end /\ p + size > r.start)

\* Where a fragment of a version was locked, in units.
OwnRange(l) ==
    [lock |-> l, start |-> Utf16Offset(versions[l.version].text, l.start),
     end |-> Utf16Offset(versions[l.version].text, l.end)]

\* A fragment's own range has the units of its text, and the other fragments of its
\* version leave it free.
LEMMA OwnRanges ==
    ASSUME TextTypeOK, FragmentInv, NEW l \in locks
    PROVE  /\ OwnRange(l) \in Shown
           /\ OwnRange(l).start + Len(Units(l.text)) = OwnRange(l).end
           /\ Slice(Units(versions[l.version].text), OwnRange(l).start, OwnRange(l).end) =
                Units(l.text)
           /\ \A k \in locks : k # l /\ k.version = l.version =>
                OwnRange(k).end <= OwnRange(l).start \/ OwnRange(l).end <= OwnRange(k).start
<1>1. PICK text \in Text : text = versions[l.version].text
  BY FragmentFields DEF FragmentInv
<1>2. ASSUME NEW k \in locks, k.version = l.version
      PROVE  /\ k.start \in Nat /\ k.end \in Nat /\ k.start <= k.end /\ k.end <= Len(text)
             /\ k.text = Slice(text, k.start, k.end)
             /\ OwnRange(k) = [lock |-> k, start |-> Utf16Offset(text, k.start),
                               end |-> Utf16Offset(text, k.end)]
  <2>1. k.start \in Nat /\ k.end \in Nat
    BY FragmentFields
  <2>2. /\ k.start < k.end /\ k.end <= Len(text)
        /\ k.text = Slice(text, k.start, k.end)
    BY <1>1, <1>2 DEF FragmentInv, Cut
  <2>3. k.start <= k.end
    BY <2>1, <2>2
  <2> QED BY <1>1, <1>2, <2>1, <2>2, <2>3 DEF OwnRange
<1>3. /\ l.start \in Nat /\ l.end \in Nat /\ l.start <= l.end /\ l.end <= Len(text)
      /\ l.text = Slice(text, l.start, l.end)
      /\ OwnRange(l) = [lock |-> l, start |-> Utf16Offset(text, l.start),
                        end |-> Utf16Offset(text, l.end)]
  BY <1>2
<1>4. PICK from, to : from = Utf16Offset(text, l.start) /\ to = Utf16Offset(text, l.end)
  OBVIOUS
<1>5. /\ from \in Nat /\ to \in Nat /\ from + Len(Units(l.text)) = to
      /\ Slice(Units(text), from, to) = Units(l.text)
  <2>1. /\ Utf16Offset(text, l.start) \in Nat /\ Utf16Offset(text, l.end) \in Nat
        /\ Utf16Offset(text, l.start) + Len(Units(Slice(text, l.start, l.end))) =
             Utf16Offset(text, l.end)
        /\ Slice(Units(text), Utf16Offset(text, l.start), Utf16Offset(text, l.end)) =
             Units(Slice(text, l.start, l.end))
    BY <1>3, UnitsOfSlice
  <2> QED BY <1>3, <1>4, <2>1
<1>6. OwnRange(l) = [lock |-> l, start |-> from, end |-> to]
  BY <1>3, <1>4
<1>7. ASSUME NEW k \in locks, k # l, k.version = l.version
      PROVE  OwnRange(k).end <= OwnRange(l).start \/ OwnRange(l).end <= OwnRange(k).start
  <2>1. k.end <= l.start \/ l.end <= k.start
    BY <1>7 DEF FragmentInv, Apart
  <2>2. /\ k.start \in Nat /\ k.end \in Nat /\ k.start <= k.end /\ k.end <= Len(text)
        /\ OwnRange(k) = [lock |-> k, start |-> Utf16Offset(text, k.start),
                          end |-> Utf16Offset(text, k.end)]
    BY <1>2, <1>7
  <2>3. Len(text) \in Nat
    BY TextIsSequence, LenProperties
  <2>4. CASE k.end <= l.start
    <3>1. l.start <= Len(text)
      BY <1>3, <2>3
    <3>2. Utf16Offset(text, k.end) <= Utf16Offset(text, l.start)
      BY <1>3, <2>2, <2>4, <3>1, UnitsOfSlice
    <3> QED BY <1>3, <2>2, <3>2
  <2>5. CASE l.end <= k.start
    <3>1. k.start <= Len(text)
      BY <2>2, <2>3
    <3>2. Utf16Offset(text, l.end) <= Utf16Offset(text, k.start)
      BY <1>3, <2>2, <2>5, <3>1, UnitsOfSlice
    <3> QED BY <1>3, <2>2, <3>2
  <2> QED BY <2>1, <2>4, <2>5
<1> QED BY <1>1, <1>5, <1>6, <1>7 DEF Shown

\* What one fragment adds.
LEMMA PlaceOne ==
    ASSUME TextTypeOK, FragmentInv, NEW v \in DOMAIN versions, NEW l \in locks,
           NEW ranges \in SUBSET Shown, NEW next, next = PlaceLock(v, ranges, l)
    PROVE  /\ next \in SUBSET Shown /\ ranges \subseteq next
           /\ Clear(ranges) => Clear(next)
           /\ l.version = v /\ FreeAt(ranges, OwnRange(l).start, Len(Units(l.text))) =>
                next = ranges \cup {OwnRange(l)}
<1>1. PICK units, pattern, size :
        /\ units = Units(versions[v].text) /\ pattern = Units(l.text) /\ size = Len(pattern)
  OBVIOUS
<1>2. size \in Nat /\ Len(units) \in Nat
  <2>1. versions[v].text \in Seq(Alphabet) /\ l.text \in Seq(Alphabet)
    <3>1. versions[v] \in Version
      BY ElementOfSeq, LenProperties DEF TextTypeOK
    <3> QED BY <3>1, FragmentFields, TextIsSequence DEF Version
  <2>2. units \in Seq(Unit) /\ pattern \in Seq(Unit)
    BY <1>1, <2>1, UnitsTyped
  <2> QED BY <1>1, <2>2, LenProperties
<1>3. PICK own : own = IF /\ l.version = v
                          /\ Slice(units, Utf16Offset(versions[v].text, l.start),
                                   Utf16Offset(versions[v].text, l.end)) = pattern
                       THEN Utf16Offset(versions[v].text, l.start) ELSE -1
  OBVIOUS
<1>4. PICK free : free = {p \in Places(units, pattern, 0) : FreeAt(ranges, p, size)}
  OBVIOUS
<1>5. PICK start : start = IF own >= 0 /\ FreeAt(ranges, own, size) THEN own
                           ELSE IF free = {} THEN -1 ELSE Min(free)
  OBVIOUS
<1>6. next = IF start < 0 THEN ranges
             ELSE ranges \cup {[lock |-> l, start |-> start, end |-> start + size]}
  BY <1>1, <1>3, <1>4, <1>5 DEF PlaceLock, FreeAt
<1>7. /\ l.version = v => own = OwnRange(l).start /\ own \in Nat
      /\ l.version # v => own = -1
  <2>1. OwnRange(l).start \in Nat
    BY OwnRanges DEF Shown
  <2>2. /\ OwnRange(l).start = Utf16Offset(versions[l.version].text, l.start)
        /\ OwnRange(l).end = Utf16Offset(versions[l.version].text, l.end)
    BY DEF OwnRange
  <2>3. l.version = v =>
          Slice(units, Utf16Offset(versions[v].text, l.start),
                Utf16Offset(versions[v].text, l.end)) = pattern
    BY <1>1, <2>2, OwnRanges
  <2> QED BY <1>3, <2>1, <2>2, <2>3
<1>8. free # {} => Min(free) \in free /\ Min(free) \in Nat
  <2>1. free \subseteq 0..(Len(units) - size) /\ 0 \in Int /\ Len(units) - size \in Int
    BY <1>1, <1>2, <1>4 DEF Places
  <2>2. free # {} => Min(free) \in free
    BY <2>1, Extremes
  <2>3. \A p \in free : p \in Nat
    BY <2>1
  <2> QED BY <2>2, <2>3
<1>9. (start = -1) \/ (start \in Nat /\ FreeAt(ranges, start, size))
  <2>1. \A p \in free : FreeAt(ranges, p, size)
    BY <1>4
  <2>2. own >= 0 => own \in Nat
    BY <1>7
  <2> QED BY <1>5, <1>8, <2>1, <2>2
<1>10. CASE start = -1
  <2>1. next = ranges
    BY <1>6, <1>10
  <2>2. ~(l.version = v /\ FreeAt(ranges, own, size))
    BY <1>5, <1>7, <1>10
  <2> QED BY <1>1, <1>7, <2>1, <2>2
<1>11. CASE start \in Nat /\ FreeAt(ranges, start, size)
  <2>1. PICK new : new = [lock |-> l, start |-> start, end |-> start + size]
    OBVIOUS
  <2>2. next = ranges \cup {new}
    BY <1>6, <1>11, <2>1
  <2>3. new \in Shown /\ new.start = start /\ new.end = start + size
    BY <1>2, <1>11, <2>1 DEF Shown
  <2>4. \A r \in ranges : r.end <= new.start \/ new.end <= r.start
    <3> TAKE r \in ranges
    <3>1. r.start \in Nat /\ r.end \in Nat
      BY DEF Shown
    <3>2. ~(start < r.end /\ start + size > r.start)
      BY <1>11 DEF FreeAt
    <3> QED BY <1>2, <1>11, <2>3, <3>1, <3>2
  <2>5. Clear(ranges) => Clear(next)
    BY <2>2, <2>4 DEF Clear
  <2>6. ASSUME l.version = v, FreeAt(ranges, OwnRange(l).start, Len(Units(l.text)))
        PROVE  new = OwnRange(l)
    <3>1. start = OwnRange(l).start
      BY <1>1, <1>5, <1>7, <2>6
    <3>2. start + size = OwnRange(l).end
      BY <1>1, <3>1, OwnRanges
    <3>3. OwnRange(l) = [lock |-> l, start |-> OwnRange(l).start, end |-> OwnRange(l).end]
      BY DEF OwnRange
    <3> QED BY <2>1, <3>1, <3>2, <3>3
  <2> QED BY <2>2, <2>3, <2>5, <2>6
<1> QED BY <1>9, <1>10, <1>11

\* The first m of the n fragments in s are those of version v, each once.
OwnFirst(s, v, m, n) ==
    /\ s \in [1..n -> locks]
    /\ \A k \in 1..m : s[k].version = v
    /\ \A j, k \in 1..m : j # k => s[j] # s[k]
    /\ \A l \in locks : l.version = v => \E k \in 1..m : s[k] = l

\* The order in which locateLocks goes through the fragments.
LEMMA ShownOrder ==
    ASSUME TextTypeOK, FragmentInv, NEW v \in DOMAIN versions
    PROVE  \E n \in Nat, m \in Nat : m <= n /\ OwnFirst(ShownFirst(v), v, m, n)
<1>1. PICK A, B : A = {l \in locks : l.version = v} /\ B = {l \in locks : l.version # v}
  OBVIOUS
<1>2. A \in SUBSET locks /\ B \in SUBSET locks
  BY <1>1
<1>3. PICK a, b, m, d : /\ a = ByOrder(A) /\ b = ByOrder(B)
                        /\ m = Cardinality(A) /\ d = Cardinality(B)
  OBVIOUS
<1>4. /\ m \in Nat /\ a \in [1..m -> A]
      /\ \A j, k \in 1..m : j # k => a[j] # a[k]
      /\ \A l \in A : \E k \in 1..m : a[k] = l
  BY <1>2, <1>3, FragmentList
<1>5. d \in Nat /\ b \in [1..d -> B]
  BY <1>2, <1>3, FragmentList
<1>6. a \in Seq(locks) /\ b \in Seq(locks) /\ Len(a) = m /\ Len(b) = d
  <2>1. a \in [1..m -> locks] /\ b \in [1..d -> locks]
    BY <1>2, <1>4, <1>5
  <2> QED BY <1>4, <1>5, <2>1
<1>7. PICK s : s = a \o b
  OBVIOUS
<1>8. /\ s \in Seq(locks) /\ Len(s) = m + d
      /\ \A k \in 1..(m + d) : s[k] = IF k <= m THEN a[k] ELSE b[k - m]
  BY <1>6, <1>7, ConcatProperties
<1>9. PICK n \in Nat : n = m + d
  BY <1>4, <1>5
<1>10. m <= n /\ s \in [1..n -> locks]
  BY <1>4, <1>5, <1>8, <1>9
<1>11. \A k \in 1..m : s[k] = a[k]
  BY <1>4, <1>5, <1>8
<1>12. s = ShownFirst(v)
  BY <1>1, <1>3, <1>7 DEF ShownFirst
<1>13. \A k \in 1..m : s[k].version = v
  BY <1>1, <1>4, <1>11
<1>14. \A j, k \in 1..m : j # k => s[j] # s[k]
  BY <1>4, <1>11
<1>15. \A l \in locks : l.version = v => \E k \in 1..m : s[k] = l
  BY <1>1, <1>4, <1>11
<1>16. OwnFirst(s, v, m, n)
  BY <1>10, <1>13, <1>14, <1>15 DEF OwnFirst
<1> QED BY <1>4, <1>10, <1>12, <1>16

\* The ranges before and after each of the n fragments in s.
Placed(h, v, s, n) ==
    /\ h[0] = {}
    /\ \A k \in 0..n : h[k] \in SUBSET Shown
    /\ \A k \in 1..n : h[k] = PlaceLock(v, h[k - 1], s[k])

\* locateLocks places the fragments one by one.
LEMMA Placing ==
    ASSUME TextTypeOK, FragmentInv, NEW v \in DOMAIN versions,
           NEW s, s = ShownFirst(v), NEW n \in Nat, s \in [1..n -> locks]
    PROVE  \E h : Placed(h, v, s, n) /\ LocateLocks(v) = h[n]
<1>1. PICK step : step = [x \in (SUBSET Shown) \X (1..n) |-> PlaceLock(v, x[1], s[x[2]])]
  OBVIOUS
<1>2. ASSUME NEW ranges \in SUBSET Shown, NEW k \in 1..n
      PROVE  /\ PlaceLock(v, ranges, s[k]) \in SUBSET Shown
             /\ step[<<ranges, k>>] = PlaceLock(v, ranges, s[k])
  <2>1. s[k] \in locks
    OBVIOUS
  <2>2. PlaceLock(v, ranges, s[k]) \in SUBSET Shown
    BY <2>1, PlaceOne
  <2> QED BY <1>1, <2>2
<1>3. step \in [(SUBSET Shown) \X (1..n) -> SUBSET Shown]
  BY <1>1, <1>2
<1>4. {} \in SUBSET Shown
  OBVIOUS
<1>5. PICK f : FoldOf(f, n, SUBSET Shown, {}, step)
  BY <1>3, <1>4, Folding
<1>6. f = [i \in SUBSET (1..n) |-> IF i = {} THEN {}
                                   ELSE PlaceLock(v, f[i \ {Max(i)}], s[Max(i)])]
  <2>1. ASSUME NEW i \in SUBSET (1..n), i # {}
        PROVE  f[i] = PlaceLock(v, f[i \ {Max(i)}], s[Max(i)])
    <3>1. Max(i) \in 1..n
      BY <2>1, LastIndex
    <3>2. f[i \ {Max(i)}] \in SUBSET Shown
      BY <1>5 DEF FoldOf
    <3>3. f[i] = step[<<f[i \ {Max(i)}], Max(i)>>]
      BY <1>5, <2>1 DEF FoldOf
    <3> QED BY <1>2, <3>1, <3>2, <3>3
  <2> QED BY <1>5, <2>1 DEF FoldOf
<1>7. PICK g : g = CHOOSE e : e = [i \in SUBSET (1..n) |-> IF i = {} THEN {}
                                     ELSE PlaceLock(v, e[i \ {Max(i)}], s[Max(i)])]
  OBVIOUS
<1>8. LocateLocks(v) = g[1..n]
  BY <1>7 DEF LocateLocks, FoldLeft, MapThenFoldSet
<1>9. g = [i \in SUBSET (1..n) |-> IF i = {} THEN {}
                                   ELSE PlaceLock(v, g[i \ {Max(i)}], s[Max(i)])]
  BY <1>6, <1>7
<1>10. \A i \in SUBSET (1..n) :
         g[i] = IF i = {} THEN {} ELSE PlaceLock(v, g[i \ {Max(i)}], s[Max(i)])
  BY <1>9
<1>11. PICK h : h = [k \in 0..n |-> g[1..k]]
  OBVIOUS
<1>12. h[0] = {}
  <2>1. {} \in SUBSET (1..n) /\ 1..0 = {} /\ 0 \in 0..n
    OBVIOUS
  <2> QED BY <1>10, <1>11, <2>1
<1>13. ASSUME NEW k \in 1..n
       PROVE  h[k] = PlaceLock(v, h[k - 1], s[k])
  <2>1. k \in 0..n /\ k - 1 \in 0..n
    OBVIOUS
  <2>2. h[k] = g[1..k] /\ h[k - 1] = g[1..(k - 1)]
    BY <1>11, <2>1, Zenon
  <2>3. g[1..k] = PlaceLock(v, g[1..(k - 1)], s[k])
    BY <1>10, FirstIndexes
  <2> QED BY <2>2, <2>3
<1>14. \A k \in 0..n : h[k] \in SUBSET Shown
  <2>1. PICK Q : Q = {k \in Nat : h[k] \in SUBSET Shown}
    OBVIOUS
  <2>2. 0 \in Q
    BY <1>4, <1>12, <2>1
  <2>3. ASSUME NEW k \in 1..n, k - 1 \in Q PROVE k \in Q
    <3>1. h[k - 1] \in SUBSET Shown /\ h[k] = PlaceLock(v, h[k - 1], s[k])
      BY <1>13, <2>1, <2>3
    <3>2. PlaceLock(v, h[k - 1], s[k]) \in SUBSET Shown
      BY <1>2, <3>1
    <3>3. k \in Nat /\ h[k] \in SUBSET Shown
      BY <3>1, <3>2
    <3> QED BY <2>1, <3>3
  <2>4. \A k \in 0..n : k \in Q
    BY <2>2, <2>3, InductionTo
  <2> QED BY <2>1, <2>4
<1>15. LocateLocks(v) = h[n]
  <2>1. n \in 0..n
    OBVIOUS
  <2>2. h[n] = g[1..n]
    BY <1>11, <2>1, Zenon
  <2> QED BY <1>8, <2>2
<1>16. Placed(h, v, s, n)
  BY <1>12, <1>13, <1>14 DEF Placed
<1> QED BY <1>15, <1>16

\* Whatever fragments there are, locateLocks shows those of the version where they
\* were locked, and none over another.
LEMMA PlacesKept ==
    ASSUME TextTypeOK, FragmentInv, NEW v \in DOMAIN versions
    PROVE  /\ Clear(LocateLocks(v))
           /\ \A l \in locks : l.version = v => OwnRange(l) \in LocateLocks(v)
<1>1. PICK s : s = ShownFirst(v)
  OBVIOUS
<1>2. PICK n \in Nat, m \in Nat : m <= n /\ OwnFirst(s, v, m, n)
  BY <1>1, ShownOrder
<1>3. /\ s \in [1..n -> locks]
      /\ \A k \in 1..m : s[k].version = v
      /\ \A j, k \in 1..m : j # k => s[j] # s[k]
      /\ \A l \in locks : l.version = v => \E k \in 1..m : s[k] = l
  BY <1>2 DEF OwnFirst
<1>4. PICK h : /\ h[0] = {}
               /\ \A k \in 0..n : h[k] \in SUBSET Shown
               /\ \A k \in 1..n : h[k] = PlaceLock(v, h[k - 1], s[k])
               /\ LocateLocks(v) = h[n]
  <2>1. s \in [1..n -> locks]
    BY <1>3
  <2>2. PICK h : Placed(h, v, s, n) /\ LocateLocks(v) = h[n]
    BY <1>1, <2>1, Placing
  <2> QED BY <2>2 DEF Placed
<1>5. ASSUME NEW k \in 1..n
      PROVE  /\ s[k] \in locks /\ h[k - 1] \in SUBSET Shown
             /\ h[k - 1] \subseteq h[k]
             /\ Clear(h[k - 1]) => Clear(h[k])
             /\ s[k].version = v
                  /\ FreeAt(h[k - 1], OwnRange(s[k]).start, Len(Units(s[k].text))) =>
                  h[k] = h[k - 1] \cup {OwnRange(s[k])}
  <2>1. k - 1 \in 0..n
    OBVIOUS
  <2>2. s[k] \in locks /\ h[k - 1] \in SUBSET Shown /\ h[k] = PlaceLock(v, h[k - 1], s[k])
    BY <1>3, <1>4, <2>1
  <2> QED BY <2>2, PlaceOne
<1>6. Clear(h[n])
  <2>1. PICK Q : Q = {k \in Nat : Clear(h[k])}
    OBVIOUS
  <2>2. 0 \in Q
    BY <1>4, <2>1 DEF Clear
  <2>3. ASSUME NEW k \in 1..n, k - 1 \in Q PROVE k \in Q
    <3>1. Clear(h[k - 1]) /\ k \in Nat
      BY <2>1, <2>3
    <3>2. Clear(h[k])
      BY <1>5, <3>1
    <3> QED BY <2>1, <3>1, <3>2
  <2>4. n \in 0..n /\ \A k \in 0..n : k \in Q
    BY <2>2, <2>3, InductionTo
  <2> QED BY <2>1, <2>4
\* As long as fragments of the version are placed, only their own ranges are taken.
<1>7. ASSUME NEW k \in 1..m, \A r \in h[k - 1] : \E j \in 1..(k - 1) : r = OwnRange(s[j])
      PROVE  h[k] = h[k - 1] \cup {OwnRange(s[k])}
  <2>1. k \in 1..n /\ s[k] \in locks /\ s[k].version = v
    <3>1. k \in 1..n
      BY <1>2
    <3> QED BY <1>3, <3>1
  <2>2. PICK own, size : own = OwnRange(s[k]) /\ size = Len(Units(s[k].text))
    OBVIOUS
  <2>3. own \in Shown /\ own.start + size = own.end
    BY <2>1, <2>2, OwnRanges
  <2>4. ASSUME NEW r \in h[k - 1]
        PROVE  ~(own.start < r.end /\ own.start + size > r.start)
    <3>1. PICK j \in 1..(k - 1) : r = OwnRange(s[j])
      BY <1>7
    <3>2. j \in 1..m /\ j \in 1..n /\ j # k
      BY <1>2
    <3>3. s[j] \in locks /\ s[j].version = v /\ s[j] # s[k]
      BY <1>3, <3>2
    <3>4. r.end <= own.start \/ own.end <= r.start
      BY <2>1, <2>2, <3>1, <3>3, OwnRanges
    <3>5. r \in Shown
      BY <3>1, <3>3, OwnRanges
    <3>6. r.start \in Nat /\ r.end \in Nat /\ own.start \in Nat /\ own.end \in Nat
      BY <2>3, <3>5 DEF Shown
    <3> QED BY <2>3, <3>4, <3>6
  <2>5. FreeAt(h[k - 1], OwnRange(s[k]).start, Len(Units(s[k].text)))
    BY <2>2, <2>4 DEF FreeAt
  <2> QED BY <1>5, <2>1, <2>5
<1>8. \A k \in 0..m : \A r \in h[k] : \E j \in 1..k : r = OwnRange(s[j])
  <2>1. PICK Q : Q = {k \in Nat : \A r \in h[k] : \E j \in 1..k : r = OwnRange(s[j])}
    OBVIOUS
  <2>2. 0 \in Q
    BY <1>4, <2>1
  <2>3. ASSUME NEW k \in 1..m, k - 1 \in Q PROVE k \in Q
    <3>1. \A r \in h[k - 1] : \E j \in 1..(k - 1) : r = OwnRange(s[j])
      BY <2>1, <2>3
    <3>2. h[k] = h[k - 1] \cup {OwnRange(s[k])}
      BY <1>7, <3>1
    <3>3. k \in Nat /\ k \in 1..k /\ 1..(k - 1) \subseteq 1..k
      OBVIOUS
    <3>4. \A r \in h[k] : \E j \in 1..k : r = OwnRange(s[j])
      BY <3>1, <3>2, <3>3
    <3> QED BY <2>1, <3>3, <3>4
  <2>4. \A k \in 0..m : k \in Q
    BY <2>2, <2>3, InductionTo
  <2> QED BY <2>1, <2>4
<1>9. ASSUME NEW l \in locks, l.version = v
      PROVE  OwnRange(l) \in h[n]
  <2>1. PICK k \in 1..m : s[k] = l
    BY <1>3, <1>9
  <2>2. k - 1 \in 0..m /\ k \in 1..n
    BY <1>2
  <2>3. OwnRange(l) \in h[k]
    BY <1>7, <1>8, <2>1, <2>2
  <2>4. PICK Q : Q = {j \in Nat : j >= k => OwnRange(l) \in h[j]}
    OBVIOUS
  <2>5. 0 \in Q
    BY <2>4
  <2>6. ASSUME NEW j \in 1..n, j - 1 \in Q PROVE j \in Q
    <3>1. CASE j = k
      BY <2>3, <2>4, <3>1
    <3>2. CASE j # k
      <4>1. j >= k => OwnRange(l) \in h[j - 1]
        BY <2>4, <2>6, <3>2
      <4>2. h[j - 1] \subseteq h[j]
        BY <1>5
      <4> QED BY <2>4, <4>1, <4>2
    <3> QED BY <3>1, <3>2
  <2>7. n \in 0..n /\ n >= k
    BY <1>2
  <2>8. n \in Q
    BY <2>5, <2>6, <2>7, InductionTo
  <2> QED BY <2>4, <2>7, <2>8
<1> QED BY <1>4, <1>6, <1>9

\* Whatever fragments of other versions share text with them, the editor shows the
\* fragments of a version where they were locked and none over another: a character
\* outside the BMP moves both ends of a range alike.
THEOREM FragmentsShown == TextSpec => []ShownInPlace
<1>1. ASSUME TextInv, FragmentInv
      PROVE  ShownInPlace
  <2>1. ASSUME NEW i \in DOMAIN versions
        PROVE  /\ Clear(LocateLocks(i))
               /\ \A l \in locks : l.version = i => OwnRange(l) \in LocateLocks(i)
    BY <1>1, PlacesKept DEF TextInv
  <2> QED BY <2>1 DEF ShownInPlace, Clear, OwnRange
<1> QED BY <1>1, TextsInductive, FragmentsInductive, PTL
=============================================================================
