-------------------------- MODULE SuggestionRounds --------------------------
(***************************************************************************)
(* The analyses and suggestions of one document.  A member accepts some of *)
(* the suggestions and asks for the others to be replaced; every request   *)
(* carries a snapshot of what the page shows, which submit checks against  *)
(* the table (ai_queue.py, _apply_suggestion_snapshot); the results are    *)
(* stored by the persist() functions of ai_operations.py.                  *)
(*                                                                         *)
(* At most one operation is active and the handlers wait for it: AiQueue   *)
(* and TaskDocument show that.                                             *)
(***************************************************************************)
EXTENDS Integers, Sequences, FiniteSets, FiniteSetsExt, TaskDomain

CONSTANTS MinSuggestions, MaxSuggestions,   \* SuggestionSet: 5 and 8
          Keys, Titles, Issues, Notes,
          MaxAnalyses, MaxRounds,           \* bounds of the instance
          None

ASSUME SizeAssumption ==
    /\ MinSuggestions \in Nat \ {0} /\ MaxSuggestions \in Nat
    /\ MinSuggestions <= MaxSuggestions
    /\ MaxAnalyses \in Nat /\ MaxRounds \in Nat
    /\ None \notin Notes /\ "analysis" \in Issues

VARIABLES
    state,      \* rewrite_tasks.state
    analyses,   \* per sequence number: the issue ids the payload offers
    selected,   \* analyses with is_selected
    rows,       \* task_suggestions
    round,      \* rounds that were stored, so that ids are new
    page,       \* what the member's page shows: an analysis and suggestion ids
    op          \* the queued or running operation

vars == <<state, analyses, selected, rows, round, page, op>>

Id == (1..MaxRounds) \X Keys
Decision == {"pending", "accepted", "rejected"}
Row == [id : Id, analysis : 1..MaxAnalyses, key : Keys, title : Titles, ref : Issues,
        decision : Decision, note : Notes \cup {None}]
Item == [key : Keys, title : Titles, ref : Issues]

Of(n) == {r \in rows : r.analysis = n}
Ids(set) == {r.id : r \in set}
KeysOf(set) == {r.key : r \in set}
TitlesOf(set) == {r.title : r \in set}
Selected == {r \in Of(op.analysis) : r.id \in op.accepted}

Init ==
    /\ state = "draft"
    /\ analyses = << >> /\ selected = {}
    /\ rows = {} /\ round = 0
    /\ page = [analysis |-> None, ids |-> {}]
    /\ op = None

-----------------------------------------------------------------------------
(* The page and the requests *)

\* getTask asks for the analyses and the suggestions in separate requests.
LoadAnalysis ==
    /\ \E n \in selected : page' = [page EXCEPT !.analysis = n]
    /\ UNCHANGED <<state, analyses, selected, rows, round, op>>

LoadSuggestions ==
    /\ \E n \in selected : page' = [page EXCEPT !.ids = Ids(Of(n))]
    /\ UNCHANGED <<state, analyses, selected, rows, round, op>>

SubmitAnalysis ==
    /\ op = None
    /\ AssertTransition(state, "analyzing")
    /\ op' = [kind |-> "analysis", initial |-> state, analysis |-> None, accepted |-> {}]
    /\ state' = "analyzing"
    /\ UNCHANGED <<analyses, selected, rows, round, page>>

\* Slip: the analysis need not be selected.
AnyAnalysis == page.analysis # None /\ page.ids = Ids(Of(page.analysis))

\* The snapshot is of the selected analysis and names all of its suggestions.
SnapshotCurrent == page.analysis \in selected /\ page.ids = Ids(Of(page.analysis))

\* Suggestions, first draft, or a revision from the suggestions: the decisions of
\* the snapshot are stored with the operation.  Retry resubmits an old snapshot,
\* as a page that was not reloaded does.
Submit(kind, accepted, noted, note) ==
    /\ op = None
    /\ AssertTransition(state, RunningState(kind))
    /\ SnapshotCurrent
    /\ rows' = {IF r.analysis # page.analysis THEN r
                ELSE [r EXCEPT !.decision = IF r.id \in accepted THEN "accepted" ELSE "rejected",
                               !.note = IF r.id \in noted THEN note ELSE None] : r \in rows}
    /\ op' = [kind |-> kind, initial |-> state, analysis |-> page.analysis,
              accepted |-> accepted]
    /\ state' = RunningState(kind)
    /\ UNCHANGED <<analyses, selected, round, page>>

\* PATCH of one suggestion, the compatibility API.
UpdateSuggestion ==
    /\ op = None
    /\ \E r \in rows, d \in Decision, n \in Notes \cup {None} :
         rows' = (rows \ {r}) \cup {[r EXCEPT !.decision = d, !.note = n]}
    /\ UNCHANGED <<state, analyses, selected, round, page, op>>

\* PATCH of an analysis: any payload of either shape is accepted.
CorrectAnalysis ==
    /\ op = None
    /\ \E n \in 1..Len(analyses), issues \in SUBSET Issues :
         analyses' = [analyses EXCEPT ![n] = issues]
    /\ UNCHANGED <<state, selected, rows, round, page, op>>

-----------------------------------------------------------------------------
(* Execution: invoke and persist of the operation *)

Executing(kind) == op # None /\ op.kind = kind

End(newState) == op' = None /\ state' = newState

\* A provider error, an unreadable answer, a cancellation: nothing is stored.
Fail ==
    /\ op # None
    /\ End(op.initial)
    /\ UNCHANGED <<analyses, selected, rows, round, page>>

\* analyze persist: all analyses of the task are deselected, the next is selected.
SelectOnly(n) == {n}

\* A new analysis is a text, which offers the one reference "analysis".
AnalysisStored ==
    /\ Executing("analysis")
    /\ Len(analyses) < MaxAnalyses
    /\ analyses' = Append(analyses, {"analysis"})
    /\ selected' = SelectOnly(Len(analyses) + 1)
    /\ End(SucceededState("analysis"))
    /\ UNCHANGED <<rows, round, page>>

\* The validator of SuggestionSet: the size and the keys.
IsSuggestionSet(set) ==
    /\ Cardinality(set) \in MinSuggestions..MaxSuggestions
    /\ \A i, j \in set : i.key = j.key => i = j

\* A parsed SuggestionSet whose items refer to issues of the analysis.
Answers(n) ==
    {items \in SUBSET {i \in Item : i.ref \in analyses[n]} :
       IsFiniteSet(items) /\ IsSuggestionSet(items)}

\* How many replacements fit beside the accepted suggestions.
Capacity(previous, fixed) ==
    (IF previous = {} THEN MaxSuggestions
     ELSE Max({MinSuggestions, Min({MaxSuggestions, Cardinality(previous)})}))
    - Cardinality(fixed)

\* Slip: repeated keys are not filtered out.
NewTitlesOnly(items, fixed) == {i \in items : i.title \notin TitlesOf(fixed)}

\* Items that repeat neither key nor title of an accepted suggestion.
Fresh(items, fixed) ==
    {i \in items : i.key \notin KeysOf(fixed) /\ i.title \notin TitlesOf(fixed)}

\* The first Capacity of them, in the order of the answer.
Replacements(items, previous, fixed) ==
    LET fresh == Fresh(items, fixed)
        size == Min({Capacity(previous, fixed), Cardinality(fresh)}) IN
    {s \in SUBSET fresh : Cardinality(s) = size}

FitsSet(fixed, new) ==
    Cardinality(fixed) + Cardinality(new) \in MinSuggestions..MaxSuggestions

\* Slip: the ids of the round before are used again.
NewRowOldId(n, i) == [id |-> <<round, i.key>>, analysis |-> n, key |-> i.key,
                      title |-> i.title, ref |-> i.ref, decision |-> "pending", note |-> None]

NewRow(n, i) == [id |-> <<round + 1, i.key>>, analysis |-> n, key |-> i.key,
                 title |-> i.title, ref |-> i.ref, decision |-> "pending", note |-> None]

\* Slip: all rows of the analysis are replaced.
DeleteAll(previous, fixed) == rows \ previous

\* DELETE of the analysis's rows that are not accepted.
DeleteUnselected(previous, fixed) == rows \ (previous \ fixed)

\* suggest: refused when everything is accepted, and when the replacements and
\* the accepted ones together are not a SuggestionSet.
SuggestionsStored ==
    LET n == op.analysis  previous == Of(n)  fixed == Selected IN
    /\ Executing("suggestions")
    /\ round < MaxRounds
    /\ previous = {} \/ fixed # previous
    /\ \E items \in Answers(n) : \E new \in Replacements(items, previous, fixed) :
         /\ FitsSet(fixed, new)
         /\ rows' = DeleteUnselected(previous, fixed) \cup {NewRow(n, i) : i \in new}
    /\ round' = round + 1
    /\ End(SucceededState("suggestions"))
    /\ UNCHANGED <<analyses, selected, page>>

\* A set that does not fit is refused: _record_failure commits the session, and
\* persist has changed nothing by then.
SuggestionsRefused ==
    LET n == op.analysis  previous == Of(n)  fixed == Selected IN
    /\ Executing("suggestions")
    /\ previous = {} \/ fixed # previous
    /\ \E items \in Answers(n) : \E new \in Replacements(items, previous, fixed) :
         ~FitsSet(fixed, new)
    /\ End(op.initial)
    /\ UNCHANGED <<analyses, selected, rows, round, page>>

\* create_first_draft and regenerate_from_suggestions: the stored rows must be a
\* SuggestionSet and the accepted ones refer to issues of the analysis.
InputsValid ==
    /\ IsSuggestionSet(Of(op.analysis))
    /\ \A r \in Selected : r.ref \in analyses[op.analysis]

VersionStored ==
    /\ Executing("first_draft") \/ Executing("revision")
    /\ InputsValid
    /\ End(SucceededState(op.kind))
    /\ UNCHANGED <<analyses, selected, rows, round, page>>

-----------------------------------------------------------------------------
Next ==
    \/ LoadAnalysis \/ LoadSuggestions
    \/ SubmitAnalysis
    \/ \E kind \in AiOperationKind \ {"analysis"}, a \in SUBSET page.ids,
          noted \in SUBSET page.ids, n \in Notes :
         Submit(kind, a, noted, n)
    \/ UpdateSuggestion \/ CorrectAnalysis
    \/ Fail \/ AnalysisStored \/ SuggestionsStored \/ SuggestionsRefused \/ VersionStored

Spec == Init /\ [][Next]_vars

-----------------------------------------------------------------------------
(* Properties *)

Operation == [kind : AiOperationKind, initial : StableStates,
              analysis : (1..MaxAnalyses) \cup {None}, accepted : SUBSET Id]

\* Every variable keeps its type.
TypeOK ==
    /\ state \in TaskState
    /\ analyses \in Seq(SUBSET Issues) /\ Len(analyses) <= MaxAnalyses
    /\ selected \subseteq 1..Len(analyses)
    /\ rows \subseteq Row
    /\ round \in 0..MaxRounds
    /\ page \in [analysis : (1..MaxAnalyses) \cup {None}, ids : SUBSET Id]
    /\ op \in Operation \cup {None}

\* An analysis has no suggestions, or a SuggestionSet of them.
EachSetComplete ==
    \A n \in 1..Len(analyses) : Of(n) = {} \/ IsSuggestionSet(Of(n))

\* Whatever was accepted, rejected, repeated or refused before: an analysis has no
\* suggestions, or between 5 and 8 with different keys (dto.py:125-133), and while a
\* draft or a revision from the suggestions executes its analysis has them: it never
\* meets a set that its parser refuses.
SetComplete ==
    /\ EachSetComplete
    /\ op # None /\ op.kind \in {"first_draft", "revision"} => IsSuggestionSet(Of(op.analysis))

\* API_CONTRACT.md:93-95: until an operation ends, the table agrees with the
\* snapshot it was submitted with, so what it executes is what was submitted.
SnapshotHolds ==
    op # None /\ op.kind # "analysis" =>
      /\ op.analysis \in selected
      /\ {r \in Of(op.analysis) : r.decision = "accepted"} = Selected
      /\ op.accepted \subseteq Ids(Of(op.analysis))

\* API_CONTRACT.md:132: a stored round keeps the accepted suggestions with id and
\* note, and repeats neither their keys nor their titles.
AcceptedKept ==
    [][round' # round =>
         /\ Selected \subseteq rows'
         /\ \A r \in rows' \ rows, s \in Selected :
              r.analysis = s.analysis => r.key # s.key /\ r.title # s.title]_vars

-----------------------------------------------------------------------------
(* The inductive invariant of the proofs *)

\* A suggestion belongs to an analysis of the document, was stored in a round that
\* is over, and shares its id with no other: the columns Submit and PATCH assign
\* leave it as many suggestions as it was.
Numbered ==
    /\ IsFiniteSet(rows)
    /\ \A r \in rows : r.analysis \in 1..Len(analyses) /\ r.id[1] <= round
    /\ \A r, s \in rows : r.id = s.id => r = s

\* The stable states that are reached only once suggestions were stored.
Suggested == {"suggestions_ready", "editing", "finalized"}

\* At most one analysis is selected, and it has suggestions when the task is in one
\* of those states, or returns to one if its operation fails.
Supplied ==
    /\ \A m, n \in selected : m = n
    /\ op # None /\ op.kind \in {"first_draft", "revision"} => op.initial \in Suggested
    /\ state \in Suggested \/ (op # None /\ op.initial \in Suggested) =>
         \A n \in selected : Of(n) # {}

IInv == TypeOK /\ Numbered /\ EachSetComplete /\ Supplied /\ SnapshotHolds
=============================================================================
