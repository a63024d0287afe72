----------------------------- MODULE TaskDomain -----------------------------
(***************************************************************************)
(* The task state machine shared by every other module: the states of a    *)
(* rewrite task, the four kinds of AI operation, and the transitions that  *)
(* backend/app/modules/tasks/domain.py allows.                             *)
(***************************************************************************)

TaskState == {"draft", "analyzing", "analysis_ready", "suggesting",
              "suggestions_ready", "generating", "editing", "revising",
              "finalized", "archived"}

AiOperationKind == {"analysis", "suggestions", "first_draft", "revision"}

\* _ALLOWED_TRANSITIONS
AllowedTransitions(state) ==
    CASE state = "draft"             -> {"analyzing"}
      [] state = "analyzing"         -> {"analysis_ready", "draft"}
      [] state = "analysis_ready"    -> {"analyzing", "suggesting"}
      [] state = "suggesting"        -> {"suggestions_ready", "analysis_ready"}
      [] state = "suggestions_ready" -> {"suggesting", "generating"}
      [] state = "generating"        -> {"editing", "suggestions_ready"}
      [] state = "editing"           -> {"revising", "finalized"}
      [] state = "revising"          -> {"editing"}
      [] state = "finalized"         -> {"revising"}
      [] OTHER                       -> {}

\* assert_transition: TRUE where the code returns, FALSE where it raises.
AssertTransition(current, target) ==
    \/ target = "archived" /\ current # "archived"
    \/ target \in AllowedTransitions(current)

\* _running_state: the state a task is in while an operation of this kind is
\* queued or running.
RunningState(kind) ==
    CASE kind = "analysis"    -> "analyzing"
      [] kind = "suggestions" -> "suggesting"
      [] kind = "first_draft" -> "generating"
      [] OTHER                -> "revising"

\* The state plan of each AI method: where a successful operation leaves the task.
SucceededState(kind) ==
    CASE kind = "analysis"    -> "analysis_ready"
      [] kind = "suggestions" -> "suggestions_ready"
      [] OTHER                -> "editing"

RunningStates == {"analyzing", "suggesting", "generating", "revising"}

\* The states a task can rest in between AI operations.
StableStates == TaskState \ RunningStates
=============================================================================
