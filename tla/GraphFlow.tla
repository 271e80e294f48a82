----------------------------- MODULE GraphFlow -----------------------------
(***************************************************************************)
(* One turn's way through the graph that orchestration/graph.py builds:    *)
(* which node runs next (orchestration/routes.py), what of ChatGraphState  *)
(* the routes read, and which effects the nodes have had by then.          *)
(*                                                                         *)
(* The graph has one cycle: a profile edit that was put aside for a new    *)
(* question is saved or discarded, and the question is then taken up in    *)
(* the same turn.  resume_deferred_query is set for that and never reset.  *)
(*                                                                         *)
(* LangGraph is not part of the repository.  It runs one node after the    *)
(* other here, and raises GraphRecursionError at the latest when as many   *)
(* nodes have run as its recursion_limit says, possibly one node earlier,  *)
(* possibly when nothing is left to run.  With a checkpointer, what the    *)
(* previous turn left in workflow_status and turn_type is still there when *)
(* a turn starts: process does not reset them.                             *)
(***************************************************************************)
EXTENDS Integers

CONSTANT Limits         \* the values of max_workflow_steps_per_request

ASSUME LimitsAssumption == Limits \subseteq Nat

VARIABLES
    limit,              \* the recursion_limit of this turn
    node,               \* the node that runs next, or "END"
    steps,              \* how many nodes have run
    state,              \* the part of ChatGraphState that decides the way
    created,            \* pending actions created
    claimed,            \* claim_execution succeeded
    executed,           \* the end of the claimed action is recorded
    saved,              \* the messages of this turn are in the database
    outcome             \* how process ended

effects == <<created, claimed, executed, saved>>
vars == <<limit, node, steps, state, effects, outcome>>

-----------------------------------------------------------------------------
(* The data                                                                *)

Nodes ==
    {"load_conversation", "detect_turn_type", "normalize_query",
     "classify_query", "retrieve_candidates", "select_tool",
     "merge_clarification", "resolve_arguments", "resolve_profile_write",
     "validate_selection", "ask_clarification", "create_confirmation",
     "load_pending_action_confirm", "load_pending_action_cancel",
     "cancel_pending_action", "execute_read_tool", "execute_write_tool",
     "format_response", "persist_conversation"}

TurnTypes ==
    {"new_query", "new_query_override", "clarification_answer",
     "clarification_retry", "workflow_cancel", "confirmation_accept",
     "confirmation_cancel", "profile_override_guard"}

WorkflowStatuses ==
    {"clarification_required", "confirmation_required", "execute_read",
     "failed"}

ResponseTypes ==
    {"answer", "clarification_required", "confirmation_required", "error",
     "unsupported"}

\* "none" is Python's None.  profileWrite abstracts classification: the
\* domain is profile and the operation writes.  switching: the collected
\* arguments hold a profile_edit_action that switches to the deferred query.
GraphState ==
    [actionType   : {"none", "confirm", "cancel", "cancel_workflow"},
     conversation : {"active", "awaiting_clarification",
                     "awaiting_confirmation"},
     turnType     : TurnTypes \cup {"none"},
     status       : WorkflowStatuses \cup {"none"},
     tool         : {"none", "profile_crud_workflow", "other"},
     profileWrite : BOOLEAN,
     switching    : BOOLEAN,
     resumed      : BOOLEAN,
     toolResult   : {"none", "success", "failure"},
     response     : ResponseTypes \cup {"none"}]

TypeOK ==
    /\ limit \in Limits
    /\ node \in Nodes \cup {"END"}
    /\ steps \in Nat
    /\ state \in GraphState
    /\ created \in Nat
    /\ claimed \in BOOLEAN
    /\ executed \in BOOLEAN
    /\ saved \in BOOLEAN
    /\ outcome \in {"running", "done", "raised", "step_limit"}

Init ==
    /\ limit \in Limits
    /\ node = "load_conversation"
    /\ steps = 0
    /\ \E actionType \in {"none", "confirm", "cancel", "cancel_workflow"},
          turnType \in {"none", "new_query", "confirmation_accept"},
          status \in {"none", "confirmation_required"} :
          state = [actionType   |-> actionType,
                   conversation |-> "active",
                   turnType     |-> turnType,
                   status       |-> status,
                   tool         |-> "none",
                   profileWrite |-> FALSE,
                   switching    |-> FALSE,
                   resumed      |-> FALSE,
                   toolResult   |-> "none",
                   response     |-> "none"]
    /\ created = 0
    /\ claimed = FALSE
    /\ executed = FALSE
    /\ saved = FALSE
    /\ outcome = "running"

-----------------------------------------------------------------------------
(* Running a node                                                          *)

Runs(n) ==
    /\ outcome = "running"
    /\ node = n
    /\ steps < limit
    /\ steps' = steps + 1
    /\ UNCHANGED limit

To(n) == node' = n /\ UNCHANGED outcome

\* Any exception ends the turn, wherever it was.
Raises == outcome' = "raised" /\ UNCHANGED node

Responds(s, r) == [s EXCEPT !.response = r]

Answered(s) == s.response # "none"

\* A response together with workflow_status FAILED.
Fails(s, r) == [Responds(s, r) EXCEPT !.status = "failed"]

WithTool(s, tool) == [s EXCEPT !.tool = tool]

\* The workflow is dropped from the graph state.
Cleared(s) == [WithTool(s, "none") EXCEPT !.conversation = "active"]

-----------------------------------------------------------------------------
(* Which node follows: routes.py                                           *)

AfterTurnDetection(s) ==
    CASE s.turnType \in {"new_query", "new_query_override"}
            -> "normalize_query"
      [] s.turnType \in {"clarification_answer", "clarification_retry"}
            -> "merge_clarification"
      [] s.turnType = "confirmation_accept" -> "load_pending_action_confirm"
      [] s.turnType = "confirmation_cancel" -> "load_pending_action_cancel"
      [] OTHER -> "format_response"

\* Mutation of AfterClassification: a response that is there is ignored.
AfterClassificationAlways(s) ==
    IF s.profileWrite THEN "resolve_profile_write" ELSE "retrieve_candidates"

AfterClassification(s) ==
    CASE Answered(s) -> "format_response"
      [] ~Answered(s) /\ s.profileWrite -> "resolve_profile_write"
      [] OTHER -> "retrieve_candidates"

AfterClarificationMerge(s) ==
    CASE Answered(s) -> "format_response"
      [] ~Answered(s) /\ s.tool = "profile_crud_workflow"
            -> "resolve_profile_write"
      [] OTHER -> "resolve_arguments"

AfterProfileWrite(s) ==
    IF s.resumed THEN "normalize_query" ELSE "format_response"

\* route_after_retrieval and route_after_argument_resolution.
UnlessAnswered(s, next) == IF Answered(s) THEN "format_response" ELSE next

AfterSelection(s) ==
    IF s.tool # "none" THEN "resolve_arguments" ELSE "format_response"

AfterValidation(s) ==
    CASE s.status = "clarification_required" -> "ask_clarification"
      [] s.status = "confirmation_required" -> "create_confirmation"
      [] s.status = "execute_read" -> "execute_read_tool"
      [] OTHER -> "format_response"

-----------------------------------------------------------------------------
(* The nodes                                                               *)

LoadConversation ==
    /\ Runs("load_conversation")
    /\ \E c \in {"active", "awaiting_clarification", "awaiting_confirmation"},
          tool \in {"none", "profile_crud_workflow", "other"} :
          state' = [WithTool(state, tool) EXCEPT !.conversation = c]
    /\ To("detect_turn_type")
    /\ UNCHANGED effects

\* What the request and the conversation allow detect_turn_type_node to
\* conclude; DialogTurnManager.detect judges the answer to a question.
Detectable(s) ==
    CASE s.actionType = "confirm" -> {"confirmation_accept"}
      [] s.actionType = "cancel" -> {"confirmation_cancel"}
      [] s.actionType = "cancel_workflow" -> {"workflow_cancel"}
      [] s.actionType = "none" /\ s.conversation = "awaiting_clarification"
            -> {"clarification_answer", "clarification_retry",
                "workflow_cancel", "new_query_override"}
      [] OTHER -> {"new_query"}

\* An unsaved profile draft holds a new query back.
Guarded(s, t) ==
    /\ t = "new_query_override"
    /\ s.tool = "profile_crud_workflow"

\* A new query drops the workflow; WORKFLOW_CANCEL does so when a question
\* was open.
DetectTurnType ==
    LET Detected(t) == [state EXCEPT !.turnType = t]
    IN  /\ Runs("detect_turn_type")
        /\ \E t \in Detectable(state) :
              \/ /\ t \in {"new_query", "new_query_override"}
                 /\ state' = Cleared(Detected(t))
              \/ /\ Guarded(state, t)
                 /\ state' = Responds(Detected("profile_override_guard"),
                                      "clarification_required")
              \/ /\ t = "workflow_cancel"
                 /\ state' = Responds(
                       IF state.conversation = "awaiting_clarification"
                       THEN Cleared(Detected(t)) ELSE Detected(t), "answer")
              \/ /\ t \in {"clarification_answer", "clarification_retry",
                           "confirmation_accept", "confirmation_cancel"}
                 /\ state' = Detected(t)
        /\ To(AfterTurnDetection(state'))
        /\ UNCHANGED effects

NormalizeQuery ==
    /\ Runs("normalize_query")
    /\ To("classify_query")
    /\ UNCHANGED <<state, effects>>

\* A failure of the classifier overwrites the response, whatever it was.
ClassifyQuery ==
    /\ Runs("classify_query")
    /\ \/ \E isWrite \in BOOLEAN :
             state' = [state EXCEPT !.profileWrite = isWrite]
       \/ state' = WithTool(Fails(state, "error"), "none")
    /\ To(AfterClassification(state'))
    /\ UNCHANGED effects

RetrieveCandidates ==
    /\ Runs("retrieve_candidates")
    /\ \/ UNCHANGED state
       \/ state' = Fails(state, "unsupported")
    /\ To(UnlessAnswered(state', "select_tool"))
    /\ UNCHANGED effects

SelectTool ==
    /\ Runs("select_tool")
    /\ \/ state' = WithTool(state, "other")
       \/ \E r \in {"unsupported", "error"} :
             state' = WithTool(Fails(state, r), "none")
    /\ To(AfterSelection(state'))
    /\ UNCHANGED effects

MergeClarification ==
    /\ Runs("merge_clarification")
    /\ \/ \E r \in {"error", "unsupported", "clarification_required"} :
             state' = Responds(state, r)
       \/ /\ state.tool # "none"
          /\ \E switch \in BOOLEAN :
                /\ switch => state.tool = "profile_crud_workflow"
                /\ state' = [state EXCEPT !.switching = switch]
    /\ To(AfterClarificationMerge(state'))
    /\ UNCHANGED effects

\* Loading the leave requests that can be acted on may end the turn.
ResolveArguments ==
    /\ Runs("resolve_arguments")
    /\ \/ UNCHANGED state
       \/ \E r \in {"error", "answer"} : state' = Responds(state, r)
    /\ To(UnlessAnswered(state', "validate_selection"))
    /\ UNCHANGED effects

ValidateSelection ==
    /\ Runs("validate_selection")
    /\ \/ \E s \in WorkflowStatuses \ {"failed"} :
             state' = [state EXCEPT !.status = s]
       \/ state' = Fails(state, "error")
    /\ To(AfterValidation(state'))
    /\ UNCHANGED effects

\* Mutation of Resume: the collected arguments are kept.
ResumeKeepsAction(s) ==
    [Cleared(Responds(s, "none")) EXCEPT !.resumed = TRUE]

\* _resume_deferred_profile_query: the workflow is dropped and the deferred
\* query becomes the message of this turn.
Resume(s) ==
    [Cleared(Responds(s, "none")) EXCEPT !.resumed = TRUE,
                                         !.switching = FALSE]

ResolveProfileWrite ==
    /\ Runs("resolve_profile_write")
    /\ \/ /\ state.switching
          /\ \/ state' = Resume(state)
             \/ state' = Responds(state, "error")
          /\ UNCHANGED created
       \/ /\ ~state.switching
          /\ \E r \in {"answer", "clarification_required", "error"} :
                state' = Responds(state, r)
          /\ UNCHANGED created
       \/ /\ ~state.switching
          /\ state' = Responds(state, "confirmation_required")
          /\ created' = created + 1
    /\ To(AfterProfileWrite(state'))
    /\ UNCHANGED <<claimed, executed, saved>>

AskClarification ==
    /\ Runs("ask_clarification")
    /\ \E r \in {"clarification_required", "error"} :
          state' = Responds(state, r)
    /\ To("format_response")
    /\ UNCHANGED effects

\* The action exists even when pointing the conversation to it fails.
CreateConfirmation ==
    /\ Runs("create_confirmation")
    /\ created' = created + 1
    /\ \/ /\ state' = Responds(state, "confirmation_required")
          /\ To("format_response")
       \/ UNCHANGED state /\ Raises
    /\ UNCHANGED <<claimed, executed, saved>>

ExecuteReadTool ==
    /\ Runs("execute_read_tool")
    /\ \E result \in {"success", "failure"} :
          state' = [state EXCEPT !.toolResult = result]
    /\ To("format_response")
    /\ UNCHANGED effects

LoadPendingActionConfirm ==
    /\ Runs("load_pending_action_confirm")
    /\ claimed' = TRUE
    /\ \E tool \in {"profile_crud_workflow", "other"} :
          state' = WithTool(state, tool)
    /\ To("execute_write_tool")
    /\ UNCHANGED <<created, executed, saved>>

\* Mutation of ExecuteWriteTool: after a failure the profile form is resolved
\* again in the same turn.
ExecuteThenResolve ==
    /\ Runs("execute_write_tool")
    /\ executed' = TRUE
    /\ state' = state
    /\ To("resolve_profile_write")
    /\ UNCHANGED <<created, claimed, saved>>

\* A profile action answers here, a tool's result is put into words later.
\* The action is finished even when the conversation's update fails.
ExecuteWriteTool ==
    /\ Runs("execute_write_tool")
    /\ executed' = TRUE
    /\ \/ /\ state.tool = "profile_crud_workflow"
          /\ \E r \in {"answer", "error"} : state' = Responds(state, r)
          /\ To("format_response")
       \/ /\ state.tool = "other"
          /\ \E result \in {"success", "failure"} :
                state' = [state EXCEPT !.toolResult = result]
          /\ To("format_response")
       \/ UNCHANGED state /\ Raises
    /\ UNCHANGED <<created, claimed, saved>>

LoadPendingActionCancel ==
    /\ Runs("load_pending_action_cancel")
    /\ \E tool \in {"profile_crud_workflow", "other"} :
          state' = WithTool(state, tool)
    /\ To("cancel_pending_action")
    /\ UNCHANGED effects

CancelPendingAction ==
    /\ Runs("cancel_pending_action")
    /\ state' = Responds(state, "answer")
    /\ To("format_response")
    /\ UNCHANGED effects

\* Mutation of Formatted: the response is made from the tool's result only.
FormattedAfresh(s) ==
    Responds(s, IF s.toolResult = "success" THEN "answer" ELSE "error")

\* A response that is there is kept; without a tool's result it is an error.
Formatted(s) ==
    CASE Answered(s) -> s
      [] ~Answered(s) /\ s.toolResult = "success" -> Responds(s, "answer")
      [] OTHER -> Responds(s, "error")

FormatResponse ==
    /\ Runs("format_response")
    /\ state' = Formatted(state)
    /\ To("persist_conversation")
    /\ UNCHANGED effects

\* Mutation of PersistConversation: nothing is stored of a turn that came
\* without a message.
PersistMessagesOnly ==
    /\ Runs("persist_conversation")
    /\ saved' = (state.actionType = "none")
    /\ To("END")
    /\ UNCHANGED <<state, created, claimed, executed>>

PersistConversation ==
    /\ Runs("persist_conversation")
    /\ saved' = TRUE
    /\ To("END")
    /\ UNCHANGED <<state, created, claimed, executed>>

-----------------------------------------------------------------------------
(* How a turn ends                                                         *)

\* An exception of the node that runs, before it had any effect.
NodeRaises ==
    /\ \E n \in Nodes : Runs(n)
    /\ Raises
    /\ UNCHANGED <<state, effects>>

StepLimit ==
    /\ outcome = "running"
    /\ steps + 1 >= limit
    /\ outcome' = "step_limit"
    /\ UNCHANGED <<limit, node, steps, state, effects>>

Return ==
    /\ outcome = "running"
    /\ node = "END"
    /\ outcome' = "done"
    /\ UNCHANGED <<limit, node, steps, state, effects>>

Next ==
    \/ LoadConversation
    \/ DetectTurnType
    \/ NormalizeQuery
    \/ ClassifyQuery
    \/ RetrieveCandidates
    \/ SelectTool
    \/ MergeClarification
    \/ ResolveArguments
    \/ ValidateSelection
    \/ ResolveProfileWrite
    \/ AskClarification
    \/ CreateConfirmation
    \/ ExecuteReadTool
    \/ LoadPendingActionConfirm
    \/ ExecuteWriteTool
    \/ LoadPendingActionCancel
    \/ CancelPendingAction
    \/ FormatResponse
    \/ PersistConversation
    \/ NodeRaises
    \/ StepLimit
    \/ Return

Spec == Init /\ [][Next]_vars

-----------------------------------------------------------------------------
(* Properties                                                              *)

\* The longest way: a clarification that switches to the deferred query,
\* which then goes all the way to a tool.
LongestTurn == 13

\* The cycle is taken once: with the default recursion limit of 20 no turn is
\* ever cut off, whatever the classifier, the selector and the tools answer
\* (build_chat_graph, route_after_profile_write, max_workflow_steps_per_request).
OnlyShortLimitsCut == outcome = "step_limit" => limit <= LongestTurn + 1

\* A confirmed write is cut off before it is reported only under a limit
\* of 7 or less (config.py accepts 5 and more).
WriteIsReported == outcome = "step_limit" /\ executed => limit <= 7

\* A turn creates one action at most, although the cycle leads past both
\* nodes that create one; and a turn that executes an action has claimed it
\* and creates none.
OneActionPerTurn ==
    /\ created <= 1
    /\ executed => claimed
    /\ claimed => created = 0

\* A turn that created an action answers with its confirmation card.  The
\* exception is a deferred profile edit: the query is classified once more
\* after the card was made, and a failure of that call replaces the card.
CardIsShown ==
    outcome = "done" /\ created > 0
        => \/ state.response = "confirmation_required"
           \/ state.resumed /\ state.response = "error"

\* A turn that is not cut off or raised has an answer and has stored it.
NoSilentTurn == outcome = "done" => Answered(state) /\ saved
=============================================================================
