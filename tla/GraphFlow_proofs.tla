-------------------------- MODULE GraphFlow_proofs --------------------------
(***************************************************************************)
(* Proofs about GraphFlow, for every set of limits.                        *)
(*                                                                         *)
(* The graph has a cycle, so the bound on a turn's length needs a measure: *)
(* Left(n, s) bounds the nodes that are still to run when n is next and    *)
(* the graph state is s.  It falls with every node, also on the way back   *)
(* from resolve_profile_write to normalize_query, because that way is open *)
(* only to a turn that switches, or to one that has its response already.  *)
(***************************************************************************)
EXTENDS GraphFlow, TLAPS

Left(n, s) ==
    CASE n = "END" -> 0
      [] n = "persist_conversation" -> 1
      [] n = "format_response" -> 2
      [] n \in {"ask_clarification", "create_confirmation",
                "execute_read_tool", "execute_write_tool",
                "cancel_pending_action"} -> 3
      [] n \in {"load_pending_action_confirm", "load_pending_action_cancel",
                "validate_selection"} -> 4
      [] n = "resolve_arguments" -> 5
      [] n = "select_tool" -> 6
      [] n = "retrieve_candidates" -> 7
      [] n = "classify_query" -> IF Answered(s) THEN 3 ELSE 8
      [] n = "normalize_query" -> IF Answered(s) THEN 4 ELSE 9
      [] n = "resolve_profile_write" ->
            IF s.switching THEN 10 ELSE IF s.resumed THEN 5 ELSE 3
      [] n = "merge_clarification" -> 11
      [] n = "detect_turn_type" -> 12
      [] OTHER -> 13

Tail == {"format_response", "persist_conversation", "END"}
Query == {"normalize_query", "classify_query"}

\* How long the turn can still be.
Measured == steps + Left(node, state) <= LongestTurn

\* What switches and what is answered by the time each node runs.
Ordered ==
    /\ node \in {"load_conversation", "detect_turn_type",
                 "merge_clarification"} \cup Query => ~state.switching
    /\ node \in {"load_conversation", "detect_turn_type",
                 "merge_clarification"} => ~Answered(state) /\ ~state.resumed
    /\ node = "resolve_profile_write" => ~Answered(state)
    /\ node = "resolve_profile_write" /\ state.switching => ~state.resumed
    /\ node \in Query /\ Answered(state) => state.resumed
    /\ node \in {"persist_conversation", "END"} => Answered(state)
    /\ node = "END" => saved

\* A created action has its response, except while it is overwritten.
Carded ==
    created > 0 =>
        /\ created = 1
        /\ node \in Tail \cup Query
        /\ \/ state.response = "confirmation_required"
           \/ state.resumed /\ state.response = "error"
        /\ ~claimed

\* The way of a confirmation, counted from the start.
Confirming ==
    /\ node = "load_conversation" => steps = 0
    /\ node = "detect_turn_type" => steps = 1
    /\ node = "load_pending_action_confirm" => steps = 2
    /\ node = "execute_write_tool" => claimed
    /\ claimed => /\ node \in Tail \cup {"execute_write_tool"}
                  /\ steps + Left(node, state) <= 6

Running == outcome = "running" => Measured /\ Ordered /\ Carded /\ Confirming

Ended == OnlyShortLimitsCut /\ WriteIsReported /\ CardIsShown /\ NoSilentTurn

IInv == TypeOK /\ Running /\ OneActionPerTurn /\ Ended

-----------------------------------------------------------------------------
(* Updates of the graph state                                              *)

Tools == {"none", "profile_crud_workflow", "other"}

\* The fields the measure and the order look at.
Same(s, t) == s.switching = t.switching /\ s.resumed = t.resumed

\* A node that only sets its response leaves the rest alone.
LEMMA RespondsFields ==
  ASSUME NEW s \in GraphState, NEW r \in ResponseTypes \cup {"none"}
  PROVE  /\ Responds(s, r) \in GraphState
         /\ Same(Responds(s, r), s)
         /\ Responds(s, r).response = r
         /\ Responds(s, r).tool = s.tool
         /\ Responds(s, r).turnType = s.turnType
BY DEF GraphState, Responds, Same

LEMMA WithToolFields ==
  ASSUME NEW s \in GraphState, NEW tool \in Tools
  PROVE  /\ WithTool(s, tool) \in GraphState
         /\ Same(WithTool(s, tool), s)
         /\ WithTool(s, tool).response = s.response
         /\ WithTool(s, tool).tool = tool
         /\ WithTool(s, tool).turnType = s.turnType
BY DEF GraphState, WithTool, Same, Tools

LEMMA ConversationFields ==
  ASSUME NEW s \in GraphState,
         NEW c \in {"active", "awaiting_clarification",
                    "awaiting_confirmation"}
  PROVE  /\ [s EXCEPT !.conversation = c] \in GraphState
         /\ Same([s EXCEPT !.conversation = c], s)
         /\ [s EXCEPT !.conversation = c].response = s.response
         /\ [s EXCEPT !.conversation = c].turnType = s.turnType
BY DEF GraphState, Same

LEMMA TurnTypeFields ==
  ASSUME NEW s \in GraphState, NEW t \in TurnTypes
  PROVE  /\ [s EXCEPT !.turnType = t] \in GraphState
         /\ Same([s EXCEPT !.turnType = t], s)
         /\ [s EXCEPT !.turnType = t].response = s.response
         /\ [s EXCEPT !.turnType = t].turnType = t
BY DEF GraphState, Same

LEMMA StatusFields ==
  ASSUME NEW s \in GraphState, NEW x \in WorkflowStatuses
  PROVE  /\ [s EXCEPT !.status = x] \in GraphState
         /\ Same([s EXCEPT !.status = x], s)
         /\ [s EXCEPT !.status = x].response = s.response
BY DEF GraphState, Same

LEMMA FailsFields ==
  ASSUME NEW s \in GraphState, NEW r \in ResponseTypes
  PROVE  /\ Fails(s, r) \in GraphState
         /\ Same(Fails(s, r), s)
         /\ Fails(s, r).response = r
<1>. DEFINE u == Responds(s, r)
<1>1. u \in GraphState /\ Same(u, s) /\ u.response = r
  BY RespondsFields
<1>2. Fails(s, r) = [u EXCEPT !.status = "failed"]
  BY DEF Fails
<1>. HIDE DEF u
<1>. QED
  BY <1>1, <1>2, StatusFields DEF Same, WorkflowStatuses

LEMMA ClearedFields ==
  ASSUME NEW s \in GraphState
  PROVE  /\ Cleared(s) \in GraphState
         /\ Same(Cleared(s), s)
         /\ Cleared(s).response = s.response
         /\ Cleared(s).turnType = s.turnType
<1>. DEFINE u == WithTool(s, "none")
<1>1. u \in GraphState /\ Same(u, s) /\ u.response = s.response
        /\ u.turnType = s.turnType
  BY WithToolFields DEF Tools
<1>2. Cleared(s) = [u EXCEPT !.conversation = "active"]
  BY DEF Cleared
<1>. HIDE DEF u
<1>. QED
  BY <1>1, <1>2, ConversationFields DEF Same

LEMMA ResumeFields ==
  ASSUME NEW s \in GraphState
  PROVE  /\ Resume(s) \in GraphState
         /\ Resume(s).resumed
         /\ ~Resume(s).switching
         /\ Resume(s).response = "none"
<1>. DEFINE c == Cleared(Responds(s, "none"))
            d == [c EXCEPT !.resumed = TRUE]
<1>1. c \in GraphState /\ c.response = "none"
  BY RespondsFields, ClearedFields
<1>. HIDE DEF c
<1>2. d \in GraphState /\ d.response = "none" /\ d.resumed
  BY <1>1 DEF GraphState
<1>3. Resume(s) = [d EXCEPT !.switching = FALSE]
  BY DEF Resume, c, d
<1>. HIDE DEF d
<1>. QED
  BY <1>2, <1>3 DEF GraphState

-----------------------------------------------------------------------------
(* Types                                                                   *)

\* Every node leaves a graph state.
LEMMA StateTyping == TypeOK /\ Next => state' \in GraphState
<1>. SUFFICES ASSUME TypeOK, Next PROVE state' \in GraphState
  OBVIOUS
<1>0. state \in GraphState
  BY DEF TypeOK
<1>1. CASE LoadConversation
  <2>. PICK c \in {"active", "awaiting_clarification",
                   "awaiting_confirmation"}, tool \in Tools :
         state' = [WithTool(state, tool) EXCEPT !.conversation = c]
    BY <1>1 DEF LoadConversation, Tools
  <2>. QED
    BY <1>0, WithToolFields, ConversationFields
<1>2. CASE DetectTurnType
  <2>. DEFINE Detected(t) == [state EXCEPT !.turnType = t]
  <2>1. \A t \in TurnTypes : Detected(t) \in GraphState
    BY <1>0, TurnTypeFields
  <2>2. \E t \in TurnTypes :
           \/ state' = Detected(t)
           \/ state' = Cleared(Detected(t))
           \/ \E r \in ResponseTypes :
                 \/ state' = Responds(Detected(t), r)
                 \/ state' = Responds(Cleared(Detected(t)), r)
    BY <1>2 DEF DetectTurnType, Detectable, TurnTypes, ResponseTypes
  <2>. HIDE DEF Detected
  <2>. QED
    BY <2>1, <2>2, ClearedFields, RespondsFields
<1>3. CASE state' = state
  BY <1>0, <1>3
<1>4. CASE \E r \in ResponseTypes : \/ state' = Responds(state, r)
                                     \/ state' = Fails(state, r)
                                     \/ state' = WithTool(Fails(state, r), "none")
  BY <1>0, <1>4, RespondsFields, FailsFields, WithToolFields DEF Tools
<1>5. CASE \E tool \in Tools : state' = WithTool(state, tool)
  BY <1>0, <1>5, WithToolFields
<1>6. CASE state' = Resume(state)
  BY <1>0, <1>6, ResumeFields
<1>7. CASE \E x \in BOOLEAN : \/ state' = [state EXCEPT !.profileWrite = x]
                               \/ state' = [state EXCEPT !.switching = x]
  BY <1>0, <1>7 DEF GraphState
<1>8. CASE \E x \in WorkflowStatuses : state' = [state EXCEPT !.status = x]
  BY <1>0, <1>8, StatusFields
<1>9. CASE \E x \in {"success", "failure"} :
              state' = [state EXCEPT !.toolResult = x]
  BY <1>0, <1>9 DEF GraphState
<1>. QED
  <2>. USE DEF ResponseTypes, Tools
  <2>1. CASE NormalizeQuery
    BY <2>1, <1>3 DEF NormalizeQuery
  <2>2. CASE ClassifyQuery
    BY <2>2, <1>4, <1>7 DEF ClassifyQuery
  <2>3. CASE RetrieveCandidates
    BY <2>3, <1>3, <1>4 DEF RetrieveCandidates
  <2>4. CASE SelectTool
    BY <2>4, <1>4, <1>5 DEF SelectTool
  <2>5. CASE MergeClarification
    BY <2>5, <1>4, <1>7 DEF MergeClarification
  <2>6. CASE ResolveArguments
    BY <2>6, <1>3, <1>4 DEF ResolveArguments
  <2>7. CASE ValidateSelection
    BY <2>7, <1>4, <1>8 DEF ValidateSelection
  <2>8. CASE ResolveProfileWrite
    BY <2>8, <1>4, <1>6 DEF ResolveProfileWrite
  <2>9. CASE AskClarification
    BY <2>9, <1>4 DEF AskClarification
  <2>10. CASE CreateConfirmation
    BY <2>10, <1>3, <1>4 DEF CreateConfirmation
  <2>11. CASE ExecuteReadTool
    BY <2>11, <1>9 DEF ExecuteReadTool
  <2>12. CASE LoadPendingActionConfirm
    BY <2>12, <1>5 DEF LoadPendingActionConfirm
  <2>13. CASE ExecuteWriteTool
    BY <2>13, <1>3, <1>4, <1>9 DEF ExecuteWriteTool
  <2>14. CASE LoadPendingActionCancel
    BY <2>14, <1>5 DEF LoadPendingActionCancel
  <2>15. CASE CancelPendingAction
    BY <2>15, <1>4 DEF CancelPendingAction
  <2>16. CASE FormatResponse
    BY <2>16, <1>3, <1>4 DEF FormatResponse, Formatted
  <2>17. CASE PersistConversation
    BY <2>17, <1>3 DEF PersistConversation
  <2>18. CASE NodeRaises
    BY <2>18, <1>3 DEF NodeRaises
  <2>19. CASE StepLimit
    BY <2>19, <1>3 DEF StepLimit
  <2>20. CASE Return
    BY <2>20, <1>3 DEF Return
  <2>. QED
    BY <1>1, <1>2, <2>1, <2>2, <2>3, <2>4, <2>5, <2>6, <2>7, <2>8, <2>9, <2>10, <2>11, <2>12, <2>13, <2>14, <2>15, <2>16, <2>17, <2>18, <2>19, <2>20 DEF Next

LEMMA Typing == TypeOK /\ Next => TypeOK'
<1>. SUFFICES ASSUME TypeOK, Next PROVE TypeOK'
  OBVIOUS
<1>0. state' \in GraphState
  BY StateTyping
<1>. USE DEF TypeOK, Nodes, Runs, To, Raises, effects
<1>1. CASE LoadConversation
  BY <1>0, <1>1 DEF LoadConversation
<1>2. CASE DetectTurnType
  BY <1>0, <1>2 DEF DetectTurnType, AfterTurnDetection
<1>3. CASE NormalizeQuery
  BY <1>0, <1>3 DEF NormalizeQuery
<1>4. CASE ClassifyQuery
  BY <1>0, <1>4 DEF ClassifyQuery, AfterClassification
<1>5. CASE RetrieveCandidates
  BY <1>0, <1>5 DEF RetrieveCandidates, UnlessAnswered
<1>6. CASE SelectTool
  BY <1>0, <1>6 DEF SelectTool, AfterSelection
<1>7. CASE MergeClarification
  BY <1>0, <1>7 DEF MergeClarification, AfterClarificationMerge
<1>8. CASE ResolveArguments
  BY <1>0, <1>8 DEF ResolveArguments, UnlessAnswered
<1>9. CASE ValidateSelection
  BY <1>0, <1>9 DEF ValidateSelection, AfterValidation
<1>10. CASE ResolveProfileWrite
  BY <1>0, <1>10 DEF ResolveProfileWrite, AfterProfileWrite
<1>11. CASE AskClarification
  BY <1>0, <1>11 DEF AskClarification
<1>12. CASE CreateConfirmation
  BY <1>0, <1>12 DEF CreateConfirmation
<1>13. CASE ExecuteReadTool
  BY <1>0, <1>13 DEF ExecuteReadTool
<1>14. CASE LoadPendingActionConfirm
  BY <1>0, <1>14 DEF LoadPendingActionConfirm
<1>15. CASE ExecuteWriteTool
  BY <1>0, <1>15 DEF ExecuteWriteTool
<1>16. CASE LoadPendingActionCancel
  BY <1>0, <1>16 DEF LoadPendingActionCancel
<1>17. CASE CancelPendingAction
  BY <1>0, <1>17 DEF CancelPendingAction
<1>18. CASE FormatResponse
  BY <1>0, <1>18 DEF FormatResponse
<1>19. CASE PersistConversation
  BY <1>0, <1>19 DEF PersistConversation
<1>20. CASE NodeRaises
  BY <1>0, <1>20 DEF NodeRaises
<1>21. CASE StepLimit
  BY <1>0, <1>21 DEF StepLimit
<1>22. CASE Return
  BY <1>0, <1>22 DEF Return
<1>. QED
  BY <1>1, <1>2, <1>3, <1>4, <1>5, <1>6, <1>7, <1>8, <1>9, <1>10, <1>11, <1>12, <1>13, <1>14, <1>15, <1>16, <1>17, <1>18, <1>19, <1>20, <1>21, <1>22 DEF Next

-----------------------------------------------------------------------------
(* Every node keeps the measure and the order                              *)

LEMMA InitIInv == Init => IInv
<1>. SUFFICES ASSUME Init PROVE IInv
  OBVIOUS
<1>1. state \in GraphState /\ ~state.switching /\ ~state.resumed
        /\ state.response = "none"
  BY DEF Init, GraphState, TurnTypes, WorkflowStatuses, ResponseTypes
<1>2. TypeOK
  BY <1>1 DEF Init, TypeOK, Nodes
<1>3. /\ node = "load_conversation" /\ steps = 0 /\ created = 0
      /\ ~claimed /\ ~executed /\ outcome = "running"
  BY DEF Init
<1>4. Left(node, state) = 13
  BY <1>3 DEF Left
<1>. QED
  BY <1>1, <1>2, <1>3, <1>4
     DEF IInv, Running, Measured, Ordered, Carded, Confirming, LongestTurn,
         Query, Tail, Answered, OneActionPerTurn, Ended, OnlyShortLimitsCut,
         WriteIsReported, CardIsShown, NoSilentTurn

LEMMA Stepping ==
  ASSUME IInv, Next
  PROVE  Running' /\ OneActionPerTurn'
<1>0. TypeOK /\ TypeOK' /\ state \in GraphState /\ state' \in GraphState
  BY Typing DEF IInv, TypeOK
<1>. USE DEF IInv, Running, Measured, Ordered, Carded, Confirming, Left,
             LongestTurn, Query, Tail, OneActionPerTurn, Runs, To, Raises,
             Answered, effects
<1>1. CASE LoadConversation
  <2>1. Same(state', state) /\ state'.response = state.response
    BY <1>0, <1>1, WithToolFields, ConversationFields
       DEF LoadConversation, Tools, Same
  <2>. QED
    BY <1>0, <1>1, <2>1 DEF LoadConversation, Same, TypeOK
<1>2. CASE DetectTurnType
  <2>. DEFINE Detected(t) == [state EXCEPT !.turnType = t]
  <2>1. \A t \in TurnTypes : /\ Detected(t) \in GraphState
                             /\ Same(Detected(t), state)
                             /\ Detected(t).response = state.response
                             /\ Detected(t).turnType = t
    BY <1>0, TurnTypeFields
  <2>2. \/ \E t \in TurnTypes : \/ state' = Detected(t)
                                \/ state' = Cleared(Detected(t))
        \/ \E t \in {"workflow_cancel", "profile_override_guard"},
              r \in ResponseTypes :
              \/ state' = Responds(Detected(t), r)
              \/ state' = Responds(Cleared(Detected(t)), r)
    BY <1>2 DEF DetectTurnType, Detectable, TurnTypes, ResponseTypes
  <2>. HIDE DEF Detected
  <2>3. Same(state', state)
    BY <2>1, <2>2, ClearedFields, RespondsFields DEF Same, TurnTypes
  <2>4. \/ state'.response = state.response
        \/ state'.turnType \in {"workflow_cancel", "profile_override_guard"}
    BY <2>1, <2>2, ClearedFields, RespondsFields DEF TurnTypes
  <2>5. \/ node' = "format_response"
        \/ /\ node' \in {"normalize_query", "merge_clarification",
                          "load_pending_action_confirm",
                          "load_pending_action_cancel"}
           /\ state'.response = state.response
    BY <1>2, <2>4 DEF DetectTurnType, AfterTurnDetection
  <2>. QED
    BY <1>0, <1>2, <2>3, <2>5 DEF DetectTurnType, Same, TypeOK
<1>3. CASE NormalizeQuery
  BY <1>0, <1>3 DEF NormalizeQuery, TypeOK
<1>4. CASE ClassifyQuery
  <2>1. /\ Same(state', state)
        /\ state'.response \in {state.response, "error"}
    <3>1. CASE \E b \in BOOLEAN :
                  state' = [state EXCEPT !.profileWrite = b]
      BY <1>0, <3>1 DEF Same, GraphState
    <3>2. CASE state' = WithTool(Fails(state, "error"), "none")
      BY <1>0, <3>2, FailsFields, WithToolFields
         DEF Same, ResponseTypes, Tools
    <3>. QED
      BY <1>4, <3>1, <3>2 DEF ClassifyQuery
  <2>. QED
    BY <1>0, <1>4, <2>1 DEF ClassifyQuery, AfterClassification, Same, TypeOK
<1>5. CASE RetrieveCandidates
  BY <1>0, <1>5 DEF RetrieveCandidates, UnlessAnswered, TypeOK
<1>6. CASE SelectTool
  BY <1>0, <1>6 DEF SelectTool, AfterSelection, TypeOK
<1>7. CASE MergeClarification
  <2>1. state'.resumed = state.resumed
    <3>1. CASE \E r \in ResponseTypes : state' = Responds(state, r)
      BY <1>0, <3>1, RespondsFields DEF Same
    <3>2. CASE \E b \in BOOLEAN : state' = [state EXCEPT !.switching = b]
      BY <1>0, <3>2 DEF GraphState
    <3>. QED
      BY <1>7, <3>1, <3>2 DEF MergeClarification, ResponseTypes
  <2>. QED
    BY <1>0, <1>7, <2>1
       DEF MergeClarification, AfterClarificationMerge, TypeOK
<1>8. CASE ResolveArguments
  BY <1>0, <1>8 DEF ResolveArguments, UnlessAnswered, TypeOK
<1>9. CASE ValidateSelection
  BY <1>0, <1>9 DEF ValidateSelection, AfterValidation, TypeOK
<1>10. CASE ResolveProfileWrite
  <2>1. CASE state' = Resume(state) /\ state.switching /\ created' = created
    BY <1>0, <1>10, <2>1, ResumeFields
       DEF ResolveProfileWrite, AfterProfileWrite, TypeOK
  <2>2. CASE \E r \in ResponseTypes : state' = Responds(state, r)
    <3>1. Same(state', state) /\ state'.response \in ResponseTypes
      BY <1>0, <2>2, RespondsFields
    <3>2. \/ created' = created
          \/ /\ created' = created + 1
             /\ state'.response = "confirmation_required"
      BY <1>0, <1>10, <2>2, RespondsFields
         DEF ResolveProfileWrite, ResponseTypes
    <3>3. created = 0 /\ ~claimed
      BY <1>0, <1>10 DEF ResolveProfileWrite, TypeOK
    <3>. QED
      BY <1>0, <1>10, <3>1, <3>2, <3>3
         DEF ResolveProfileWrite, AfterProfileWrite, Same, TypeOK, ResponseTypes
  <2>. QED
    BY <1>10, <2>1, <2>2 DEF ResolveProfileWrite, ResponseTypes
<1>11. CASE AskClarification
  BY <1>0, <1>11 DEF AskClarification, TypeOK
<1>12. CASE CreateConfirmation
  <2>1. created = 0 /\ ~claimed
    BY <1>0, <1>12 DEF CreateConfirmation, TypeOK
  <2>2. CASE state' = Responds(state, "confirmation_required")
    <3>1. Same(state', state) /\ state'.response = "confirmation_required"
      BY <1>0, <2>2, RespondsFields DEF ResponseTypes
    <3>. QED
      BY <1>0, <1>12, <2>1, <3>1 DEF CreateConfirmation, Same, TypeOK
  <2>3. CASE Raises
    BY <1>0, <1>12, <2>1, <2>3 DEF CreateConfirmation, TypeOK
  <2>. QED
    BY <1>12, <2>2, <2>3 DEF CreateConfirmation
<1>13. CASE ExecuteReadTool
  BY <1>0, <1>13 DEF ExecuteReadTool, TypeOK
<1>14. CASE LoadPendingActionConfirm
  BY <1>0, <1>14 DEF LoadPendingActionConfirm, TypeOK
<1>15. CASE ExecuteWriteTool
  BY <1>0, <1>15 DEF ExecuteWriteTool, TypeOK
<1>16. CASE LoadPendingActionCancel
  BY <1>0, <1>16 DEF LoadPendingActionCancel, TypeOK
<1>17. CASE CancelPendingAction
  BY <1>0, <1>17 DEF CancelPendingAction, TypeOK
<1>18. CASE FormatResponse
  <2>1. /\ Same(state', state)
        /\ state'.response # "none"
        /\ Answered(state) => state'.response = state.response
    BY <1>0, <1>18, RespondsFields
       DEF FormatResponse, Formatted, Same, ResponseTypes
  <2>. QED
    BY <1>0, <1>18, <2>1 DEF FormatResponse, Same, TypeOK
<1>19. CASE PersistConversation
  BY <1>0, <1>19 DEF PersistConversation, TypeOK
<1>20. CASE NodeRaises
  BY <1>0, <1>20 DEF NodeRaises, TypeOK
<1>21. CASE StepLimit
  BY <1>0, <1>21 DEF StepLimit, TypeOK
<1>22. CASE Return
  BY <1>0, <1>22 DEF Return, TypeOK
<1>. QED
  BY <1>1, <1>2, <1>3, <1>4, <1>5, <1>6, <1>7, <1>8, <1>9, <1>10, <1>11, <1>12, <1>13, <1>14, <1>15, <1>16, <1>17, <1>18, <1>19, <1>20, <1>21, <1>22 DEF Next

\* What holds when the turn ends follows from what held while it ran.
LEMMA Ending ==
  ASSUME IInv, Next
  PROVE  Ended'
<1>0. TypeOK /\ TypeOK'
  BY Typing DEF IInv
<1>1. outcome = "running" /\ Measured /\ Ordered /\ Carded /\ Confirming
  BY DEF IInv, Running, Next, LoadConversation, DetectTurnType,
         NormalizeQuery, ClassifyQuery, RetrieveCandidates, SelectTool,
         MergeClarification, ResolveArguments, ValidateSelection,
         ResolveProfileWrite, AskClarification, CreateConfirmation,
         ExecuteReadTool, LoadPendingActionConfirm, ExecuteWriteTool,
         LoadPendingActionCancel, CancelPendingAction, FormatResponse,
         PersistConversation, NodeRaises, StepLimit, Return, Runs
<1>2. Left(node, state) \in Nat
  BY <1>0 DEF Left, TypeOK
<1>3. CASE StepLimit
  <2>1. steps <= LongestTurn /\ (claimed => steps <= 6)
    BY <1>0, <1>1, <1>2 DEF Measured, Confirming, LongestTurn, TypeOK
  <2>2. executed => claimed
    BY DEF IInv, OneActionPerTurn
  <2>3. limit \in Nat /\ steps \in Nat
    BY <1>0, LimitsAssumption DEF TypeOK
  <2>. QED
    BY <1>1, <1>3, <2>1, <2>2, <2>3
       DEF StepLimit, effects, Ended, OnlyShortLimitsCut, WriteIsReported,
           CardIsShown, NoSilentTurn, LongestTurn
<1>4. CASE Return
  BY <1>1, <1>4
     DEF Return, Ended, OnlyShortLimitsCut, WriteIsReported, CardIsShown,
         NoSilentTurn, Ordered, Carded, Answered, effects
<1>5. CASE ~StepLimit /\ ~Return
  <2>1. outcome' \in {"running", "raised"}
    BY <1>1, <1>5
       DEF Next, LoadConversation, DetectTurnType, NormalizeQuery,
           ClassifyQuery, RetrieveCandidates, SelectTool, MergeClarification,
           ResolveArguments, ValidateSelection, ResolveProfileWrite,
           AskClarification, CreateConfirmation, ExecuteReadTool,
           LoadPendingActionConfirm, ExecuteWriteTool,
           LoadPendingActionCancel, CancelPendingAction, FormatResponse,
           PersistConversation, NodeRaises, To, Raises
  <2>. QED
    BY <2>1 DEF Ended, OnlyShortLimitsCut, WriteIsReported, CardIsShown,
                NoSilentTurn
<1>. QED
  BY <1>3, <1>4, <1>5

LEMMA Inductive == IInv /\ [Next]_vars => IInv'
<1>. SUFFICES ASSUME IInv, [Next]_vars PROVE IInv'
  OBVIOUS
<1>1. CASE Next
  BY <1>1, Typing, Stepping, Ending DEF IInv
<1>2. CASE UNCHANGED vars
  BY <1>2
     DEF vars, effects, IInv, TypeOK, Running, Measured, Ordered, Carded,
         Confirming, OneActionPerTurn, Ended, OnlyShortLimitsCut,
         WriteIsReported, CardIsShown, NoSilentTurn
<1>. QED
  BY <1>1, <1>2

LEMMA Invariance == Spec => []IInv
BY InitIInv, Inductive, PTL DEF Spec

-----------------------------------------------------------------------------
(* Theorems                                                                *)

\* The graph state keeps its shape (ChatGraphState).
THEOREM StateIsTyped == Spec => []TypeOK
<1>1. IInv => TypeOK
  BY DEF IInv
<1>. QED
  BY Invariance, <1>1, PTL

\* No turn needs more than LongestTurn nodes: whatever limit above that is
\* configured, the cycle through resolve_profile_write never exhausts it.
THEOREM TurnsAreShort == Spec => []OnlyShortLimitsCut
<1>1. IInv => OnlyShortLimitsCut
  BY DEF IInv, Ended
<1>. QED
  BY Invariance, <1>1, PTL

\* Under a limit of 8 or more, no turn is cut off between executing a
\* confirmed write and reporting it.
THEOREM WritesAreReported == Spec => []WriteIsReported
<1>1. IInv => WriteIsReported
  BY DEF IInv, Ended
<1>. QED
  BY Invariance, <1>1, PTL

\* A turn creates one action at most and never next to one it executes.
THEOREM ActionsAreSingle == Spec => []OneActionPerTurn
<1>1. IInv => OneActionPerTurn
  BY DEF IInv
<1>. QED
  BY Invariance, <1>1, PTL

\* The answer of a turn that created an action is its card, but for the one
\* case CardIsShown names.
THEOREM CardsAreShown == Spec => []CardIsShown
<1>1. IInv => CardIsShown
  BY DEF IInv, Ended
<1>. QED
  BY Invariance, <1>1, PTL

\* Every turn that returns has an answer, and has stored it.
THEOREM TurnsAnswer == Spec => []NoSilentTurn
<1>1. IInv => NoSilentTurn
  BY DEF IInv, Ended
<1>. QED
  BY Invariance, <1>1, PTL
=============================================================================
