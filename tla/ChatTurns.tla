----------------------------- MODULE ChatTurns -----------------------------
(***************************************************************************)
(* One conversation and the requests that work on it at the same time: chat*)
(* turns (the nodes of orchestration/graph.py that touch the database) and *)
(* the reset endpoint (api/routers/conversations.py).                      *)
(*                                                                         *)
(* A turn reads the conversation once, in load_conversation_node, and      *)
(* decides from that copy.  Every later change reads the row again and     *)
(* writes it if its version has not moved (ConversationService.update).    *)
(* Between any two of its steps other turns run.                           *)
(*                                                                         *)
(* The pending actions are those of ActionLifecycle, which PendingActions  *)
(* and WriteExecution implement: an operation of PendingActionService is   *)
(* one step here.  There is no clock: whether a deadline or a lease has    *)
(* passed is open at every step that asks.                                 *)
(***************************************************************************)
EXTENDS Integers

CONSTANTS
    NumActions,         \* bound: actions created in the conversation's life
    Turns,              \* the requests, each handled once
    NoAction            \* "no card"

ASSUME NumActionsAssumption == NumActions \in Nat
ASSUME NoActionAssumption == NoAction \notin Nat

\* Actions are numbered in the order of their created_at.
Actions == 1 .. NumActions

VARIABLES
    status, carriedOut, \* the actions: see ActionLifecycle
    conv,               \* the conversation row
    turn                \* turn[t]: the request t

vars == <<status, carriedOut, conv, turn>>

Lifecycle == INSTANCE ActionLifecycle

-----------------------------------------------------------------------------
(* The data                                                                *)

Awaiting == {"awaiting_clarification", "awaiting_confirmation"}

ConversationStatuses ==
    Awaiting \cup {"none", "active", "completed", "failed", "cancelled",
                   "expired"}

Card == Actions \cup {NoAction}

\* card is workflow_data["pending_action_id"].
Conversation == [status : ConversationStatuses, version : Nat, card : Card]

NoConversation == [status |-> "none", version |-> 0, card |-> NoAction]

Kinds == {"message", "confirm", "cancel", "cancel_workflow", "reset"}

Places == {"new", "load", "expire", "drop", "work", "claim", "execute",
           "finish", "find", "withdraw", "select", "discard", "reload",
           "write", "done"}

Answers == {"none", "reply", "question", "card", "completed", "failed",
            "cancelled", "stopped", "reset", "error", "lost"}

\* loaded: the copy the turn decides from.  base: the row as read for the
\* next write.  plan: what that write will store, and how the turn goes on.
Turn == [at        : Places,
         kind      : Kinds,
         action    : Card,
         loaded    : Conversation,
         base      : Conversation,
         plan      : [status : ConversationStatuses, card : Card,
                      then : Answers \cup {"work"}],
         result    : {"none", "success", "failure"},
         resumed   : BOOLEAN,
         answer    : Answers]

NoPlan == [status |-> "none", card |-> NoAction, then |-> "none"]

NewTurn == [at |-> "new", kind |-> "message", action |-> NoAction,
            loaded |-> NoConversation, base |-> NoConversation,
            plan |-> NoPlan, result |-> "none", resumed |-> FALSE,
            answer |-> "none"]

TypeOK ==
    /\ Lifecycle!TypeOK
    /\ conv \in Conversation
    /\ turn \in [Turns -> Turn]

Init ==
    /\ Lifecycle!Init
    /\ conv = NoConversation
    /\ turn = [t \in Turns |-> NewTurn]

-----------------------------------------------------------------------------
(* How a turn proceeds                                                     *)

actionVars == <<status, carriedOut>>

At(t, place) == turn[t].at = place

Goto(t, place) == turn' = [turn EXCEPT ![t].at = place]

\* The turn ends; base and plan are forgotten.
Answer(t, answer) ==
    turn' = [turn EXCEPT ![t].at = "done", ![t].answer = answer,
                         ![t].base = NoConversation, ![t].plan = NoPlan]

Fail(t) == Answer(t, "error")

\* "load_owned, then update": the two transactions of every change.
Change(t, to, card, then) ==
    turn' = [turn EXCEPT ![t].at = "reload",
                         ![t].plan = [status |-> to, card |-> card,
                                      then |-> then]]

\* A request arrives.  The client names the action: any one.
Arrive(t) ==
    /\ At(t, "new")
    /\ \E kind \in Kinds, a \in Card :
          /\ (a # NoAction) = (kind \in {"confirm", "cancel"})
          /\ turn' = [turn EXCEPT ![t].kind = kind,
                                  ![t].action = a,
                                  ![t].at = IF kind = "reset"
                                            THEN "select" ELSE "load"]
    /\ UNCHANGED <<actionVars, conv>>

-----------------------------------------------------------------------------
(* load_conversation_node and detect_turn_type_node                        *)

\* What detect_turn_type_node decides from the copy it was given.
Detect(t, c) ==
    LET kind == turn[t].kind
        On(place) == turn' = [turn EXCEPT ![t].loaded = c, ![t].at = place]
        Then(to, then) ==
            turn' = [turn EXCEPT ![t].loaded = c, ![t].at = "reload",
                                 ![t].plan = [status |-> to,
                                              card |-> NoAction,
                                              then |-> then]]
    IN  \/ kind = "confirm" /\ On("claim")
        \/ kind = "cancel" /\ On("find")
        \/ kind = "cancel_workflow" /\ c.status \in Awaiting
              /\ Then("active", "stopped")
        \/ kind = "cancel_workflow" /\ c.status \notin Awaiting
              /\ turn' = [turn EXCEPT ![t].loaded = c, ![t].at = "done",
                                      ![t].answer = "stopped"]
        \* The message answers the question, cancels the workflow, starts a
        \* new query, or is held back because a profile draft is unsaved.
        \/ kind = "message" /\ c.status = "awaiting_clarification"
              /\ \/ On("work")
                 \/ Then("active", "stopped")
                 \/ Then("active", "work")
                 \/ Then("awaiting_clarification", "question")
        \/ kind = "message" /\ c.status = "awaiting_confirmation"
              /\ On("drop")
        \/ kind = "message" /\ c.status \notin Awaiting /\ On("work")

\* load_or_create.  A conversation that awaits an answer may have expired.
Load(t) ==
    /\ At(t, "load")
    /\ \/ /\ conv.status = "none"
          /\ conv' = [status |-> "active", version |-> 1, card |-> NoAction]
          /\ Detect(t, conv')
       \/ /\ conv.status # "none"
          /\ \/ Detect(t, conv)
             \/ conv.status \in Awaiting /\ Goto(t, "expire")
          /\ UNCHANGED conv
    /\ UNCHANGED actionVars

\* The flush of load_or_create: neither the version nor the status that was
\* read is compared, and the version stays.
ExpireConversation(t) ==
    /\ At(t, "expire")
    /\ conv' = [conv EXCEPT !.status = "expired", !.card = NoAction]
    /\ Fail(t)
    /\ UNCHANGED actionVars

\* Mutation of DropCard: the action of the card is left alone.
DropCardOnly(t) ==
    /\ At(t, "drop")
    /\ Change(t, "active", NoAction, "work")
    /\ UNCHANGED <<actionVars, conv>>

\* A new query while a card is open: cancel the card's action and ignore any
\* PendingActionError, then clear the workflow.
DropCard(t) ==
    LET a == turn[t].loaded.card
    IN  /\ At(t, "drop")
        /\ \/ Lifecycle!Cancel(a)
           \/ Lifecycle!Expire(a)
           \/ status[a] # "pending" /\ UNCHANGED actionVars
        /\ Change(t, "active", NoAction, "work")
        /\ UNCHANGED conv

-----------------------------------------------------------------------------
(* ConversationService.update                                              *)

\* load_owned.
Reload(t) ==
    /\ At(t, "reload")
    /\ \/ /\ conv.status # "none"
          /\ turn' = [turn EXCEPT ![t].base = conv, ![t].at = "write"]
       \/ conv.status = "none" /\ Fail(t)
    /\ UNCHANGED <<actionVars, conv>>

\* Mutation of VersionMatches: update_state without its expected_version.
AnyVersion(t) == TRUE

\* update_state: the version must be the one that was read.
VersionMatches(t) == conv.version = turn[t].base.version

Write(t) ==
    LET plan == turn[t].plan
    IN  /\ At(t, "write")
        /\ \/ /\ VersionMatches(t)
              /\ conv' = [status  |-> plan.status,
                          version |-> conv.version + 1,
                          card    |-> plan.card]
              /\ \/ /\ plan.then = "work"
                    /\ turn' = [turn EXCEPT ![t].at = "work",
                                            ![t].plan = NoPlan,
                                            ![t].base = NoConversation]
                 \/ plan.then # "work" /\ Answer(t, plan.then)
           \/ ~VersionMatches(t) /\ Fail(t) /\ UNCHANGED conv
        /\ UNCHANGED actionVars

-----------------------------------------------------------------------------
(* The rest of a message turn                                              *)

\* Routing, slot filling and reading end in one of: an answer that leaves the
\* conversation alone, a question, the result of a read tool, a workflow that
\* is closed, or, once, the query that was deferred by an unsaved draft.
Work(t) ==
    /\ At(t, "work")
    /\ \/ Answer(t, "reply")
       \/ Change(t, "awaiting_clarification", NoAction, "question")
       \/ \E to \in {"active", "completed", "failed", "cancelled"} :
             Change(t, to, NoAction, "reply")
       \/ /\ turn[t].loaded.status = "awaiting_clarification"
          /\ ~turn[t].resumed
          /\ turn' = [turn EXCEPT ![t].resumed = TRUE,
                                  ![t].at = "reload",
                                  ![t].plan = [status |-> "active",
                                               card   |-> NoAction,
                                               then   |-> "work"]]
    /\ UNCHANGED <<actionVars, conv>>

\* Mutation of CreateAction: the conversation points to an action that is
\* not created yet.
PointFirst(t) ==
    /\ At(t, "work")
    /\ \E a \in Actions : Change(t, "awaiting_confirmation", a, "card")
    /\ UNCHANGED <<actionVars, conv>>

\* create_confirmation_node, and the end of resolve_profile_write_node: the
\* action is created first, the conversation points to it afterwards.
CreateAction(t) ==
    /\ At(t, "work")
    /\ \E a \in Actions :
          /\ \A b \in Actions : b < a => status[b] # "absent"
          /\ Lifecycle!Create(a)
          /\ Change(t, "awaiting_confirmation", a, "card")
    /\ UNCHANGED conv

-----------------------------------------------------------------------------
(* A confirm turn                                                          *)

\* claim_execution.  The conversation's status and card are not looked at.
Claim(t) ==
    LET a == turn[t].action
    IN  /\ At(t, "claim")
        /\ \/ Lifecycle!Confirm(a) /\ Goto(t, "execute")
           \/ Lifecycle!Expire(a) /\ Fail(t)
           \/ /\ status[a] = "executing"
              /\ Goto(t, "execute")
              /\ UNCHANGED actionVars
           \/ status[a] # "pending" /\ Fail(t) /\ UNCHANGED actionVars
        /\ UNCHANGED conv

\* Odoo carries the action out, while it is waited for or later.
CarryOut(a) ==
    /\ Lifecycle!CarryOut(a)
    /\ UNCHANGED <<conv, turn>>

\* The node learns the outcome, or raises and leaves the action executing.
Execute(t) ==
    /\ At(t, "execute")
    /\ \/ /\ turn[t].action \in carriedOut
          /\ turn' = [turn EXCEPT ![t].at = "finish", ![t].result = "success"]
       \/ turn' = [turn EXCEPT ![t].at = "finish", ![t].result = "failure"]
       \/ Fail(t)
    /\ UNCHANGED <<actionVars, conv>>

\* Mutation of FinishAction: the answer follows the result of the call, even
\* when another executor has ended the action.
FinishUnchecked(t) ==
    LET a == turn[t].action
    IN  /\ At(t, "finish")
        /\ \/ /\ turn[t].result = "success"
              /\ \/ Lifecycle!Execute(a)
                 \/ status[a] # "executing" /\ UNCHANGED actionVars
              /\ Change(t, "completed", NoAction, "completed")
           \/ /\ turn[t].result = "failure"
              /\ Lifecycle!Fail(a)
              /\ Change(t, "failed", NoAction, "failed")
        /\ UNCHANGED conv

\* Mutation of FinishAction: the action's status is stored as the
\* conversation's.
FinishWithActionStatus(t) ==
    LET a == turn[t].action
    IN  /\ At(t, "finish")
        /\ Lifecycle!Execute(a)
        /\ Change(t, "executed", NoAction, "completed")
        /\ UNCHANGED conv

\* finish: conditional on the action being executed still.
FinishAction(t) ==
    LET a == turn[t].action
    IN  /\ At(t, "finish")
        /\ \/ /\ turn[t].result = "success"
              /\ Lifecycle!Execute(a)
              /\ Change(t, "completed", NoAction, "completed")
           \/ /\ turn[t].result = "failure"
              /\ Lifecycle!Fail(a)
              /\ \/ Change(t, "failed", NoAction, "failed")
                 \/ Change(t, "awaiting_clarification", NoAction, "failed")
           \/ status[a] # "executing" /\ Fail(t) /\ UNCHANGED actionVars
        /\ UNCHANGED conv

-----------------------------------------------------------------------------
(* A cancel turn, and reset                                                *)

\* load_owned of load_pending_action_cancel_node.
Find(t) ==
    LET a == turn[t].action
    IN  /\ At(t, "find")
        /\ \/ Lifecycle!Expire(a) /\ Fail(t)
           \/ status[a] = "absent" /\ Fail(t) /\ UNCHANGED actionVars
           \/ /\ status[a] # "absent"
              /\ Goto(t, "withdraw")
              /\ UNCHANGED actionVars
        /\ UNCHANGED conv

\* Mutation of Withdraw: an action that has moved on is reported cancelled.
WithdrawUnchecked(t) ==
    LET a == turn[t].action
    IN  /\ At(t, "withdraw")
        /\ \/ Lifecycle!Cancel(a)
           \/ status[a] # "pending" /\ UNCHANGED actionVars
        /\ Change(t, "cancelled", NoAction, "cancelled")
        /\ UNCHANGED conv

\* cancel_pending_action_node.
Withdraw(t) ==
    LET a == turn[t].action
    IN  /\ At(t, "withdraw")
        /\ \/ /\ Lifecycle!Cancel(a)
              /\ Change(t, "cancelled", NoAction, "cancelled")
           \/ Lifecycle!Expire(a) /\ Fail(t)
           \/ status[a] # "pending" /\ Fail(t) /\ UNCHANGED actionVars
        /\ UNCHANGED conv

\* cancel_for_conversation looks at the newest active action only.
Active == {a \in Actions : status[a] \in {"pending", "executing"}}

SelectNewest(t) ==
    /\ At(t, "select")
    /\ \/ /\ Active = {}
          /\ Change(t, "cancelled", NoAction, "reset")
       \/ \E a \in Active :
             /\ \A b \in Active : b <= a
             /\ \/ status[a] = "executing" /\ Fail(t)
                \/ /\ status[a] = "pending"
                   /\ turn' = [turn EXCEPT ![t].action = a,
                                           ![t].at = "discard"]
    /\ UNCHANGED <<actionVars, conv>>

Discard(t) ==
    LET a == turn[t].action
    IN  /\ At(t, "discard")
        /\ \/ /\ Lifecycle!Cancel(a)
              /\ Change(t, "cancelled", NoAction, "reset")
           \/ status[a] # "pending" /\ Fail(t) /\ UNCHANGED actionVars
        /\ UNCHANGED conv

-----------------------------------------------------------------------------

\* The client hangs up, or the process dies.
Crash(t) ==
    /\ turn[t].at \notin {"new", "done"}
    /\ Answer(t, "lost")
    /\ UNCHANGED <<actionVars, conv>>

Next ==
    \/ \E t \in Turns :
          \/ Arrive(t)
          \/ Load(t)
          \/ ExpireConversation(t)
          \/ DropCard(t)
          \/ Reload(t)
          \/ Write(t)
          \/ Work(t)
          \/ CreateAction(t)
          \/ Claim(t)
          \/ Execute(t)
          \/ FinishAction(t)
          \/ Find(t)
          \/ Withdraw(t)
          \/ SelectNewest(t)
          \/ Discard(t)
          \/ Crash(t)
    \/ \E a \in Actions : CarryOut(a)

Spec == Init /\ [][Next]_vars

-----------------------------------------------------------------------------
(* Properties                                                              *)

\* A card on display has an action behind it: whatever turns, crashes and
\* conflicts came in between, a conversation awaits the confirmation of an
\* action that exists and, if it was carried out, was confirmed
\* (create_confirmation_node creates before it points).
CardBacked ==
    conv.status = "awaiting_confirmation"
        => /\ conv.card \in Actions
           /\ status[conv.card] # "absent"
           /\ conv.card \in carriedOut
                => status[conv.card] \in {"executing", "executed", "failed"}

\* Once a new query has got past the open card it found, that card cannot be
\* confirmed any more, whether its cancellation succeeded or raised
\* (detect_turn_type_node).
NewQueryDisarmsCard ==
    \A t \in Turns :
        LET u == turn[t]
        IN  /\ u.kind = "message"
            /\ u.loaded.status = "awaiting_confirmation"
            /\ \/ u.at \in {"work", "reload", "write"}
               \/ u.at = "done" /\ u.answer # "lost"
            => status[u.loaded.card] # "pending"

\* "The operation has been cancelled" is said only of an action Odoo has not
\* carried out and never will (cancel_pending_action_node).
CancelAnswerIsTrue ==
    \A t \in Turns :
        turn[t].answer = "cancelled"
            => /\ status[turn[t].action] = "cancelled"
               /\ turn[t].action \notin carriedOut

\* A turn reports success only of an action that is recorded as executed and
\* exists in Odoo, even if another executor finished first
\* (execute_write_tool_node).
CompletedIsExecuted ==
    \A t \in Turns :
        turn[t].answer = "completed"
            => /\ status[turn[t].action] = "executed"
               /\ turn[t].action \in carriedOut

\* A write replaces the conversation its turn has read, or one that was
\* marked expired in between, which does not move the version: no other
\* change is ever overwritten unseen (update_state's expected_version).
NoLostUpdate ==
    [][\A t \in Turns :
          At(t, "write") /\ conv' # conv /\ turn'[t] # turn[t]
              => \/ conv = turn[t].base
                 \/ conv.status = "expired"]_vars
=============================================================================
