-------------------------- MODULE ChatTurns_proofs --------------------------
(***************************************************************************)
(* Proofs about ChatTurns, for any number of requests and of actions.      *)
(*                                                                         *)
(* A turn decides from a copy of the conversation and acts later, so the   *)
(* invariant says what remains true, for as long as the turn runs, of what *)
(* it has read: the action of a card it has seen exists, an outcome it is  *)
(* about to report stays one, and the row it will replace is the one it    *)
(* read unless the version tells otherwise.  None of this can be undone by *)
(* the other turns because actions only move forward (Forward) and the     *)
(* version of the conversation never goes back (Newer).                    *)
(***************************************************************************)
EXTENDS ChatTurns, TLAPS

Exists(a) == a \in Actions /\ status[a] # "absent"

\* ActionLifecycle's promise, as an invariant.
ActionInv ==
    /\ Lifecycle!TypeOK
    /\ \A a \in carriedOut : status[a] \in {"executing", "executed", "failed"}

\* A conversation is not there, with no version yet, or its card is backed.
ConvInv ==
    /\ conv.status = "awaiting_confirmation" => Exists(conv.card)
    /\ conv.status = "none" => conv.version = 0

\* Where a turn can be, and what it has not done yet.
PlaceInv(t) ==
    LET u == turn[t]
    IN  /\ u.at \in {"claim", "execute", "finish"} => u.kind = "confirm"
        /\ u.at \in {"find", "withdraw"} => u.kind = "cancel"
        /\ u.at \in {"select", "discard"} => u.kind = "reset"
        /\ u.kind \in {"confirm", "cancel"} \/ u.at = "discard"
              => u.action \in Actions
        /\ u.at \in {"new", "load", "expire"} => u.loaded.status = "none"
        /\ u.at = "drop" => u.loaded.status = "awaiting_confirmation"
        /\ u.at \notin {"reload", "write"} => u.plan.then = "none"
        /\ u.at \in {"reload", "write"} => u.plan.status # "none"
        /\ u.at # "done" => u.answer = "none"

\* The cards it has read and will write have an action behind them.
CardInv(t) ==
    LET u == turn[t]
    IN  /\ u.loaded.status = "awaiting_confirmation" => Exists(u.loaded.card)
        /\ u.plan.status = "awaiting_confirmation" => Exists(u.plan.card)

\* What it says, or is about to say, of its action is so.
OutcomeInv(t) ==
    LET u == turn[t]
    IN  /\ u.at = "finish" /\ u.result = "success" => u.action \in carriedOut
        /\ u.plan.then = "completed" \/ u.answer = "completed"
              => /\ u.action \in carriedOut
                 /\ u.action \in Actions
                 /\ status[u.action] = "executed"
        /\ u.plan.then = "cancelled" \/ u.answer = "cancelled"
              => u.action \in Actions /\ status[u.action] = "cancelled"

\* The part of NewQueryDisarmsCard that is about t.
DisarmInv(t) ==
    LET u == turn[t]
    IN  /\ u.kind = "message"
        /\ u.loaded.status = "awaiting_confirmation"
        /\ \/ u.at \in {"work", "reload", "write"}
           \/ u.at = "done" /\ u.answer # "lost"
        => status[u.loaded.card] # "pending"

\* The row may have changed since it was read for the next write, but then
\* the version shows it, or it has expired.
BaseInv(t) ==
    LET base == turn[t].base
    IN  At(t, "write") => /\ conv.status # "none"
                          /\ base.version <= conv.version
                          /\ base.version = conv.version
                                => base = conv \/ conv.status = "expired"

TurnInv(t) ==
    PlaceInv(t) /\ CardInv(t) /\ OutcomeInv(t) /\ DisarmInv(t) /\ BaseInv(t)

ChatIInv ==
    /\ TypeOK
    /\ ActionInv
    /\ ConvInv
    /\ \A t \in Turns : TurnInv(t)

LEMMA InitChatIInv == Init => ChatIInv
  <1> SUFFICES ASSUME Init PROVE ChatIInv
    OBVIOUS
  <1>1. Lifecycle!TypeOK /\ conv \in Conversation
    BY DEF Init, Lifecycle!Init, Lifecycle!TypeOK, Lifecycle!Statuses,
           NoConversation, Conversation, ConversationStatuses, Card
  <1>2. NewTurn \in Turn
    BY DEF NewTurn, Turn, NoPlan, NoConversation, Conversation, Places, Kinds,
           Answers, ConversationStatuses, Card
  <1>3. TypeOK
    BY <1>1, <1>2 DEF TypeOK, Init
  <1>4. ActionInv /\ ConvInv
    BY <1>1 DEF Init, ActionInv, ConvInv, Lifecycle!Init, NoConversation
  <1>5. \A t \in Turns : TurnInv(t)
    BY DEF Init, TurnInv, PlaceInv, CardInv, OutcomeInv, DisarmInv, BaseInv,
           NewTurn, NoPlan, NoConversation, At
  <1> QED
    BY <1>3, <1>4, <1>5 DEF ChatIInv

-----------------------------------------------------------------------------
(* Actions move forward                                                    *)

\* What the actions of a later state keep of those of an earlier one.
Forward ==
    /\ \A a \in Actions :
          /\ status[a] # "absent" => status'[a] # "absent"
          /\ status[a] \notin {"absent", "pending"} => status'[a] # "pending"
          /\ status[a] \in Lifecycle!Terminal => status'[a] = status[a]
    /\ carriedOut \subseteq carriedOut'

LEMMA ActionsMoveForward ==
    ASSUME ActionInv, [Lifecycle!Next]_actionVars
    PROVE  ActionInv' /\ Forward
  <1>1. CASE UNCHANGED actionVars
    BY <1>1 DEF ActionInv, Forward, actionVars, Lifecycle!TypeOK
  <1>2. ASSUME NEW a \in Actions, NEW from \in Lifecycle!Statuses,
               NEW to \in Lifecycle!Statuses, Lifecycle!Move(a, from, to),
               from \notin Lifecycle!Terminal, to \notin {"absent", from},
               to = "pending" => from = "absent",
               from = "executing" => to \in {"executed", "failed"}
        PROVE  ActionInv' /\ Forward
    <2>1. /\ status' = [status EXCEPT ![a] = to] /\ status[a] = from
          /\ carriedOut' = carriedOut
      BY <1>2 DEF Lifecycle!Move
    <2>2. Lifecycle!TypeOK'
      BY <1>2, <2>1 DEF ActionInv, Lifecycle!TypeOK
    <2>3. Forward
      BY <1>2, <2>1 DEF Forward, ActionInv, Lifecycle!TypeOK
    <2>4. \A b \in carriedOut' :
             status'[b] \in {"executing", "executed", "failed"}
      BY <1>2, <2>1 DEF ActionInv, Lifecycle!TypeOK, Lifecycle!Terminal
    <2> QED
      BY <2>2, <2>3, <2>4 DEF ActionInv
  <1>3. ASSUME NEW a \in Actions, Lifecycle!CarryOut(a)
        PROVE  ActionInv' /\ Forward
    BY <1>3 DEF Lifecycle!CarryOut, ActionInv, Forward, Lifecycle!TypeOK
  <1>4. ASSUME NEW a \in Actions,
               \/ Lifecycle!Create(a)
               \/ Lifecycle!Confirm(a)
               \/ Lifecycle!Cancel(a)
               \/ Lifecycle!Expire(a)
               \/ Lifecycle!Fail(a)
               \/ Lifecycle!Execute(a)
        PROVE  ActionInv' /\ Forward
    BY <1>2, <1>4
       DEF Lifecycle!Create, Lifecycle!Confirm, Lifecycle!Cancel,
           Lifecycle!Expire, Lifecycle!Fail, Lifecycle!Execute,
           Lifecycle!Statuses, Lifecycle!Terminal
  <1> QED
    BY <1>1, <1>3, <1>4 DEF Lifecycle!Next

-----------------------------------------------------------------------------
(* Turns that look on                                                      *)

\* How the conversation changes: its version grows, or else the row is the
\* same, is created, or expires.
Newer ==
    /\ conv.status # "none" => conv'.status # "none"
    /\ conv'.version >= conv.version
    /\ conv'.version = conv.version
          => conv' = conv \/ conv.status = "none" \/ conv'.status = "expired"

LEMMA BystanderKeeps ==
    ASSUME TypeOK, TypeOK', Forward, Newer, NEW t \in Turns, TurnInv(t),
           turn'[t] = turn[t]
    PROVE  TurnInv(t)'
  <1>1. turn[t] \in Turn
    BY DEF TypeOK
  <1>2. PlaceInv(t)'
    BY DEF TurnInv, PlaceInv
  <1>3. CardInv(t)'
    BY DEF TurnInv, CardInv, Exists, Forward
  <1>4. OutcomeInv(t)'
    BY DEF TurnInv, OutcomeInv, Forward, Lifecycle!Terminal
  <1>5. DisarmInv(t)'
    BY DEF TurnInv, DisarmInv, CardInv, Exists, Forward
  <1>6. BaseInv(t)'
    <2>1. turn[t].base.version \in Nat /\ conv.version \in Nat
          /\ conv'.version \in Nat
      BY <1>1 DEF Turn, TypeOK, Conversation
    <2> QED
      BY <2>1 DEF TurnInv, BaseInv, At, Newer
  <1> QED
    BY <1>2, <1>3, <1>4, <1>5, <1>6 DEF TurnInv

\* A step of t keeps the invariant if it is one of the lifecycle, if it
\* leaves the other turns alone and the conversation no older, and if what t
\* knows afterwards is so.
LEMMA TurnStepKeeps ==
    ASSUME ChatIInv, NEW t \in Turns, [Lifecycle!Next]_actionVars,
           conv' \in Conversation, ConvInv', Newer,
           turn' \in [Turns -> Turn],
           \A v \in Turns \ {t} : turn'[v] = turn[v],
           TurnInv(t)'
    PROVE  ChatIInv'
  <1>1. ActionInv' /\ Forward
    BY ActionsMoveForward DEF ChatIInv
  <1>2. TypeOK /\ TypeOK'
    BY <1>1 DEF ActionInv, TypeOK, ChatIInv
  <1>3. \A v \in Turns : TurnInv(v)'
    BY <1>1, <1>2, BystanderKeeps DEF ChatIInv
  <1> QED
    BY <1>1, <1>2, <1>3 DEF ChatIInv

-----------------------------------------------------------------------------
(* The ways a turn proceeds                                                *)

\* What every way of proceeding leaves as it was.
Frame(t) ==
    /\ turn' \in [Turns -> Turn]
    /\ \A v \in Turns \ {t} : turn'[v] = turn[v]
    /\ turn'[t].kind = turn[t].kind
    /\ turn'[t].action = turn[t].action
    /\ turn'[t].loaded = turn[t].loaded

LEMMA TurnFields ==
    ASSUME TypeOK, NEW t \in Turns
    PROVE  /\ turn[t] \in Turn
           /\ turn[t].loaded \in Conversation /\ turn[t].base \in Conversation
           /\ turn[t].plan.status \in ConversationStatuses
           /\ turn[t].plan.card \in Card
           /\ turn[t].plan.then \in Answers \cup {"work"}
           /\ turn[t].action \in Card
  BY DEF TypeOK, Turn

LEMMA GotoEffect ==
    ASSUME TypeOK, NEW t \in Turns, NEW place \in Places, Goto(t, place)
    PROVE  /\ Frame(t)
           /\ turn'[t].at = place
           /\ turn'[t].base = turn[t].base /\ turn'[t].plan = turn[t].plan
           /\ turn'[t].result = turn[t].result
           /\ turn'[t].answer = turn[t].answer
  BY DEF TypeOK, Turn, Goto, Frame

LEMMA AnswerEffect ==
    ASSUME TypeOK, NEW t \in Turns, NEW answer \in Answers, Answer(t, answer)
    PROVE  /\ Frame(t)
           /\ turn'[t].at = "done" /\ turn'[t].answer = answer
           /\ turn'[t].base = NoConversation /\ turn'[t].plan = NoPlan
  <1>1. NoConversation \in Conversation
    BY DEF NoConversation, Conversation, ConversationStatuses, Card
  <1>2. NoPlan \in [status : ConversationStatuses, card : Card,
                    then : Answers \cup {"work"}]
    BY DEF NoPlan, ConversationStatuses, Card, Answers
  <1> DEFINE r == [turn[t] EXCEPT !.at = "done", !.answer = answer,
                                  !.base = NoConversation, !.plan = NoPlan]
  <1>3. turn[t] \in Turn /\ turn' = [turn EXCEPT ![t] = r]
    BY DEF TypeOK, Answer
  <1> HIDE DEF NoConversation, NoPlan
  <1>4. /\ r \in Turn
        /\ r.kind = turn[t].kind /\ r.action = turn[t].action
        /\ r.loaded = turn[t].loaded
        /\ r.at = "done" /\ r.answer = answer
        /\ r.base = NoConversation /\ r.plan = NoPlan
    BY <1>1, <1>2, <1>3 DEF Turn, Places
  <1> HIDE DEF r
  <1> QED
    BY <1>3, <1>4 DEF TypeOK, Frame

LEMMA ChangeEffect ==
    ASSUME TypeOK, NEW t \in Turns, NEW to \in ConversationStatuses,
           NEW card \in Card, NEW then \in Answers \cup {"work"},
           Change(t, to, card, then)
    PROVE  /\ Frame(t)
           /\ turn'[t].at = "reload" /\ turn'[t].answer = turn[t].answer
           /\ turn'[t].base = turn[t].base
           /\ turn'[t].plan = [status |-> to, card |-> card, then |-> then]
  <1> DEFINE plan == [status |-> to, card |-> card, then |-> then]
             r == [turn[t] EXCEPT !.at = "reload", !.plan = plan]
  <1>1. turn[t] \in Turn /\ turn' = [turn EXCEPT ![t] = r]
    BY DEF TypeOK, Change
  <1>2. plan \in [status : ConversationStatuses, card : Card,
                  then : Answers \cup {"work"}]
    OBVIOUS
  <1> HIDE DEF plan
  <1>3. /\ r \in Turn
        /\ r.kind = turn[t].kind /\ r.action = turn[t].action
        /\ r.loaded = turn[t].loaded
        /\ r.at = "reload" /\ r.answer = turn[t].answer
        /\ r.base = turn[t].base /\ r.plan = plan
    BY <1>1, <1>2 DEF Turn, Places
  <1> HIDE DEF r
  <1>4. /\ Frame(t)
        /\ turn'[t].at = "reload" /\ turn'[t].answer = turn[t].answer
        /\ turn'[t].base = turn[t].base /\ turn'[t].plan = plan
    BY <1>1, <1>3 DEF TypeOK, Frame
  <1> QED
    BY <1>4 DEF plan

\* The turn ends.
LEMMA AnswerKeeps ==
    ASSUME ChatIInv, NEW t \in Turns, NEW answer \in Answers,
           Answer(t, answer), [Lifecycle!Next]_actionVars,
           conv' \in Conversation, ConvInv', Newer,
           answer = "completed" => /\ turn[t].action \in carriedOut'
                                   /\ turn[t].action \in Actions
                                   /\ status'[turn[t].action] = "executed",
           answer = "cancelled" => /\ turn[t].action \in Actions
                                   /\ status'[turn[t].action] = "cancelled",
           \/ answer = "lost" \/ turn[t].kind # "message"
           \/ turn[t].at \in {"load", "expire", "work", "reload", "write"}
    PROVE  ChatIInv'
  <1>1. TypeOK /\ TurnInv(t) /\ Forward
    BY ActionsMoveForward DEF ChatIInv
  <1>2. /\ Frame(t)
        /\ turn'[t].at = "done" /\ turn'[t].answer = answer
        /\ turn'[t].base = NoConversation /\ turn'[t].plan = NoPlan
    BY <1>1, AnswerEffect
  <1>3. PlaceInv(t)'
    BY <1>1, <1>2 DEF TurnInv, PlaceInv, Frame, NoPlan
  <1>4. CardInv(t)'
    BY <1>1, <1>2 DEF TurnInv, CardInv, Frame, NoPlan, Exists, Forward
  <1>5. OutcomeInv(t)'
    BY <1>2 DEF OutcomeInv, Frame, NoPlan
  <1>6. DisarmInv(t)'
    BY <1>1, <1>2
       DEF TurnInv, PlaceInv, DisarmInv, CardInv, Exists, Frame, Forward
  <1>7. BaseInv(t)'
    BY <1>2 DEF BaseInv, At
  <1> QED
    BY <1>2, <1>3, <1>4, <1>5, <1>6, <1>7, TurnStepKeeps DEF TurnInv, Frame

\* The turn is about to change the conversation.
LEMMA ChangeKeeps ==
    ASSUME ChatIInv, NEW t \in Turns, NEW to \in ConversationStatuses,
           NEW card \in Card, NEW then \in Answers \cup {"work"},
           Change(t, to, card, then), [Lifecycle!Next]_actionVars,
           UNCHANGED conv, turn[t].at # "done",
           to # "none",
           to = "awaiting_confirmation" => Exists(card)',
           then = "completed" => /\ turn[t].action \in carriedOut'
                                 /\ turn[t].action \in Actions
                                 /\ status'[turn[t].action] = "executed",
           then = "cancelled" => /\ turn[t].action \in Actions
                                 /\ status'[turn[t].action] = "cancelled",
           \/ turn[t].kind # "message"
           \/ turn[t].at = "work"
           \/ status'[turn[t].loaded.card] # "pending"
    PROVE  ChatIInv'
  <1>1. TypeOK /\ TurnInv(t) /\ Forward
    BY ActionsMoveForward DEF ChatIInv
  <1>2. /\ Frame(t)
        /\ turn'[t].at = "reload" /\ turn'[t].answer = turn[t].answer
        /\ turn'[t].base = turn[t].base
        /\ turn'[t].plan = [status |-> to, card |-> card, then |-> then]
    BY <1>1, ChangeEffect
  <1>3. PlaceInv(t)'
    BY <1>1, <1>2 DEF TurnInv, PlaceInv, Frame
  <1>4. CardInv(t)'
    BY <1>1, <1>2 DEF TurnInv, CardInv, Frame, Exists, Forward
  <1>5. OutcomeInv(t)'
    BY <1>1, <1>2 DEF TurnInv, PlaceInv, OutcomeInv, Frame
  <1>6. DisarmInv(t)'
    BY <1>1, <1>2
       DEF TurnInv, PlaceInv, DisarmInv, CardInv, Exists, Frame, Forward
  <1>7. BaseInv(t)'
    BY <1>2 DEF BaseInv, At
  <1>8. conv' \in Conversation /\ ConvInv' /\ Newer
    BY <1>1 DEF ChatIInv, TypeOK, ConvInv, Newer, Exists, Forward, Conversation
  <1> QED
    BY <1>2, <1>3, <1>4, <1>5, <1>6, <1>7, <1>8, TurnStepKeeps
       DEF TurnInv, Frame

\* The turn goes on, to a place that its kind allows.
LEMMA GotoKeeps ==
    ASSUME ChatIInv, NEW t \in Turns,
           NEW place \in {"execute", "withdraw", "expire"}, Goto(t, place),
           [Lifecycle!Next]_actionVars, UNCHANGED conv,
           place = "execute" => turn[t].at = "claim",
           place = "withdraw" => turn[t].at = "find",
           place = "expire" => turn[t].at = "load"
    PROVE  ChatIInv'
  <1>1. TypeOK /\ TurnInv(t) /\ Forward
    BY ActionsMoveForward DEF ChatIInv
  <1>2. /\ Frame(t)
        /\ turn'[t].at = place
        /\ turn'[t].base = turn[t].base /\ turn'[t].plan = turn[t].plan
        /\ turn'[t].answer = turn[t].answer
    BY <1>1, GotoEffect DEF Places
  <1>3. PlaceInv(t)'
    BY <1>1, <1>2 DEF TurnInv, PlaceInv, Frame
  <1>4. CardInv(t)'
    BY <1>1, <1>2 DEF TurnInv, CardInv, Frame, Exists, Forward
  <1>5. OutcomeInv(t)'
    BY <1>1, <1>2 DEF TurnInv, PlaceInv, OutcomeInv, Frame
  <1>6. DisarmInv(t)' /\ BaseInv(t)'
    BY <1>2 DEF DisarmInv, BaseInv, At
  <1>7. conv' \in Conversation /\ ConvInv' /\ Newer
    BY <1>1 DEF ChatIInv, TypeOK, ConvInv, Newer, Exists, Forward, Conversation
  <1> QED
    BY <1>2, <1>3, <1>4, <1>5, <1>6, <1>7, TurnStepKeeps DEF TurnInv, Frame

-----------------------------------------------------------------------------
(* Loading the conversation                                                *)

\* Whatever detect_turn_type decides from the row it is given: a message
\* that finds an open card drops it, and nothing else is done first.
LEMMA DetectKeeps ==
    ASSUME ChatIInv, NEW t \in Turns, At(t, "load"), NEW c \in Conversation,
           c.status = "awaiting_confirmation" => Exists(c.card),
           Detect(t, c), UNCHANGED actionVars,
           conv' \in Conversation, ConvInv', Newer
    PROVE  ChatIInv'
  <1>1. /\ TypeOK /\ TurnInv(t) /\ turn[t].at = "load" /\ turn[t] \in Turn
        /\ UNCHANGED <<status, carriedOut>>
    BY DEF ChatIInv, At, TypeOK, actionVars
  <1>2. ASSUME NEW r \in Turn, turn' = [turn EXCEPT ![t] = r],
               r.kind = turn[t].kind, r.action = turn[t].action,
               r.loaded = c,
               r.at \in {"claim", "find", "work", "drop", "reload", "done"},
               r.at = "claim" => r.kind = "confirm",
               r.at = "find" => r.kind = "cancel",
               r.at = "drop" => c.status = "awaiting_confirmation",
               r.kind = "message" /\ c.status = "awaiting_confirmation"
                  => r.at = "drop",
               r.at # "reload" => r.plan = turn[t].plan,
               r.at = "reload"
                  => /\ r.plan.status \notin {"none", "awaiting_confirmation"}
                     /\ r.plan.then \notin {"completed", "cancelled"},
               r.answer = IF r.at = "done" THEN "stopped" ELSE "none"
        PROVE  ChatIInv'
    <2>1. /\ turn' \in [Turns -> Turn] /\ turn'[t] = r
          /\ \A v \in Turns \ {t} : turn'[v] = turn[v]
      BY <1>1, <1>2 DEF TypeOK
    <2>2. PlaceInv(t)'
      BY <1>1, <1>2, <2>1 DEF TurnInv, PlaceInv
    <2>3. CardInv(t)'
      BY <1>1, <1>2, <2>1 DEF TurnInv, CardInv, Exists
    <2>4. OutcomeInv(t)'
      BY <1>1, <1>2, <2>1 DEF TurnInv, PlaceInv, OutcomeInv
    <2>5. DisarmInv(t)' /\ BaseInv(t)'
      BY <1>2, <2>1 DEF DisarmInv, BaseInv, At
    <2> QED
      BY <2>1, <2>2, <2>3, <2>4, <2>5, TurnStepKeeps DEF TurnInv
  <1>3. turn[t].answer = "none"
    BY <1>1 DEF TurnInv, PlaceInv
  <1>4. ASSUME NEW place \in {"claim", "find", "work", "drop"},
               turn' = [turn EXCEPT ![t].loaded = c, ![t].at = place],
               place = "claim" => turn[t].kind = "confirm",
               place = "find" => turn[t].kind = "cancel",
               place = "drop" => c.status = "awaiting_confirmation",
               turn[t].kind = "message" /\ c.status = "awaiting_confirmation"
                  => place = "drop"
        PROVE  ChatIInv'
    <2> DEFINE r == [turn[t] EXCEPT !.loaded = c, !.at = place]
    <2>1. turn' = [turn EXCEPT ![t] = r]
      BY <1>4 DEF ChatIInv, TypeOK
    <2>2. /\ r \in Turn /\ r.loaded = c /\ r.at = place
          /\ r.kind = turn[t].kind /\ r.action = turn[t].action
          /\ r.plan = turn[t].plan /\ r.answer = turn[t].answer
      BY <1>1 DEF Turn, Places
    <2> HIDE DEF r
    <2> QED
      BY <1>2, <1>3, <1>4, <2>1, <2>2
  <1>5. ASSUME NEW to \in {"active", "awaiting_clarification"},
               NEW then \in {"stopped", "work", "question"},
               turn' = [turn EXCEPT ![t].loaded = c, ![t].at = "reload",
                                    ![t].plan = [status |-> to,
                                                 card |-> NoAction,
                                                 then |-> then]],
               turn[t].kind = "message"
                  => c.status # "awaiting_confirmation"
        PROVE  ChatIInv'
    <2> DEFINE plan == [status |-> to, card |-> NoAction, then |-> then]
               r == [turn[t] EXCEPT !.loaded = c, !.at = "reload",
                                    !.plan = plan]
    <2>1. turn' = [turn EXCEPT ![t] = r]
      BY <1>5 DEF ChatIInv, TypeOK
    <2>2. /\ plan \in [status : ConversationStatuses, card : Card,
                       then : Answers \cup {"work"}]
          /\ plan.status = to /\ plan.then = then
      BY DEF ConversationStatuses, Awaiting, Card, Answers
    <2> HIDE DEF plan
    <2>3. /\ r \in Turn /\ r.loaded = c /\ r.at = "reload" /\ r.plan = plan
          /\ r.kind = turn[t].kind /\ r.action = turn[t].action
          /\ r.answer = turn[t].answer
      BY <1>1, <2>2 DEF Turn, Places
    <2> HIDE DEF r
    <2> QED
      BY <1>2, <1>3, <1>5, <2>1, <2>2, <2>3
  <1>6. ASSUME turn' = [turn EXCEPT ![t].loaded = c, ![t].at = "done",
                                    ![t].answer = "stopped"],
               turn[t].kind = "cancel_workflow"
        PROVE  ChatIInv'
    <2> DEFINE r == [turn[t] EXCEPT !.loaded = c, !.at = "done",
                                    !.answer = "stopped"]
    <2>1. turn' = [turn EXCEPT ![t] = r]
      BY <1>6 DEF ChatIInv, TypeOK
    <2>2. /\ r \in Turn /\ r.loaded = c /\ r.at = "done"
          /\ r.kind = turn[t].kind /\ r.action = turn[t].action
          /\ r.plan = turn[t].plan /\ r.answer = "stopped"
      BY <1>1 DEF Turn, Places, Answers
    <2> HIDE DEF r
    <2> QED
      BY <1>2, <1>6, <2>1, <2>2
  <1>7. CASE turn[t].kind = "message"
    BY <1>4, <1>5, <1>7 DEF Detect, Awaiting
  <1>8. CASE turn[t].kind = "cancel_workflow"
    BY <1>5, <1>6, <1>8 DEF Detect
  <1>9. CASE turn[t].kind \notin {"message", "cancel_workflow"}
    BY <1>4, <1>9 DEF Detect
  <1> QED
    BY <1>7, <1>8, <1>9

LEMMA LoadKeeps ==
    ASSUME ChatIInv, NEW t \in Turns, Load(t)
    PROVE  ChatIInv'
  <1>1. At(t, "load") /\ UNCHANGED actionVars /\ TypeOK
    BY DEF Load, ChatIInv
  <1>2. CASE conv.status = "none"
    <2>1. /\ conv' = [status |-> "active", version |-> 1, card |-> NoAction]
          /\ Detect(t, conv')
      BY <1>2 DEF Load
    <2>2. conv' \in Conversation
      BY <2>1 DEF Conversation, ConversationStatuses, Card
    <2>3. Newer
      <3>1. conv'.version = 1 /\ conv'.status = "active"
        BY <2>1
      <3>2. conv.version \in Nat
        BY <1>1 DEF TypeOK, Conversation
      <3>3. conv.version <= 1
        BY <1>2 DEF ChatIInv, ConvInv
      <3> QED
        BY <1>2, <3>1, <3>2, <3>3 DEF Newer
    <2>4. conv'.status = "active"
      BY <2>1
    <2>5. ConvInv'
      BY <2>4 DEF ConvInv
    <2> QED
      BY <1>1, <2>1, <2>2, <2>3, <2>4, <2>5, DetectKeeps
  <1>3. CASE conv.status # "none"
    <2>1. /\ UNCHANGED conv
          /\ Detect(t, conv) \/ Goto(t, "expire")
      BY <1>3 DEF Load
    <2>2. conv' \in Conversation /\ ConvInv' /\ Newer
      BY <1>1, <2>1 DEF ChatIInv, TypeOK, ConvInv, Newer, Exists, actionVars,
                        Conversation
    <2>3. CASE Detect(t, conv)
      BY <1>1, <2>1, <2>2, <2>3, DetectKeeps DEF ChatIInv, TypeOK, ConvInv
    <2>4. CASE Goto(t, "expire")
      BY <1>1, <2>1, <2>4, GotoKeeps DEF At
    <2> QED
      BY <2>1, <2>3, <2>4
  <1> QED
    BY <1>2, <1>3

-----------------------------------------------------------------------------
(* The other steps                                                         *)

LEMMA ArriveKeeps ==
    ASSUME ChatIInv, NEW t \in Turns, Arrive(t)
    PROVE  ChatIInv'
  <1>1. /\ TypeOK /\ TurnInv(t) /\ turn[t].at = "new" /\ turn[t] \in Turn
        /\ UNCHANGED <<status, carriedOut, conv>> /\ UNCHANGED actionVars
    BY DEF ChatIInv, Arrive, At, TypeOK, actionVars
  <1>2. PICK kind \in Kinds, a \in Card :
          /\ (a # NoAction) = (kind \in {"confirm", "cancel"})
          /\ turn' = [turn EXCEPT ![t].kind = kind, ![t].action = a,
                                  ![t].at = IF kind = "reset"
                                            THEN "select" ELSE "load"]
    BY DEF Arrive
  <1> DEFINE r == [turn[t] EXCEPT !.kind = kind, !.action = a,
                                  !.at = IF kind = "reset"
                                         THEN "select" ELSE "load"]
  <1>3. turn' = [turn EXCEPT ![t] = r]
    BY <1>1, <1>2 DEF TypeOK
  <1>4. /\ r \in Turn /\ r.kind = kind /\ r.action = a
        /\ r.at = IF kind = "reset" THEN "select" ELSE "load"
        /\ r.loaded = turn[t].loaded /\ r.plan = turn[t].plan
        /\ r.answer = turn[t].answer
    BY <1>1 DEF Turn, Places
  <1> HIDE DEF r
  <1>5. /\ turn' \in [Turns -> Turn] /\ turn'[t] = r
        /\ \A v \in Turns \ {t} : turn'[v] = turn[v]
    BY <1>1, <1>3, <1>4 DEF TypeOK
  <1>6. PlaceInv(t)'
    BY <1>1, <1>2, <1>4, <1>5 DEF TurnInv, PlaceInv, Card
  <1>7. CardInv(t)' /\ OutcomeInv(t)'
    BY <1>1, <1>4, <1>5 DEF TurnInv, PlaceInv, CardInv, OutcomeInv, Exists
  <1>8. DisarmInv(t)' /\ BaseInv(t)'
    BY <1>4, <1>5 DEF DisarmInv, BaseInv, At
  <1>9. conv' \in Conversation /\ ConvInv' /\ Newer
    BY <1>1 DEF ChatIInv, TypeOK, ConvInv, Newer, Exists, Conversation
  <1> QED
    BY <1>1, <1>5, <1>6, <1>7, <1>8, <1>9, TurnStepKeeps DEF TurnInv

LEMMA ConversationStays ==
    ASSUME ChatIInv, UNCHANGED conv, [Lifecycle!Next]_actionVars
    PROVE  conv' \in Conversation /\ ConvInv' /\ Newer
  BY ActionsMoveForward
     DEF ChatIInv, TypeOK, ConvInv, Newer, Exists, Forward, Conversation

\* A turn that fails, wherever it is, changes nothing else.
LEMMA FailKeeps ==
    ASSUME ChatIInv, NEW t \in Turns, Fail(t), UNCHANGED conv,
           [Lifecycle!Next]_actionVars,
           \/ turn[t].kind # "message"
           \/ turn[t].at \in {"work", "reload", "write"}
    PROVE  ChatIInv'
  BY ConversationStays, AnswerKeeps DEF Fail, Answers

LEMMA ExpireKeeps ==
    ASSUME ChatIInv, NEW t \in Turns, ExpireConversation(t)
    PROVE  ChatIInv'
  <1>1. /\ TypeOK /\ turn[t].at = "expire" /\ UNCHANGED actionVars
        /\ conv' = [conv EXCEPT !.status = "expired", !.card = NoAction]
        /\ Answer(t, "error")
    BY DEF ChatIInv, ExpireConversation, At, Fail
  <1>2. /\ conv' \in Conversation
        /\ conv'.status = "expired" /\ conv'.version = conv.version
    BY <1>1 DEF TypeOK, Conversation, ConversationStatuses, Card
  <1>3. ConvInv' /\ Newer
    <2>1. conv.version \in Nat
      BY <1>1 DEF TypeOK, Conversation
    <2> QED
      BY <1>2, <2>1 DEF ConvInv, Newer
  <1> QED
    BY <1>1, <1>2, <1>3, AnswerKeeps DEF Answers

\* The dropped card's action is no longer pending, or never was again.
LEMMA DropKeeps ==
    ASSUME ChatIInv, NEW t \in Turns, DropCard(t)
    PROVE  ChatIInv' /\ [Lifecycle!Next]_actionVars
  <1> DEFINE a == turn[t].loaded.card
  <1>1. turn[t].at = "drop" /\ a \in Actions
    BY DEF DropCard, At, ChatIInv, TurnInv, PlaceInv, CardInv, Exists
  <1>2. /\ Change(t, "active", NoAction, "work") /\ UNCHANGED conv
        /\ \/ Lifecycle!Cancel(a) \/ Lifecycle!Expire(a)
           \/ status[a] # "pending" /\ UNCHANGED actionVars
    BY DEF DropCard
  <1>3. [Lifecycle!Next]_actionVars
    BY <1>1, <1>2 DEF Lifecycle!Next
  <1>4. status'[a] # "pending"
    BY <1>1, <1>2 DEF Lifecycle!Cancel, Lifecycle!Expire, Lifecycle!Move,
                      actionVars, ChatIInv, ActionInv, Lifecycle!TypeOK
  <1> QED
    BY <1>1, <1>2, <1>3, <1>4, ChangeKeeps
       DEF ConversationStatuses, Card, Answers

LEMMA ReloadKeeps ==
    ASSUME ChatIInv, NEW t \in Turns, Reload(t)
    PROVE  ChatIInv'
  <1>1. /\ TypeOK /\ TurnInv(t) /\ turn[t].at = "reload" /\ turn[t] \in Turn
        /\ UNCHANGED <<status, carriedOut, conv>> /\ UNCHANGED actionVars
    BY DEF ChatIInv, Reload, At, TypeOK, actionVars
  <1>2. CASE Fail(t)
    BY <1>1, <1>2, FailKeeps
  <1>3. CASE /\ conv.status # "none"
             /\ turn' = [turn EXCEPT ![t].base = conv, ![t].at = "write"]
    <2> DEFINE r == [turn[t] EXCEPT !.base = conv, !.at = "write"]
    <2>1. turn' = [turn EXCEPT ![t] = r]
      BY <1>1, <1>3 DEF TypeOK
    <2>2. /\ r \in Turn /\ r.kind = turn[t].kind /\ r.action = turn[t].action
          /\ r.at = "write" /\ r.base = conv
          /\ r.loaded = turn[t].loaded /\ r.plan = turn[t].plan
          /\ r.answer = turn[t].answer
      BY <1>1 DEF Turn, Places, TypeOK
    <2> HIDE DEF r
    <2>3. /\ turn' \in [Turns -> Turn] /\ turn'[t] = r
          /\ \A v \in Turns \ {t} : turn'[v] = turn[v]
      BY <1>1, <2>1, <2>2 DEF TypeOK
    <2>4. PlaceInv(t)' /\ CardInv(t)' /\ OutcomeInv(t)' /\ DisarmInv(t)'
      BY <1>1, <2>2, <2>3
         DEF TurnInv, PlaceInv, CardInv, OutcomeInv, DisarmInv, Exists
    <2>5. BaseInv(t)'
      BY <1>1, <1>3, <2>2, <2>3 DEF BaseInv, TypeOK, Conversation
    <2> QED
      BY <1>1, <2>3, <2>4, <2>5, ConversationStays, TurnStepKeeps DEF TurnInv
  <1> QED
    BY <1>2, <1>3 DEF Reload

\* The conditional UPDATE: what it stores has a new version and, if it is a
\* card, an action.
LEMMA WriteKeeps ==
    ASSUME ChatIInv, NEW t \in Turns, Write(t)
    PROVE  ChatIInv'
  <1>1. /\ TypeOK /\ TurnInv(t) /\ turn[t].at = "write" /\ turn[t] \in Turn
        /\ UNCHANGED <<status, carriedOut>> /\ UNCHANGED actionVars
    BY DEF ChatIInv, Write, At, TypeOK, actionVars
  <1> DEFINE plan == turn[t].plan
  <1>2. /\ plan.status \in ConversationStatuses \ {"none"}
        /\ plan.card \in Card /\ plan.then \in Answers \cup {"work"}
        /\ plan.status = "awaiting_confirmation" => Exists(plan.card)
    BY <1>1, TurnFields DEF TurnInv, PlaceInv, CardInv
  <1>3. CASE Fail(t) /\ UNCHANGED conv
    BY <1>1, <1>3, FailKeeps
  <1>4. ASSUME conv' = [status |-> plan.status, version |-> conv.version + 1,
                        card |-> plan.card]
        PROVE  conv' \in Conversation /\ ConvInv' /\ Newer
    <2>1. conv.version \in Nat
      BY <1>1 DEF TypeOK, Conversation
    <2>2. conv' \in Conversation
      BY <1>2, <1>4, <2>1 DEF Conversation
    <2> HIDE DEF plan
    <2>3. /\ conv'.status = plan.status /\ conv'.card = plan.card
          /\ conv'.version = conv.version + 1
      BY <1>4
    <2>4. ConvInv'
      BY <1>1, <1>2, <2>3 DEF ConvInv, Exists
    <2>5. Newer
      BY <1>2, <2>1, <2>3 DEF Newer
    <2> QED
      BY <2>2, <2>4, <2>5
  <1>5. ASSUME conv' = [status |-> plan.status, version |-> conv.version + 1,
                        card |-> plan.card],
               plan.then # "work", Answer(t, plan.then)
        PROVE  ChatIInv'
    BY <1>1, <1>2, <1>4, <1>5, AnswerKeeps DEF TurnInv, OutcomeInv
  <1>6. ASSUME conv' = [status |-> plan.status, version |-> conv.version + 1,
                        card |-> plan.card],
               turn' = [turn EXCEPT ![t].at = "work", ![t].plan = NoPlan,
                                    ![t].base = NoConversation]
        PROVE  ChatIInv'
    <2> DEFINE r == [turn[t] EXCEPT !.at = "work", !.plan = NoPlan,
                                    !.base = NoConversation]
    <2>1. turn' = [turn EXCEPT ![t] = r]
      BY <1>1, <1>6 DEF TypeOK
    <2>2. /\ NoConversation \in Conversation
          /\ NoPlan \in [status : ConversationStatuses, card : Card,
                         then : Answers \cup {"work"}]
      BY DEF NoConversation, NoPlan, Conversation, ConversationStatuses, Card,
             Answers
    <2>3. /\ r \in Turn /\ r.kind = turn[t].kind /\ r.action = turn[t].action
          /\ r.at = "work" /\ r.plan = NoPlan
          /\ r.loaded = turn[t].loaded /\ r.answer = turn[t].answer
      BY <1>1, <2>2 DEF Turn, Places
    <2> HIDE DEF r
    <2>4. /\ turn' \in [Turns -> Turn] /\ turn'[t] = r
          /\ \A v \in Turns \ {t} : turn'[v] = turn[v]
      BY <1>1, <2>1, <2>3 DEF TypeOK
    <2>5. PlaceInv(t)' /\ CardInv(t)' /\ OutcomeInv(t)' /\ DisarmInv(t)'
      BY <1>1, <2>3, <2>4
         DEF TurnInv, PlaceInv, CardInv, OutcomeInv, DisarmInv, Exists, NoPlan
    <2>6. BaseInv(t)'
      BY <2>3, <2>4 DEF BaseInv, At
    <2> QED
      BY <1>1, <1>4, <1>6, <2>4, <2>5, <2>6, TurnStepKeeps DEF TurnInv
  <1> QED
    BY <1>3, <1>5, <1>6 DEF Write

LEMMA WorkKeeps ==
    ASSUME ChatIInv, NEW t \in Turns, Work(t)
    PROVE  ChatIInv'
  <1>1. /\ TypeOK /\ TurnInv(t) /\ turn[t].at = "work" /\ turn[t] \in Turn
        /\ UNCHANGED <<status, carriedOut, conv>> /\ UNCHANGED actionVars
    BY DEF ChatIInv, Work, At, TypeOK, actionVars
  <1>2. CASE Answer(t, "reply")
    BY <1>1, <1>2, ConversationStays, AnswerKeeps DEF Answers
  <1>3. ASSUME NEW to \in {"active", "completed", "failed", "cancelled",
                           "awaiting_clarification"},
               NEW then \in {"question", "reply"},
               Change(t, to, NoAction, then)
        PROVE  ChatIInv'
    BY <1>1, <1>3, ChangeKeeps
       DEF ConversationStatuses, Awaiting, Card, Answers
  <1>4. CASE turn' = [turn EXCEPT ![t].resumed = TRUE,
                                  ![t].at = "reload",
                                  ![t].plan = [status |-> "active",
                                               card   |-> NoAction,
                                               then   |-> "work"]]
    <2> DEFINE plan == [status |-> "active", card |-> NoAction,
                        then |-> "work"]
               r == [turn[t] EXCEPT !.resumed = TRUE, !.at = "reload",
                                    !.plan = plan]
    <2>1. turn' = [turn EXCEPT ![t] = r]
      BY <1>1, <1>4 DEF TypeOK
    <2>2. /\ plan \in [status : ConversationStatuses, card : Card,
                       then : Answers \cup {"work"}]
          /\ plan.status = "active" /\ plan.then = "work"
      BY DEF ConversationStatuses, Card
    <2> HIDE DEF plan
    <2>3. /\ r \in Turn /\ r.kind = turn[t].kind /\ r.action = turn[t].action
          /\ r.at = "reload" /\ r.plan = plan
          /\ r.loaded = turn[t].loaded /\ r.answer = turn[t].answer
      BY <1>1, <2>2 DEF Turn, Places
    <2> HIDE DEF r
    <2>4. /\ turn' \in [Turns -> Turn] /\ turn'[t] = r
          /\ \A v \in Turns \ {t} : turn'[v] = turn[v]
      BY <1>1, <2>1, <2>3 DEF TypeOK
    <2>5. PlaceInv(t)' /\ CardInv(t)' /\ OutcomeInv(t)' /\ DisarmInv(t)'
      BY <1>1, <2>2, <2>3, <2>4
         DEF TurnInv, PlaceInv, CardInv, OutcomeInv, DisarmInv, Exists
    <2>6. BaseInv(t)'
      BY <2>3, <2>4 DEF BaseInv, At
    <2> QED
      BY <1>1, <2>4, <2>5, <2>6, ConversationStays, TurnStepKeeps DEF TurnInv
  <1> QED
    BY <1>2, <1>3, <1>4 DEF Work

\* The action is there before the conversation points to it.
LEMMA CreateKeeps ==
    ASSUME ChatIInv, NEW t \in Turns, CreateAction(t)
    PROVE  ChatIInv' /\ [Lifecycle!Next]_actionVars
  <1> PICK a \in Actions :
          /\ Lifecycle!Create(a)
          /\ Change(t, "awaiting_confirmation", a, "card")
    BY DEF CreateAction
  <1>1. turn[t].at = "work" /\ UNCHANGED conv
    BY DEF CreateAction, At
  <1>2. [Lifecycle!Next]_actionVars
    BY DEF Lifecycle!Next
  <1>3. Exists(a)'
    BY DEF Lifecycle!Create, Lifecycle!Move, Exists, ChatIInv, ActionInv,
           Lifecycle!TypeOK
  <1> QED
    BY <1>1, <1>2, <1>3, ChangeKeeps
       DEF ConversationStatuses, Awaiting, Card, Answers

LEMMA ClaimKeeps ==
    ASSUME ChatIInv, NEW t \in Turns, Claim(t)
    PROVE  ChatIInv' /\ [Lifecycle!Next]_actionVars
  <1> DEFINE a == turn[t].action
  <1>1. /\ turn[t].at = "claim" /\ turn[t].kind = "confirm" /\ a \in Actions
        /\ UNCHANGED conv
    BY DEF ChatIInv, TurnInv, PlaceInv, Claim, At
  <1>2. [Lifecycle!Next]_actionVars
    BY <1>1 DEF Claim, Lifecycle!Next
  <1>3. Goto(t, "execute") \/ Fail(t)
    BY DEF Claim
  <1> QED
    BY <1>1, <1>2, <1>3, FailKeeps, GotoKeeps

LEMMA ExecuteKeeps ==
    ASSUME ChatIInv, NEW t \in Turns, Execute(t)
    PROVE  ChatIInv'
  <1>1. /\ TypeOK /\ TurnInv(t) /\ turn[t].at = "execute"
        /\ turn[t].kind = "confirm" /\ turn[t] \in Turn
        /\ UNCHANGED <<status, carriedOut, conv>> /\ UNCHANGED actionVars
    BY DEF ChatIInv, TurnInv, PlaceInv, Execute, At, TypeOK, actionVars
  <1>2. CASE Fail(t)
    BY <1>1, <1>2, FailKeeps
  <1>3. ASSUME NEW result \in {"success", "failure"},
               turn' = [turn EXCEPT ![t].at = "finish", ![t].result = result],
               result = "success" => turn[t].action \in carriedOut
        PROVE  ChatIInv'
    <2> DEFINE r == [turn[t] EXCEPT !.at = "finish", !.result = result]
    <2>1. turn' = [turn EXCEPT ![t] = r]
      BY <1>1, <1>3 DEF TypeOK
    <2>2. /\ r \in Turn /\ r.kind = turn[t].kind /\ r.action = turn[t].action
          /\ r.at = "finish" /\ r.plan = turn[t].plan /\ r.result = result
          /\ r.loaded = turn[t].loaded /\ r.answer = turn[t].answer
      BY <1>1 DEF Turn, Places
    <2> HIDE DEF r
    <2>3. /\ turn' \in [Turns -> Turn] /\ turn'[t] = r
          /\ \A v \in Turns \ {t} : turn'[v] = turn[v]
      BY <1>1, <2>1, <2>2 DEF TypeOK
    <2>4. PlaceInv(t)' /\ CardInv(t)' /\ OutcomeInv(t)' /\ DisarmInv(t)'
      BY <1>1, <1>3, <2>2, <2>3
         DEF TurnInv, PlaceInv, CardInv, OutcomeInv, DisarmInv, Exists
    <2>5. BaseInv(t)'
      BY <2>2, <2>3 DEF BaseInv, At
    <2> QED
      BY <1>1, <2>3, <2>4, <2>5, ConversationStays, TurnStepKeeps DEF TurnInv
  <1> QED
    BY <1>2, <1>3 DEF Execute

\* "completed" is planned in the same step that records "executed".
LEMMA FinishKeeps ==
    ASSUME ChatIInv, NEW t \in Turns, FinishAction(t)
    PROVE  ChatIInv' /\ [Lifecycle!Next]_actionVars
  <1> DEFINE a == turn[t].action
  <1>1. /\ turn[t].at = "finish" /\ turn[t].kind = "confirm" /\ a \in Actions
        /\ turn[t].result = "success" => a \in carriedOut
        /\ UNCHANGED conv
    BY DEF ChatIInv, TurnInv, PlaceInv, OutcomeInv, FinishAction, At
  <1>2. [Lifecycle!Next]_actionVars
    BY <1>1 DEF FinishAction, Lifecycle!Next
  <1>3. CASE Fail(t)
    BY <1>1, <1>2, <1>3, FailKeeps
  <1>4. CASE /\ Lifecycle!Execute(a)
             /\ Change(t, "completed", NoAction, "completed")
    <2>1. a \in carriedOut' /\ status'[a] = "executed"
      BY <1>1, <1>4 DEF Lifecycle!Execute, Lifecycle!Move, ChatIInv, ActionInv,
                        Lifecycle!TypeOK
    <2> QED
      BY <1>1, <1>2, <1>4, <2>1, ChangeKeeps
         DEF ConversationStatuses, Card, Answers
  <1>5. ASSUME NEW to \in {"failed", "awaiting_clarification"},
               Change(t, to, NoAction, "failed")
        PROVE  ChatIInv'
    BY <1>1, <1>2, <1>5, ChangeKeeps
       DEF ConversationStatuses, Awaiting, Card, Answers
  <1> QED
    BY <1>2, <1>3, <1>4, <1>5 DEF FinishAction

LEMMA FindKeeps ==
    ASSUME ChatIInv, NEW t \in Turns, Find(t)
    PROVE  ChatIInv' /\ [Lifecycle!Next]_actionVars
  <1>1. /\ turn[t].at = "find" /\ turn[t].kind = "cancel"
        /\ turn[t].action \in Actions /\ UNCHANGED conv
    BY DEF ChatIInv, TurnInv, PlaceInv, Find, At
  <1>2. [Lifecycle!Next]_actionVars
    BY <1>1 DEF Find, Lifecycle!Next
  <1>3. Goto(t, "withdraw") \/ Fail(t)
    BY DEF Find
  <1> QED
    BY <1>1, <1>2, <1>3, FailKeeps, GotoKeeps

\* "cancelled" is planned in the same step that cancels.
LEMMA WithdrawKeeps ==
    ASSUME ChatIInv, NEW t \in Turns, Withdraw(t)
    PROVE  ChatIInv' /\ [Lifecycle!Next]_actionVars
  <1> DEFINE a == turn[t].action
  <1>1. /\ turn[t].at = "withdraw" /\ turn[t].kind = "cancel"
        /\ a \in Actions /\ UNCHANGED conv
    BY DEF ChatIInv, TurnInv, PlaceInv, Withdraw, At
  <1>2. [Lifecycle!Next]_actionVars
    BY <1>1 DEF Withdraw, Lifecycle!Next
  <1>3. CASE Fail(t)
    BY <1>1, <1>2, <1>3, FailKeeps
  <1>4. CASE /\ Lifecycle!Cancel(a)
             /\ Change(t, "cancelled", NoAction, "cancelled")
    <2>1. status'[a] = "cancelled"
      BY <1>1, <1>4 DEF Lifecycle!Cancel, Lifecycle!Move, ChatIInv, ActionInv,
                        Lifecycle!TypeOK
    <2> QED
      BY <1>1, <1>2, <1>4, <2>1, ChangeKeeps
         DEF ConversationStatuses, Card, Answers
  <1> QED
    BY <1>2, <1>3, <1>4 DEF Withdraw

LEMMA SelectKeeps ==
    ASSUME ChatIInv, NEW t \in Turns, SelectNewest(t)
    PROVE  ChatIInv'
  <1>1. /\ TypeOK /\ TurnInv(t) /\ turn[t].at = "select"
        /\ turn[t].kind = "reset" /\ turn[t] \in Turn
        /\ UNCHANGED <<status, carriedOut, conv>> /\ UNCHANGED actionVars
    BY DEF ChatIInv, TurnInv, PlaceInv, SelectNewest, At, TypeOK, actionVars
  <1>2. CASE Fail(t)
    BY <1>1, <1>2, FailKeeps
  <1>3. CASE Change(t, "cancelled", NoAction, "reset")
    BY <1>1, <1>3, ChangeKeeps DEF ConversationStatuses, Card, Answers
  <1>4. ASSUME NEW a \in Actions,
               turn' = [turn EXCEPT ![t].action = a, ![t].at = "discard"]
        PROVE  ChatIInv'
    <2> DEFINE r == [turn[t] EXCEPT !.action = a, !.at = "discard"]
    <2>1. turn' = [turn EXCEPT ![t] = r]
      BY <1>1, <1>4 DEF TypeOK
    <2>2. /\ r \in Turn /\ r.kind = turn[t].kind /\ r.action = a
          /\ r.at = "discard" /\ r.plan = turn[t].plan
          /\ r.loaded = turn[t].loaded /\ r.answer = turn[t].answer
      BY <1>1 DEF Turn, Places, Card
    <2> HIDE DEF r
    <2>3. /\ turn' \in [Turns -> Turn] /\ turn'[t] = r
          /\ \A v \in Turns \ {t} : turn'[v] = turn[v]
      BY <1>1, <2>1, <2>2 DEF TypeOK
    <2>4. PlaceInv(t)' /\ CardInv(t)' /\ OutcomeInv(t)' /\ DisarmInv(t)'
      BY <1>1, <2>2, <2>3
         DEF TurnInv, PlaceInv, CardInv, OutcomeInv, DisarmInv, Exists
    <2>5. BaseInv(t)'
      BY <2>2, <2>3 DEF BaseInv, At
    <2> QED
      BY <1>1, <2>3, <2>4, <2>5, ConversationStays, TurnStepKeeps DEF TurnInv
  <1> QED
    BY <1>2, <1>3, <1>4 DEF SelectNewest, Active

LEMMA DiscardKeeps ==
    ASSUME ChatIInv, NEW t \in Turns, Discard(t)
    PROVE  ChatIInv' /\ [Lifecycle!Next]_actionVars
  <1>1. /\ turn[t].at = "discard" /\ turn[t].kind = "reset"
        /\ turn[t].action \in Actions /\ UNCHANGED conv
    BY DEF ChatIInv, TurnInv, PlaceInv, Discard, At
  <1>2. [Lifecycle!Next]_actionVars
    BY <1>1 DEF Discard, Lifecycle!Next
  <1>3. Fail(t) \/ Change(t, "cancelled", NoAction, "reset")
    BY DEF Discard
  <1> QED
    BY <1>1, <1>2, <1>3, FailKeeps, ChangeKeeps
       DEF ConversationStatuses, Card, Answers

LEMMA CrashKeeps ==
    ASSUME ChatIInv, NEW t \in Turns, Crash(t)
    PROVE  ChatIInv'
  BY ConversationStays, AnswerKeeps DEF Crash, Answers

-----------------------------------------------------------------------------
(* The invariant, and what follows from it                                 *)

\* Every step keeps the invariant, and is to the actions a step of their
\* lifecycle, or none.
LEMMA ChatInductive ==
    ASSUME ChatIInv, [Next]_vars
    PROVE  ChatIInv' /\ [Lifecycle!Next]_actionVars
  <1>1. CASE UNCHANGED vars
    <2>1. UNCHANGED <<status, carriedOut, conv, turn>> /\ UNCHANGED actionVars
      BY <1>1 DEF vars, actionVars
    <2>2. ChatIInv'
      BY <2>1 DEF ChatIInv, TypeOK, ActionInv, ConvInv, TurnInv, PlaceInv,
                  CardInv, OutcomeInv, DisarmInv, BaseInv, Exists, At,
                  Lifecycle!TypeOK
    <2> QED
      BY <2>1, <2>2
  <1>2. ASSUME NEW a \in Actions, CarryOut(a)
        PROVE  ChatIInv' /\ [Lifecycle!Next]_actionVars
    <2>1. [Lifecycle!Next]_actionVars /\ UNCHANGED <<conv, turn>>
      BY <1>2 DEF CarryOut, Lifecycle!Next
    <2>2. ActionInv' /\ Forward
      BY <2>1, ActionsMoveForward DEF ChatIInv
    <2>3. conv' \in Conversation /\ ConvInv' /\ Newer
      BY <2>1, ConversationStays
    <2>4. TypeOK /\ TypeOK'
      BY <2>1, <2>2, <2>3 DEF ActionInv, TypeOK, ChatIInv
    <2>5. \A v \in Turns : TurnInv(v)'
      BY <2>1, <2>2, <2>3, <2>4, BystanderKeeps DEF ChatIInv
    <2> QED
      BY <2>1, <2>2, <2>3, <2>4, <2>5 DEF ChatIInv
  <1>3. ASSUME NEW t \in Turns,
               \/ DropCard(t)
               \/ CreateAction(t)
               \/ Claim(t)
               \/ FinishAction(t)
               \/ Find(t)
               \/ Withdraw(t)
               \/ Discard(t)
        PROVE  ChatIInv' /\ [Lifecycle!Next]_actionVars
    BY <1>3, DropKeeps, CreateKeeps, ClaimKeeps, FinishKeeps, FindKeeps,
       WithdrawKeeps, DiscardKeeps
  <1>4. ASSUME NEW t \in Turns,
               \/ Arrive(t)
               \/ Load(t)
               \/ ExpireConversation(t)
               \/ Reload(t)
               \/ Write(t)
               \/ Work(t)
               \/ Execute(t)
               \/ SelectNewest(t)
               \/ Crash(t)
        PROVE  ChatIInv' /\ UNCHANGED actionVars
    <2>1. UNCHANGED actionVars
      BY <1>4 DEF Arrive, Load, ExpireConversation, Reload, Write, Work,
                  Execute, SelectNewest, Crash
    <2> QED
      BY <1>4, <2>1, ArriveKeeps, LoadKeeps, ExpireKeeps, ReloadKeeps,
         WriteKeeps, WorkKeeps, ExecuteKeeps, SelectKeeps, CrashKeeps
  <1> QED
    BY <1>1, <1>2, <1>3, <1>4 DEF Next

LEMMA ChatInvariance == Spec => []ChatIInv
  <1>1. ChatIInv /\ [Next]_vars => ChatIInv'
    BY ChatInductive
  <1> QED
    BY <1>1, InitChatIInv, PTL DEF Spec

\* The conversation, its turns and its actions keep their types.
THEOREM ChatTypeCorrect == Spec => []TypeOK
  BY ChatInvariance, PTL DEF ChatIInv

\* A card on display always has an action behind it, and only a confirmed one
\* is ever carried out.
THEOREM CardsAreBacked == Spec => []CardBacked
  <1>1. ChatIInv => CardBacked
    BY DEF ChatIInv, ConvInv, ActionInv, Exists, CardBacked
  <1> QED
    BY <1>1, ChatInvariance, PTL

\* A query that got past an open card has disarmed it for good.
THEOREM NewQueryDisarms == Spec => []NewQueryDisarmsCard
  <1>1. ChatIInv => NewQueryDisarmsCard
    BY DEF ChatIInv, TurnInv, DisarmInv, NewQueryDisarmsCard
  <1> QED
    BY <1>1, ChatInvariance, PTL

\* What is reported as cancelled stays cancelled and never reaches Odoo.
THEOREM CancelledIsCancelled == Spec => []CancelAnswerIsTrue
  <1>1. ChatIInv => CancelAnswerIsTrue
    BY DEF ChatIInv, TurnInv, OutcomeInv, ActionInv, CancelAnswerIsTrue
  <1> QED
    BY <1>1, ChatInvariance, PTL

\* What is reported as done is recorded as executed and exists in Odoo.
THEOREM CompletedWasExecuted == Spec => []CompletedIsExecuted
  <1>1. ChatIInv => CompletedIsExecuted
    BY DEF ChatIInv, TurnInv, OutcomeInv, CompletedIsExecuted
  <1> QED
    BY <1>1, ChatInvariance, PTL

\* No turn overwrites a change it has not seen, except an expiry.
THEOREM UpdatesAreSeen == Spec => NoLostUpdate
  <1> DEFINE Seen == \A t \in Turns :
                        At(t, "write") /\ conv' # conv /\ turn'[t] # turn[t]
                           => \/ conv = turn[t].base
                              \/ conv.status = "expired"
  <1>1. ASSUME ChatIInv, Next, NEW t \in Turns, At(t, "write"),
               conv' # conv, turn'[t] # turn[t]
        PROVE  conv = turn[t].base \/ conv.status = "expired"
    <2>1. PICK v \in Turns : Load(v) \/ ExpireConversation(v) \/ Write(v)
      BY <1>1 DEF Next, Arrive, DropCard, Reload, Work, CreateAction, Claim,
                  Execute, FinishAction, Find, Withdraw, SelectNewest,
                  Discard, Crash, CarryOut
    <2>2. CASE v # t
      BY <1>1, <2>1, <2>2
         DEF Load, ExpireConversation, Write, Detect, Goto, Fail, Answer,
             ChatIInv, TypeOK
    <2>3. CASE v = t /\ Write(t) /\ VersionMatches(t)
      BY <1>1, <2>3 DEF VersionMatches, ChatIInv, TurnInv, BaseInv
    <2> QED
      BY <1>1, <2>1, <2>2, <2>3 DEF Load, ExpireConversation, Write, At
  <1>2. ChatIInv /\ [Next]_vars => [Seen]_vars
    BY <1>1
  <1> QED
    BY <1>2, ChatInvariance, PTL DEF Spec, NoLostUpdate

\* To its actions a conversation is a behaviour of ActionLifecycle, as the
\* table and the executors are: the turns ask for no move that
\* PendingActionService does not make.
LEMMA TurnsKeepLifecycle == Spec => Lifecycle!Spec
  <1>1. Init => Lifecycle!Init
    BY DEF Init
  <1>2. ChatIInv /\ [Next]_vars => [Lifecycle!Next]_(Lifecycle!vars)
    BY ChatInductive DEF actionVars, Lifecycle!vars
  <1> QED
    BY <1>1, <1>2, ChatInvariance, PTL DEF Spec, Lifecycle!Spec
=============================================================================
