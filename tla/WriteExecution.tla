--------------------------- MODULE WriteExecution ---------------------------
(***************************************************************************)
(* execute_write_tool_node (orchestration/nodes/execute_write_tool.py),    *)
(* run by the worker whose claim_execution succeeded, together with the    *)
(* calls it makes to Odoo.                                                 *)
(*                                                                         *)
(* A tool action is tried up to three times while Odoo's answer is one of  *)
(* _TRANSIENT_CODES, always with the idempotency key stored in the row.  A *)
(* profile action is tried once.  Odoo itself is not part of the           *)
(* repository: it is modelled by what the service relies on, namely that a *)
(* request with a key it has already carried out is answered again and not *)
(* repeated.  A request whose sender gave up may still reach Odoo, at any  *)
(* later time or never.                                                    *)
(***************************************************************************)
EXTENDS PendingActions

CONSTANT
    ProfileActions      \* the actions whose tool is profile_crud_workflow

ASSUME ProfileActionsAssumption == ProfileActions \subseteq Actions

MaxAttempts == 3        \* stop_after_attempt(3)

VARIABLES
    stage,              \* stage[w]: where worker w is inside the node
    attempts,           \* attempts[w]: calls made to Odoo for this claim
    wire,               \* wire[w]: the HTTP exchange worker w waits on
    orphans,            \* requests in flight whose sender no longer waits
    effects             \* effects[a][k]: times Odoo carried out a under key k

execVars == <<stage, attempts, wire, orphans, effects>>
allVars == <<vars, execVars>>

Stages == {"claimed", "send", "wait", "succeeded", "refused"}

\* The key a row is created with; one more stands for every key that would be
\* minted after that.
Keys == {"persisted", "fresh"}

Requests == [action : Actions, key : Keys]

\* Mutation of KeyFor: a retry mints a new key.
KeyPerAttempt(w) == IF attempts[w] > 1 THEN "fresh" ELSE "persisted"

\* arguments["idempotency_key"] = persisted_action.idempotency_key, for every
\* attempt of every executor.
KeyFor(w) == "persisted"

ExecTypeOK ==
    /\ stage \in [Workers -> Stages]
    /\ attempts \in [Workers -> 0 .. MaxAttempts]
    /\ wire \in [Workers -> {"silent", "request", "done", "declined"}]
    /\ orphans \subseteq Requests
    /\ effects \in [Actions -> [Keys -> {0, 1}]]
    /\ \A w \in Workers :
          /\ stage[w] # "claimed" => call[w].phase = "hold"
          /\ wire[w] # "silent" => stage[w] = "wait"

ExecInit ==
    /\ Init
    /\ stage = [w \in Workers |-> "claimed"]
    /\ attempts = [w \in Workers |-> 0]
    /\ wire = [w \in Workers |-> "silent"]
    /\ orphans = {}
    /\ effects = [a \in Actions |-> [k \in Keys |-> 0]]

-----------------------------------------------------------------------------
(* Helpers                                                                 *)

In(w, s) == call[w].phase = "hold" /\ stage[w] = s

Advance(w, s) == stage' = [stage EXCEPT ![w] = s]

RequestOf(w) == [action |-> call[w].action, key |-> KeyFor(w)]

\* The worker stops waiting on its exchange.  If Odoo has not handled the
\* request yet, it may be lost or may still arrive.
HangUp(w) ==
    /\ wire' = [wire EXCEPT ![w] = "silent"]
    /\ \/ orphans' = orphans
       \/ wire[w] = "request" /\ orphans' = orphans \cup {RequestOf(w)}

\* The node is left: by its last statement, by an exception, or because the
\* request is cancelled.
Leave(w) ==
    /\ Advance(w, "claimed")
    /\ attempts' = [attempts EXCEPT ![w] = 0]

-----------------------------------------------------------------------------
(* The node                                                                *)

\* load_owned once more, then the checks before the first call: the tool may
\* have been disabled, or its version or its schema changed, since the action
\* was created (RuntimeError: the row stays "executing"), and the
\* authorization policy is asked again (a refusal is recorded as a failure).
\* Profile actions have none of these checks.
Prepare(w) ==
    LET a == call[w].action
    IN  /\ In(w, "claimed")
        /\ \/ Advance(w, "send") /\ UNCHANGED <<call, attempts>>
           \/ /\ a \notin ProfileActions
              /\ Advance(w, "refused")
              /\ UNCHANGED <<call, attempts>>
           \/ a \notin ProfileActions /\ Leave(w) /\ End(w)
        /\ UNCHANGED <<now, row, wire, orphans, effects>>

Send(w) ==
    /\ In(w, "send")
    /\ attempts' = [attempts EXCEPT ![w] = @ + 1]
    /\ wire' = [wire EXCEPT ![w] = "request"]
    /\ Advance(w, "wait")
    /\ UNCHANGED <<vars, orphans, effects>>

\* Mutation of Answered: any answer counts as success.
AnsweredIsSuccess(w) ==
    /\ In(w, "wait")
    /\ wire[w] \in {"done", "declined"}
    /\ Advance(w, "succeeded")
    /\ wire' = [wire EXCEPT ![w] = "silent"]
    /\ UNCHANGED <<vars, attempts, orphans, effects>>

\* Odoo answered.  execute_change_request's answer is refused when the
\* edition is not waiting for approval, although Odoo did create it.
Answered(w) ==
    /\ In(w, "wait")
    /\ \/ wire[w] = "done" /\ Advance(w, "succeeded")
       \/ wire[w] = "declined" /\ Advance(w, "refused")
       \/ /\ wire[w] = "done"
          /\ call[w].action \in ProfileActions
          /\ Advance(w, "refused")
    /\ wire' = [wire EXCEPT ![w] = "silent"]
    /\ UNCHANGED <<vars, attempts, orphans, effects>>

\* Mutation of Transient: the number of attempts is not bounded.
TransientForever(w) ==
    /\ In(w, "wait")
    /\ call[w].action \notin ProfileActions
    /\ Advance(w, "send")
    /\ HangUp(w)
    /\ UNCHANGED <<vars, attempts, effects>>

\* A connection error or a transient code, before or after Odoo did the work:
\* another attempt while there is one left.
Transient(w) ==
    /\ In(w, "wait")
    /\ call[w].action \notin ProfileActions
    /\ attempts[w] < MaxAttempts
    /\ Advance(w, "send")
    /\ HangUp(w)
    /\ UNCHANGED <<vars, attempts, effects>>

\* The third transient answer: tenacity raises RetryError, which nothing
\* catches, and finish is never called.
RetriesExhausted(w) ==
    /\ In(w, "wait")
    /\ call[w].action \notin ProfileActions
    /\ attempts[w] = MaxAttempts
    /\ Leave(w)
    /\ HangUp(w)
    /\ End(w)
    /\ UNCHANGED <<now, row, effects>>

\* A timeout or an unreadable answer is not in _TRANSIENT_CODES: the tool
\* executor turns it into a failed result at once.
Unclear(w) ==
    /\ In(w, "wait")
    /\ call[w].action \notin ProfileActions
    /\ Advance(w, "refused")
    /\ HangUp(w)
    /\ UNCHANGED <<vars, attempts, effects>>

\* The profile path catches ProfileSchemaError only: a connection error, a
\* timeout or a contract error leaves the node.
ProfileCallRaises(w) ==
    /\ In(w, "wait")
    /\ call[w].action \in ProfileActions
    /\ Leave(w)
    /\ HangUp(w)
    /\ End(w)
    /\ UNCHANGED <<now, row, effects>>

Finish(w) ==
    /\ \/ In(w, "succeeded") /\ FinishRow(w, "executed")
       \/ In(w, "refused") /\ FinishRow(w, "failed")
    /\ Leave(w)
    /\ UNCHANGED <<wire, orphans, effects>>

-----------------------------------------------------------------------------
(* Odoo                                                                    *)

CarriedOut(req) == effects[req.action][req.key] > 0

\* A known key is answered from the record; a new one is carried out once.
Effect(req) ==
    effects' = IF CarriedOut(req)
               THEN effects
               ELSE [effects EXCEPT ![req.action][req.key] = @ + 1]

OdooHandles(w) ==
    LET req == RequestOf(w)
    IN  /\ wire[w] = "request"
        /\ \/ wire' = [wire EXCEPT ![w] = "done"] /\ Effect(req)
           \/ /\ ~CarriedOut(req)
              /\ wire' = [wire EXCEPT ![w] = "declined"]
              /\ UNCHANGED effects
        /\ UNCHANGED <<vars, stage, attempts, orphans>>

OdooHandlesOrphan(req) ==
    /\ orphans' = orphans \ {req}
    /\ \/ Effect(req)
       \/ ~CarriedOut(req) /\ UNCHANGED effects
    /\ UNCHANGED <<vars, stage, attempts, wire>>

-----------------------------------------------------------------------------

\* The SSE client hangs up (the producer task is cancelled) or the process
\* dies, at any await.
Abort(w) ==
    /\ Crash(w)
    /\ Leave(w)
    /\ HangUp(w)
    /\ UNCHANGED effects

\* Everything worker w does on its own once a request has reached it.
WorkerStep(w) ==
    \/ ServiceStep(w) /\ UNCHANGED execVars
    \/ Prepare(w)
    \/ Send(w)
    \/ Answered(w)
    \/ Transient(w)
    \/ RetriesExhausted(w)
    \/ Unclear(w)
    \/ ProfileCallRaises(w)
    \/ Finish(w)

ExecNext ==
    \/ Tick /\ UNCHANGED execVars
    \/ \E w \in Workers :
          \/ Request(w) /\ UNCHANGED execVars
          \/ WorkerStep(w)
          \/ OdooHandles(w)
          \/ Abort(w)
    \/ \E req \in orphans : OdooHandlesOrphan(req)

ExecSpec == ExecInit /\ [][ExecNext]_allVars

-----------------------------------------------------------------------------
(* Properties                                                              *)

Applied(a) == \E k \in Keys : effects[a][k] > 0

\* Odoo has been asked, or may still be asked, only for actions that were
\* confirmed: nothing cancelled, expired or still pending ever reaches it,
\* not even through a request that outlived its sender
\* (claim_execution before execute_write_tool_node).
NothingSentUnconfirmed ==
    \A a \in Actions :
        \/ Applied(a)
        \/ \E w \in Workers : wire[w] = "request" /\ call[w].action = a
        \/ \E req \in orphans : req.action = a
        => Confirmed(a)

\* "executed" is recorded only of an action whose effect exists in Odoo,
\* whichever of several executors recorded it (finish, success=True).
ExecutedIsApplied ==
    \A a \in Actions : row[a].status = "executed" => Applied(a)

\* Three attempts, executors that reclaim a lapsed lease and requests that
\* outlive their sender leave one effect per action: every one of them
\* carries the key stored in the row.
AtMostOneEffect ==
    \A a \in Actions :
        Cardinality({k \in Keys : effects[a][k] > 0}) <= 1

\* What the service promises of an action.
Promise ==
    INSTANCE ActionLifecycle
    WITH status     <- [a \in Actions |-> row[a].status],
         carriedOut <- {a \in Actions : Applied(a)}

ImplementsLifecycle == Promise!Spec
=============================================================================
