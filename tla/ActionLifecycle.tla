--------------------------- MODULE ActionLifecycle ---------------------------
(***************************************************************************)
(* What a pending action promises the employee who has to confirm it,      *)
(* whatever happens to the requests, the database transactions and the     *)
(* calls to Odoo in between:                                               *)
(*                                                                         *)
(*   - an action is created pending and ends at most once: executed,       *)
(*     failed, cancelled or expired;                                       *)
(*   - Odoo carries it out only after a confirmation, and at most once;    *)
(*   - "executed" is recorded only of an action Odoo carried out.          *)
(*                                                                         *)
(* "failed" promises nothing about Odoo: the answer of a call may be lost  *)
(* after Odoo did the work, or Odoo may do it after the service gave up.   *)
(***************************************************************************)
CONSTANT Actions        \* action identifiers (act-<uuid4>)

VARIABLES
    status,             \* status[a]: PendingActionStatus, or "absent"
    carriedOut          \* the actions whose effect exists in Odoo

vars == <<status, carriedOut>>

Terminal == {"executed", "failed", "cancelled", "expired"}

Statuses == {"absent", "pending", "executing"} \cup Terminal

TypeOK ==
    /\ status \in [Actions -> Statuses]
    /\ carriedOut \subseteq Actions

Init ==
    /\ status = [a \in Actions |-> "absent"]
    /\ carriedOut = {}

Move(a, from, to) ==
    /\ status[a] = from
    /\ status' = [status EXCEPT ![a] = to]
    /\ UNCHANGED carriedOut

Create(a)   == Move(a, "absent", "pending")
Confirm(a)  == Move(a, "pending", "executing")
Cancel(a)   == Move(a, "pending", "cancelled")
Expire(a)   == Move(a, "pending", "expired")
Fail(a)     == Move(a, "executing", "failed")
Execute(a)  == a \in carriedOut /\ Move(a, "executing", "executed")

\* A request that was already on its way may reach Odoo after the service
\* has recorded a failure.
CarryOut(a) ==
    /\ status[a] \in {"executing", "failed"}
    /\ a \notin carriedOut
    /\ carriedOut' = carriedOut \cup {a}
    /\ UNCHANGED status

Next ==
    \E a \in Actions :
        \/ Create(a)
        \/ Confirm(a)
        \/ Cancel(a)
        \/ Expire(a)
        \/ Fail(a)
        \/ Execute(a)
        \/ CarryOut(a)

Spec == Init /\ [][Next]_vars
=============================================================================
