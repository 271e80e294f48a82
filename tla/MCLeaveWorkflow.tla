-------------------------- MODULE MCLeaveWorkflow --------------------------
(* Small instances of LeaveWorkflow for TLC.                               *)
EXTENDS LeaveWorkflow, TLC

CONSTANTS annual, unpaid, ill, travel, r1, r2, p1

Types == {annual, unpaid}
Texts == {ill, travel}
Own == {r1, r2}
\* The number of a colleague may be that of a request.
Mentioned == {r2, p1}

Request(from, to, type, reason) ==
    [date_from |-> from, date_to |-> to, leave_type_id |-> type,
     reason |-> reason]

InOdoo == (r1 :> Request(2, 3, annual, ill)) @@ (r2 :> Request(1, 1, unpaid, ill))

\* No date, one day, two days in the wrong order, everything at once.
Said ==
    [leave_create_request |->
         {<<>>, [date_from |-> 2, date_to |-> 2],
          [date_from |-> 3, date_to |-> 2, reason |-> ill],
          Request(2, 3, annual, ill)},
     leave_update_request |->
         {<<>>, [changes |-> [date_from |-> 3, date_to |-> 1]],
          [changes |-> [date_from |-> 3]]},
     leave_cancel_request |-> {<<>>}]

SpeltOut == {NoChanges, [reason |-> travel], [date_from |-> 3],
             [leave_type_id |-> unpaid],
             [leave_type_id |-> unpaid, reason |-> travel]}
=============================================================================
