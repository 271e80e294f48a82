---------------------------- MODULE MCReadQuery ----------------------------
(* A small instance of ReadQuery for TLC.                                  *)
EXTENDS ReadQuery, Naturals

Mention(type, found) == [type |-> type, found |-> found]
Message(employee, department, mention) ==
    [whole |-> [employee |-> employee, department |-> department],
     mention |-> mention]

\* 1 and 2 have the same name, 3 has no department and no code.
Employees == 1 .. 3
Units == {2, 3, 4}
WorksIn == [e \in Employees |-> IF e = 3 THEN None ELSE e + 1]

Askers == {[employee |-> 1, department |-> 2],
           [employee |-> 3, department |-> None],
           [employee |-> None, department |-> None]}

Texts ==
    {Message({1, 2}, {}, Mention("other", {})),             \* a bare name
     Message({}, {}, Mention("employee", {1, 2})),          \* with a title
     Message({2}, {}, Mention("employee", {3})),
     Message({3}, {}, Mention("employee", {2, 3})),
     Message({}, {2, 3}, Mention("department", {2, 3})),
     Message({}, {4}, Mention("other", {})),
     Message({1}, {3}, Mention("self", {})),
     Message({}, {}, Mention("own_department", {}))}

\* A department's name may start with the word for it.
Labels == [d \in Units |-> IF d = 2 THEN Mention("department", {2, 3})
                           ELSE Mention("other", {})]
=============================================================================
