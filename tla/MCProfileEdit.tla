--------------------------- MODULE MCProfileEdit ---------------------------
(* Small instances of ProfileEdit for TLC.                                 *)
EXTENDS ProfileEdit, TLC

\* A query that names no field is answered with the form, one that names
\* fields with the questions for their values.
FormOnly == {{}}
ParentOnly == {{"parent"}}
FormOrBoth == {{}, Fields}

\* Turns are interchangeable, and so are the values: a value of child is tied
\* to the value of parent by its name only.
OfValues == Permutations(Values)
Symmetric == Permutations(Workers) \cup OfValues
=============================================================================
