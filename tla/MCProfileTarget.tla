-------------------------- MODULE MCProfileTarget --------------------------
(* A small instance of ProfileTarget for TLC.                              *)
EXTENDS ProfileTarget

CONSTANTS r1, r2, title, number

\* The title is that of r1; the number is in the title of r1 and the id of r2.
NumberOfText == [t \in {title, number} |-> IF t = number THEN r2 ELSE None]
OneMatches(reference, among) ==
    among \cap (IF reference = r2 THEN {r2} ELSE {r1})

Resolution(section, resource, keys, reference, unclear) ==
    [section |-> section, resource |-> resource, keys |-> keys,
     reference |-> reference, unclear |-> unclear]

\* Nothing, a field, a resource, a row by its title, a field of a row, and
\* one of two fields.
SomeResolutions ==
    {Resolution(None, None, {}, None, TRUE),
     Resolution("profile", None, {}, None, TRUE),
     Resolution("profile", None, {"alias"}, None, FALSE),
     Resolution("profile", None, {"degree"}, None, FALSE),
     Resolution("profile", "contact", {}, None, FALSE),
     Resolution("profile", "edu", {}, title, FALSE),
     Resolution("profile", "edu", {"name"}, None, FALSE),
     Resolution("profile", "edu", {"name", "place"}, None, TRUE)}
=============================================================================
