-------------------------- MODULE MCPendingActions --------------------------
(* Small instances of PendingActions for TLC.                              *)
EXTENDS PendingActions, TLC

\* Workers, actions, users and conversations are interchangeable: every property quantifies over
\* all of them and none is named.
Symmetric == Permutations(Workers) \cup Permutations(Actions)
                \cup Permutations(Users) \cup Permutations(Conversations)
=============================================================================
