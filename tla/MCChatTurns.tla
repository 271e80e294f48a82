---------------------------- MODULE MCChatTurns ----------------------------
(* Small instances of ChatTurns for TLC.                                   *)
EXTENDS ChatTurns, TLC

\* Requests are interchangeable; actions are not, they are ordered by age.
Symmetric == Permutations(Turns)
=============================================================================
