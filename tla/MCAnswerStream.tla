--------------------------- MODULE MCAnswerStream ---------------------------
(* Instance of AnswerStream for TLC.                                       *)
EXTENDS AnswerStream

\* Ollama, and the defaults for Groq.
Providers == {[retries |-> 0, repairs |-> 0], [retries |-> 1, repairs |-> 1]}
=============================================================================
