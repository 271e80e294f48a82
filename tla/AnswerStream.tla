---------------------------- MODULE AnswerStream ----------------------------
(***************************************************************************)
(* One streamed turn: the generator that answers POST /chat/stream, the    *)
(* producer task it starts to run the turn, the queue between them, and    *)
(* what the client and the database are left with (api/routers/chat.py,    *)
(* orchestration/nodes/common.py, format_response.py,                      *)
(* persist_conversation.py, answers/service.py).                           *)
(*                                                                         *)
(* The turn asks the language model to classify the query, to find what a  *)
(* profile edit is about or to select a tool, and to word the answer       *)
(* (routing/query_classifier.py, routing/profile_target_resolver.py,       *)
(* routing/tool_selector.py, llm/client.py).  Every call may fail, the     *)
(* generation may break off half way, the database may refuse, and the     *)
(* client may go at any moment.  A turn that confirms a card writes, and   *)
(* does not read (execute_write_tool.py); what that does to the action is  *)
(* in WriteExecution, what a profile edit does in ProfileEdit.             *)
(*                                                                         *)
(* Status events are left out: they do not depend on how the turn ends.    *)
(***************************************************************************)
EXTENDS Integers, Sequences

CONSTANTS
    Settings,           \* values of llm_max_retries and of
                        \* llm_structured_repair_attempts that may be set
    MaxChunks           \* bound: chunks of an answer the model words

\* config.py lets both settings be 0 or 1; Ollama has neither (0 and 0).
ASSUME SettingsAssumption == Settings \subseteq [retries: 0 .. 1, repairs: 0 .. 1]
ASSUME ChunksAssumption == MaxChunks \in Nat

VARIABLES
    settings,           \* the settings of this process
    client,             \* whether the client is still there
    stream,             \* the generator _stream_events
    queue,              \* the asyncio queue between producer and generator
    task,               \* the producer task
    turn,               \* the turn the producer runs
    sent,               \* the events the client got
    stored              \* what the turn stored

vars == <<settings, client, stream, queue, task, turn, sent, stored>>

-----------------------------------------------------------------------------
(* The data                                                                *)

\* A chunk of an answer.  "fallback" is the text that is streamed when the
\* model fails.
Chunks == {"word", "blank", "fallback"}

\* str.strip: blanks go from both ends.
Strip(text) ==
    LET words == {i \in DOMAIN text : text[i] # "blank"}
    IN  IF words = {} THEN <<>>
        ELSE SubSeq(text, CHOOSE i \in words : \A j \in words : i <= j,
                          CHOOSE i \in words : \A j \in words : i >= j)

Formatted == <<"formatted">>        \* fallback_text, of the formatter
OtherText == <<"other">>            \* any text that is not an answer

Event(type, text) == [type |-> type, text |-> text]
End == Event("end", <<>>)           \* the None that ends the queue

AnswerEvents == {"answer_start", "answer_delta", "answer_done"}
Outcomes == {"answer", "error", "other"}

Stages == {"classify", "target", "retrieve", "select", "read", "write",
           "format", "wording", "worded", "user", "assistant", "return"}

MaxAttempts == 3                    \* stop_after_attempt(3)

\* at is the stage of the turn; tries counts the retries of the current call
\* of the model or of Odoo, and repair says that it asks for a repair;
\* requests counts all requests that calls for structured output made;
\* resumed is resume_deferred_query; answer says how much of an answer was
\* streamed; type and text are response_type and response_text.
NoTurn == [at |-> "classify", tries |-> 0, repair |-> FALSE, requests |-> 0,
           resumed |-> FALSE, answer |-> "none", chunks |-> <<>>,
           type |-> "none", text |-> <<>>]

\* getter is the task waiting for the queue, item what it took from it;
\* result stands for result_holder and failed.
NoStream == [at |-> "opening", getter |-> "none", item |-> End,
             streamed |-> FALSE, alive |-> FALSE]

NoTask == [at |-> "none", result |-> "none", text |-> <<>>]

Init ==
    /\ settings \in Settings
    /\ client = "there"
    /\ stream = NoStream
    /\ queue = <<>>
    /\ task = NoTask
    /\ turn = NoTurn
    /\ sent = <<>>
    /\ stored = [user |-> FALSE, row |-> "none", text |-> <<>>]

-----------------------------------------------------------------------------
(* The generator                                                           *)

OfStream == <<settings, client, turn, stored>>

Send(event) == sent' = Append(sent, event)

Open ==
    /\ client = "there"
    /\ stream.at = "opening"
    /\ stream' = [stream EXCEPT !.at = "waiting", !.getter = "pending"]
    /\ task' = [task EXCEPT !.at = "running"]
    /\ UNCHANGED <<OfStream, queue, sent>>

\* The task that queue.get() runs in.
GetterTakes ==
    /\ stream.getter = "pending"
    /\ queue # <<>>
    /\ stream' = [stream EXCEPT !.getter = "done", !.item = Head(queue)]
    /\ queue' = Tail(queue)
    /\ UNCHANGED <<OfStream, task, sent>>

\* Mutant of KeepAlive: the wait gives up its task, and what it took is lost.
KeepAliveNewGetter ==
    /\ client = "there"
    /\ stream.at = "waiting" /\ stream.getter # "none"
    /\ stream' = [stream EXCEPT !.alive = TRUE, !.getter = "pending"]
    /\ UNCHANGED <<OfStream, queue, task, sent>>

\* Nothing came for 15 seconds: the same task is waited for again.
KeepAlive ==
    /\ client = "there"
    /\ stream.at = "waiting" /\ stream.getter = "pending"
    /\ ~stream.alive
    /\ stream' = [stream EXCEPT !.alive = TRUE]
    /\ UNCHANGED <<OfStream, queue, task, sent>>

Deliver ==
    /\ client = "there"
    /\ stream.at = "waiting" /\ stream.getter = "done"
    /\ stream.item # End
    /\ Send(stream.item)
    /\ stream' = [stream EXCEPT !.getter = "pending", !.streamed = TRUE,
                                !.alive = FALSE]
    /\ UNCHANGED <<OfStream, queue, task>>

DeliverEnd ==
    /\ client = "there"
    /\ stream.at = "waiting" /\ stream.getter = "done"
    /\ stream.item = End
    /\ stream' = [stream EXCEPT !.at = "joining", !.getter = "none"]
    /\ UNCHANGED <<OfStream, queue, task, sent>>

\* Mutant of Shown: whether something was streamed is all that is asked.
ShownIfStreamed == stream.streamed

\* The answer was shown as it was worded.
Shown == stream.streamed /\ task.result = "answer"

\* "await task", and the event that ends the answer, if it needs one.
Conclude ==
    /\ client = "there"
    /\ stream.at = "joining" /\ task.at = "ended"
    /\ stream' = [stream EXCEPT !.at = "concluded"]
    /\ IF task.result = "none" THEN Send(Event("error", OtherText))
       ELSE IF Shown THEN UNCHANGED sent
       ELSE Send(Event(task.result, task.text))
    /\ UNCHANGED <<OfStream, queue, task>>

Done ==
    /\ client = "there"
    /\ stream.at = "concluded"
    /\ Send(Event("done", <<>>))
    /\ stream' = [stream EXCEPT !.at = "over"]
    /\ UNCHANGED <<OfStream, queue, task>>

ClientGoes ==
    /\ client = "there"
    /\ stream.at # "over"
    /\ client' = "gone"
    /\ UNCHANGED <<settings, stream, queue, task, turn, sent, stored>>

\* The web server cancels the response: the generator ends where it is, its
\* finally clause cancels the getter and then the producer and waits for it.
Close ==
    /\ client = "gone"
    /\ stream.at # "over"
    /\ stream' = [stream EXCEPT !.at = "over", !.getter = "none"]
    /\ task' = [task EXCEPT !.at = IF @ = "running" THEN "cancelling" ELSE @]
    /\ UNCHANGED <<OfStream, queue, sent>>

\* The server's cancel scope cancels again at every await.  Waiting for the
\* cancelled getter is one: the producer is then not cancelled any more.
CloseInterrupted ==
    /\ client = "gone"
    /\ stream.at = "waiting" /\ stream.getter = "pending"
    /\ stream' = [stream EXCEPT !.at = "over", !.getter = "none"]
    /\ UNCHANGED <<OfStream, queue, task, sent>>

-----------------------------------------------------------------------------
(* The producer and the end of its turn                                    *)

OfProducer == <<settings, client, stream, sent>>

Running(at) == task.at = "running" /\ turn.at = at

\* Mutant of Produced: the end of the queue is put after a result only.
ProducedOnSuccess(result, text) ==
    /\ task' = [at |-> "ended", result |-> result, text |-> text]
    /\ queue' = IF result = "none" THEN queue ELSE Append(queue, End)

\* The task ends; its finally clause puts the end into the queue.
Produced(result, text) ==
    /\ task' = [at |-> "ended", result |-> result, text |-> text]
    /\ queue' = Append(queue, End)

Return ==
    /\ Running("return")
    /\ Produced(turn.type, turn.text)
    /\ UNCHANGED <<OfProducer, turn, stored>>

\* process() makes an error result of a ConversationStateError, of a
\* PendingActionError, of too many steps and of any RuntimeError; produce()
\* logs every other exception.
Raises ==
    /\ task.at = "running" /\ turn.at # "return"
    /\ Produced("error", OtherText) \/ Produced("none", <<>>)
    /\ UNCHANGED <<OfProducer, turn, stored>>

\* CancelledError passes both.
Cancelled ==
    /\ task.at = "cancelling"
    /\ Produced("none", <<>>)
    /\ UNCHANGED <<OfProducer, turn, stored>>

-----------------------------------------------------------------------------
(* Calls of the model for structured output                                *)

OfTurn == <<settings, client, stream, task, sent>>

\* The turn goes on at stage at; a call that comes next is a new one.
GoTo(at) == turn' = [turn EXCEPT !.at = at, !.tries = 0, !.repair = FALSE]
Respond(type, text) ==
    turn' = [turn EXCEPT !.at = "user", !.type = type, !.text = text,
                         !.tries = 0, !.repair = FALSE]

\* Mutant of MayRetry: a repair is retried like a first request.
MayRetryRepair == turn.tries < settings.retries

\* _request_with_retry: after 429 with a short Retry-After, 502, 503 or 504.
MayRetry == ~turn.repair /\ turn.tries < settings.retries

\* complete_structured: content that does not fit the schema may be repaired.
MayRepair == ~turn.repair /\ settings.repairs > 0

Calling == task.at = "running" /\ turn.at \in {"classify", "target", "select"}
Requested == turn.requests + 1

RequestAgain ==
    /\ Calling
    /\ \/ /\ MayRetry
          /\ turn' = [turn EXCEPT !.tries = @ + 1, !.requests = Requested]
       \/ /\ MayRepair
          /\ turn' = [turn EXCEPT !.repair = TRUE, !.tries = 0,
                                  !.requests = Requested]
    /\ UNCHANGED <<OfTurn, queue, stored>>

\* The call is over, after so many requests; the turn goes on at stage at, or
\* has its response.
Over(at, requests) ==
    turn' = [turn EXCEPT !.at = at, !.tries = 0, !.repair = FALSE,
                         !.requests = requests]
Answered(at, type, requests) ==
    turn' = [turn EXCEPT !.at = at, !.tries = 0, !.repair = FALSE,
                         !.requests = requests, !.type = type,
                         !.text = OtherText]

\* route_after_classification: a response that is there is formatted.
AfterClassification ==
    IF turn.type = "none" THEN {"retrieve", "target"} ELSE {"user"}

\* route_after_profile_write: the flag is never reset, so that a turn that
\* resumed a deferred profile edit classifies it once more when it is done.
AfterProfileWrite == IF turn.resumed THEN "classify" ELSE "user"

\* A usable answer.  The profile write it is for ends in a form, a question, a
\* card or a draft; a tool that is selected is a read, or ends in a question,
\* a card, or nothing.
RequestSucceeds ==
    /\ Calling
    /\ \/ /\ turn.at = "classify"
          /\ \E next \in AfterClassification : Over(next, Requested)
       \/ /\ turn.at = "target"
          /\ \E type \in Outcomes : Answered(AfterProfileWrite, type, Requested)
       \/ /\ turn.at = "select"
          /\ Over("read", Requested) \/ Answered("user", "other", Requested)
    /\ UNCHANGED <<OfTurn, queue, stored>>

\* A timeout, a refusal, a lost connection, any other status, or a request
\* that may not be made again.  classify_query_node and select_tool_node
\* answer that the service is not available, whatever the response was;
\* resolve_profile_write_node asks for the section.
RequestFails ==
    /\ Calling
    /\ \/ turn.at = "target" /\ Answered(AfterProfileWrite, "other", Requested)
       \/ turn.at # "target" /\ Answered("user", "error", Requested)
    /\ UNCHANGED <<OfTurn, queue, stored>>

\* The button that discards a draft goes back to the query that was held back
\* (_resume_deferred_profile_query); nothing was classified yet.
Resume ==
    /\ Running("classify") /\ turn.tries = 0 /\ ~turn.repair
    /\ ~turn.resumed
    /\ turn' = [turn EXCEPT !.resumed = TRUE]
    /\ UNCHANGED <<OfTurn, queue, stored>>

\* Rules and the guardrail classify without the model; an answer to an open
\* question goes to its tool or to the profile write at once; a confirmation
\* that claims its action goes to the write; other turns end without a query.
WithoutClassifier ==
    /\ Running("classify") /\ turn.tries = 0 /\ ~turn.repair
    /\ \/ \E next \in AfterClassification : GoTo(next)
       \/ ~turn.resumed /\ (GoTo("read") \/ GoTo("write"))
       \/ ~turn.resumed /\ Respond("other", OtherText)
    /\ UNCHANGED <<OfTurn, queue, stored>>

\* The target is settled, or the query names it word for word.
WithoutResolver ==
    /\ Running("target") /\ turn.tries = 0 /\ ~turn.repair
    /\ \E type \in Outcomes : Answered(AfterProfileWrite, type, turn.requests)
    /\ UNCHANGED <<OfTurn, queue, stored>>

\* One candidate that fits is selected without the model.
Retrieve ==
    /\ Running("retrieve")
    /\ GoTo("select") \/ GoTo("read") \/ Respond("other", OtherText)
    /\ UNCHANGED <<OfTurn, queue, stored>>

-----------------------------------------------------------------------------
(* The read, its answer and what is stored                                 *)

Emit(event) == queue' = Append(queue, event)

\* The tool is denied, fails, finds nothing or finds something.  The row says
\* which before the answer is worded.
ReadTool ==
    /\ Running("read")
    /\ \/ /\ stored' = [stored EXCEPT !.row = "failed"]
          /\ Respond("error", OtherText)
       \/ /\ stored' = [stored EXCEPT !.row = "completed"]
          /\ Respond("answer", OtherText) \/ GoTo("format")
    /\ UNCHANGED <<OfTurn, queue>>

\* Odoo's answer to a tool action is transient: another attempt, up to three.
WriteAgain ==
    /\ Running("write")
    /\ turn.tries + 1 < MaxAttempts
    /\ turn' = [turn EXCEPT !.tries = @ + 1]
    /\ UNCHANGED <<OfTurn, queue, stored>>

\* The third transient answer: RetryError is no RuntimeError, and process()
\* does not make a result of it.
WriteGivesUp ==
    /\ Running("write")
    /\ turn.tries + 1 = MaxAttempts
    /\ Produced("none", <<>>)
    /\ UNCHANGED <<OfProducer, turn, stored>>

\* Any other answer is final: the row says how it went, or asks for other
\* changes of a leave request, before the turn has its text.
WriteEnds ==
    /\ Running("write")
    /\ \/ /\ stored' = [stored EXCEPT !.row = "completed"]
          /\ Respond("answer", OtherText)
       \/ /\ \E row \in {"failed", "asks"} :
                stored' = [stored EXCEPT !.row = row]
          /\ Respond("error", OtherText)
    /\ UNCHANGED <<OfTurn, queue>>

\* A context that cannot be built leaves the formatter's text: KeyError,
\* TypeError and ValueError are caught.
Format ==
    /\ Running("format")
    /\ \/ /\ Emit(Event("answer_start", <<>>))
          /\ turn' = [turn EXCEPT !.at = "wording", !.answer = "begun"]
       \/ UNCHANGED queue /\ Respond("answer", Formatted)
    /\ UNCHANGED <<OfTurn, stored>>

Word(chunk, at) ==
    /\ turn' = [turn EXCEPT !.at = at, !.chunks = Append(@, chunk)]
    /\ Emit(Event("answer_delta", <<chunk>>))

Chunk ==
    /\ Running("wording")
    /\ Len(turn.chunks) < MaxChunks
    /\ \E chunk \in {"word", "blank"} : Word(chunk, "wording")
    /\ UNCHANGED <<OfTurn, stored>>

WordingEnds ==
    /\ Running("wording")
    /\ turn.chunks # <<>>
    /\ GoTo("worded")
    /\ UNCHANGED <<OfTurn, queue, stored>>

\* No chunk came, or the model failed, perhaps after some chunks: the text
\* made without it follows what was already said.
WordingFails ==
    /\ Running("wording")
    /\ Word("fallback", "worded")
    /\ UNCHANGED <<OfTurn, stored>>

\* So are they after the answer was begun.  The text that follows a failure
\* may raise one of them itself (a count that is a list cannot be looked up),
\* perhaps after some chunks: the answer is not closed, and the formatter's
\* text takes its place.
WordingBreaks ==
    /\ Running("wording")
    /\ Respond("answer", Formatted)
    /\ UNCHANGED <<OfTurn, queue, stored>>

\* What the model said, or the formatter's text when that is blank.
AnswerText(chunks) == IF Strip(chunks) = <<>> THEN Formatted ELSE Strip(chunks)

Worded ==
    /\ Running("worded")
    /\ turn' = [turn EXCEPT !.at = "user", !.answer = "closed",
                            !.type = "answer", !.text = AnswerText(turn.chunks)]
    /\ Emit(Event("answer_done", AnswerText(turn.chunks)))
    /\ UNCHANGED <<OfTurn, stored>>

\* The two messages are two transactions.  A click stores no message.
PersistUser ==
    /\ Running("user")
    /\ \/ stored' = [stored EXCEPT !.user = TRUE]
       \/ UNCHANGED stored
    /\ GoTo("assistant")
    /\ UNCHANGED <<OfTurn, queue>>

PersistAssistant ==
    /\ Running("assistant")
    /\ stored' = [stored EXCEPT !.text = turn.text]
    /\ GoTo("return")
    /\ UNCHANGED <<OfTurn, queue>>

-----------------------------------------------------------------------------

Generator ==
    \/ Open \/ GetterTakes \/ KeepAlive \/ Deliver \/ DeliverEnd
    \/ Conclude \/ Done \/ Close \/ CloseInterrupted

Producer ==
    \/ Resume \/ WithoutClassifier \/ WithoutResolver
    \/ RequestAgain \/ RequestSucceeds \/ RequestFails
    \/ Retrieve \/ ReadTool \/ WriteAgain \/ WriteGivesUp \/ WriteEnds
    \/ Format \/ Chunk \/ WordingEnds \/ WordingFails \/ WordingBreaks \/ Worded
    \/ PersistUser \/ PersistAssistant
    \/ Return \/ Raises \/ Cancelled

\* The stream is over and nothing runs any more.
Finished ==
    /\ stream.at = "over" /\ task.at \in {"none", "ended"}
    /\ UNCHANGED vars

Next == Generator \/ Producer \/ ClientGoes \/ Finished

\* The event loop runs every task that can go on, and every call of the model
\* and of Odoo has a timeout.
Spec == Init /\ [][Next]_vars /\ WF_vars(Generator) /\ WF_vars(Producer)

-----------------------------------------------------------------------------
(* Properties                                                              *)

Texts == Seq(Chunks) \cup {Formatted, OtherText}
Events == [type : AnswerEvents \cup Outcomes \cup {"end", "done"}, text : Texts]
Tasks == [at : {"none", "running", "cancelling", "ended"},
          result : Outcomes \cup {"none"}, text : Texts]
Turns == [at : Stages, tries : Nat, repair : BOOLEAN, requests : Nat,
          resumed : BOOLEAN, answer : {"none", "begun", "closed"},
          chunks : Seq(Chunks), type : Outcomes \cup {"none"}, text : Texts]

\* Every variable keeps its shape.
StreamTypeOK ==
    /\ settings \in Settings /\ client \in {"there", "gone"}
    /\ stream \in [at : {"opening", "waiting", "joining", "concluded", "over"},
                   getter : {"none", "pending", "done"}, item : Events,
                   streamed : BOOLEAN, alive : BOOLEAN]
    /\ queue \in Seq(Events) /\ sent \in Seq(Events)
    /\ task \in Tasks /\ turn \in Turns
    /\ Len(turn.chunks) <= MaxChunks + 1
    /\ stored \in [user : BOOLEAN, text : Texts,
                   row : {"none", "failed", "completed", "asks"}]

Kept == stream.at = "over" /\ client = "there"
Received(types) == {i \in DOMAIN sent : sent[i].type \in types}

\* A client that stays gets one answer: the last event is the only "done", at
\* most one event, the one before it, concludes the turn, and that one is left
\* out exactly if a worded answer was begun and the turn succeeded: a turn that
\* fails after its answer was shown still says so.  The answer that was begun
\* is then closed, with one exception: when wording it broke, the client is
\* told neither the text nor that there is one (_stream_events,
\* format_response_node).
EndsWithOneOutcome ==
    Kept => /\ Received({"done"}) = {Len(sent)}
            /\ Received(Outcomes)
                 = IF Received({"answer_start"}) # {} /\ task.result = "answer"
                   THEN {} ELSE {Len(sent) - 1}
            /\ Received(Outcomes \cup {"answer_done"}) = {}
                 => task.text = Formatted

\* What a client was shown is what the conversation has when it is loaded
\* again, if no error was reported: after the start of an answer there are
\* only its chunks, and the read is recorded as completed; the text that
\* closes them is the stored message, and so are they, in their order.  An
\* answer that is not closed is not stored: the formatter's text is, which
\* the client never saw (format_response_node, persist_conversation_node).
ShownIsStored ==
    Kept /\ Received({"error"}) = {}
        => /\ Received(AnswerEvents) # {} =>
                LET closed == Received({"answer_done"}) # {}
                    last == IF closed THEN Len(sent) - 1 ELSE Len(sent)
                    said == [i \in 1 .. last - 2 |-> sent[i + 1].text[1]]
                IN  /\ stored.row = "completed"
                    /\ stored.text # <<>>
                    /\ sent[1] = Event("answer_start", <<>>)
                    /\ \A i \in DOMAIN said :
                          sent[i + 1] = Event("answer_delta", <<said[i]>>)
                    /\ IF closed
                       THEN /\ sent[last] = Event("answer_done", stored.text)
                            /\ Strip(said) \in {stored.text, <<>>}
                       ELSE stored.text = Formatted
           /\ \A i \in Received(Outcomes) : sent[i].text = stored.text

\* A turn makes a bounded number of requests to the model before its answer,
\* whatever mixture of rate limits and unusable answers it meets: two calls,
\* to classify and to select a tool or to find the target of a profile edit,
\* and a third one when a profile edit was held back by an unsaved draft and
\* is classified again after it (_request_with_retry, complete_structured: a
\* repair is not retried; route_after_profile_write).
LlmRequestsBounded ==
    turn.requests <= (IF turn.resumed THEN 3 ELSE 2)
                        * (1 + settings.retries + settings.repairs)

\* However the turn fails and whenever the client goes, the response ends and
\* no producer is left behind running (produce, _stream_events).
StreamEnds == <>[](stream.at = "over" /\ task.at \in {"none", "ended"})
=============================================================================
