------------------------ MODULE AnswerStream_proofs ------------------------
(***************************************************************************)
(* Theorems about AnswerStream, for answers of any length and every        *)
(* setting of the retries and repairs.                                     *)
(*                                                                         *)
(* The events travel from the producer through the queue and the getter to *)
(* the client.  Wherever they are, they form one log, which is known from  *)
(* the turn alone: EventAt(k) is its k-th event, Made the number of events *)
(* produced.  The invariant says so (Travelling), up to the point where    *)
(* the generator adds the events of its own (Got).                         *)
(***************************************************************************)
EXTENDS AnswerStream, SequenceTheorems, FiniteSetTheorems, TLAPS

-----------------------------------------------------------------------------
(* The log                                                                 *)

\* How many events of its answer the turn has emitted.
Count == IF turn.answer = "none" THEN 0
         ELSE Len(turn.chunks) + (IF turn.answer = "closed" THEN 2 ELSE 1)

\* The event with the number k.  What follows the answer is the end.
EventAt(k) ==
    IF k > Count THEN End
    ELSE IF k = 1 THEN Event("answer_start", <<>>)
    ELSE IF k = Len(turn.chunks) + 2
         THEN Event("answer_done", AnswerText(turn.chunks))
    ELSE Event("answer_delta", <<turn.chunks[k - 1]>>)

Made == Count + (IF task.at = "ended" THEN 1 ELSE 0)

Held == IF stream.getter = "done" THEN 1 ELSE 0

\* The events are the client's, the getter's and the queue's, in this order.
Travelling ==
    /\ Len(sent) + Held + Len(queue) = Made
    /\ \A i \in 1 .. Len(sent) : sent[i] = EventAt(i)
    /\ Held = 1 => stream.item = EventAt(Len(sent) + 1)
    /\ \A i \in 1 .. Len(queue) : queue[i] = EventAt(Len(sent) + Held + i)
    /\ stream.streamed <=> Len(sent) > 0

\* The answer was shown, and the turn succeeded.
Well == Count > 0 /\ task.result = "answer"
Extra == IF Well THEN 0 ELSE 1
Outcome == IF task.result = "none" THEN Event("error", OtherText)
           ELSE Event(task.result, task.text)

\* What the client got once the queue has ended.
Got(extra) ==
    /\ task.at = "ended"
    /\ Len(sent) = Count + extra
    /\ \A i \in 1 .. Count : sent[i] = EventAt(i)
    /\ stream.streamed <=> Count > 0

StreamInv ==
    /\ stream.at = "opening" => task.at = "none"
    /\ stream.at # "waiting" => stream.getter = "none"
    /\ stream.at \in {"opening", "waiting"} => Travelling
    /\ stream.at = "joining" => Got(0)
    /\ stream.at = "concluded" => Got(Extra)
    /\ Kept => Got(Extra + 1) /\ sent[Len(sent)] = Event("done", <<>>)
    /\ (stream.at = "concluded" \/ Kept) /\ ~Well => sent[Count + 1] = Outcome

\* What is known of the turn, and of what it has stored, at its stages.
Late == {"user", "assistant", "return"}

TurnInv ==
    /\ turn.at \in {"format", "wording", "worded"} => stored.row = "completed"
    /\ turn.at \in {"wording", "worded"} <=>
          turn.answer # "none" /\ turn.at \notin Late
    /\ turn.answer = "closed" => turn.at \in Late
    /\ turn.answer = "none" => turn.chunks = <<>>
    /\ turn.at = "wording" => Len(turn.chunks) <= MaxChunks
    /\ turn.at \in Late /\ turn.answer # "none" =>
         /\ turn.type = "answer"
         /\ turn.text = IF turn.answer = "closed" THEN AnswerText(turn.chunks)
                                                  ELSE Formatted
         /\ stored.row = "completed"
    /\ turn.at \in Late => turn.type # "none"
    /\ turn.at = "classify" /\ ~turn.resumed => turn.type = "none"
    /\ turn.at = "return" => stored.text = turn.text

\* A turn that came to its end without an exception has its own result.
TaskInv ==
    /\ task.at = "none" => turn = NoTurn
    /\ task.at # "ended" => task.result = "none"
    /\ task.result \in {"answer", "other"} =>
         turn.at = "return" /\ task.result = turn.type /\ task.text = turn.text

\* The requests made: those of the calls that are over, and those of the call
\* that is under way.
Calls(n) == n * (1 + settings.retries + settings.repairs)
Under(n) ==
    IF turn.repair
    THEN /\ settings.repairs = 1 /\ turn.tries = 0
         /\ turn.requests <= Calls(n) + settings.retries + 1
    ELSE /\ turn.tries <= settings.retries
         /\ turn.requests <= Calls(n) + turn.tries

\* A turn that classifies its query again has made two calls before.
RequestInv ==
    /\ turn.requests <= Calls(IF turn.resumed THEN 3 ELSE 2)
    /\ turn.at = "classify" => Under(IF turn.type = "none" THEN 0 ELSE 2)
    /\ turn.at = "retrieve" => turn.requests <= Calls(1)
    /\ turn.at \in {"target", "select"} => Under(1)

StreamIInv == StreamTypeOK /\ StreamInv /\ TurnInv /\ TaskInv /\ RequestInv

-----------------------------------------------------------------------------
(* Texts                                                                   *)

IsInterval(t) == \E a, b \in Nat : t = a .. b

\* Every set of intervals has one that includes no other.
LEMMA SmallestInterval ==
    ASSUME NEW T, T # {}, \A t \in T : IsInterval(t)
    PROVE  \E t \in T : \A u \in T : u \subseteq t => u = t
<1> DEFINE R == StrictSubsetOrdering(Nat)
<1>1. T \subseteq FiniteSubsetsOf(Nat)
  <2> SUFFICES ASSUME NEW t \in T
               PROVE  t \in SUBSET Nat /\ IsFiniteSet(t)
    BY DEF FiniteSubsetsOf
  <2>1. PICK a, b \in Nat : t = a .. b
    BY DEF IsInterval
  <2>2. IsFiniteSet(a .. b)
    BY FS_Interval
  <2>3. a .. b \subseteq Nat
    OBVIOUS
  <2> QED
    BY <2>1, <2>2, <2>3
<1>2. IsWellFoundedOn(R, FiniteSubsetsOf(Nat))
  BY FS_StrictSubsetOrderingWellFounded
<1>3. PICK t \in T : \A u \in T : ~ (<<u, t>> \in R)
  <2> HIDE DEF R
  <2> QED
    BY <1>1, <1>2, WFMin
<1>4. ASSUME NEW u \in T, u \subseteq t
      PROVE  u = t
  <2>1. u \in SUBSET Nat /\ t \in SUBSET Nat
    BY <1>1 DEF FiniteSubsetsOf
  <2> QED
    BY <1>3, <1>4, <2>1 DEF StrictSubsetOrdering
<1> QED
  BY <1>4

\* A set of numbers that is not empty has a least one.
LEMMA LeastExists ==
    ASSUME NEW S \in SUBSET Nat, S # {}
    PROVE  \E i \in S : \A j \in S : i <= j
<1> DEFINE T == {0 .. i : i \in S}
<1>1. T # {}
  OBVIOUS
<1>2. \A t \in T : IsInterval(t)
  <2> SUFFICES ASSUME NEW i \in S
               PROVE  IsInterval(0 .. i)
    OBVIOUS
  <2> QED
    BY DEF IsInterval
<1>3. PICK t \in T : \A u \in T : u \subseteq t => u = t
  <2> HIDE DEF T
  <2> QED
    BY <1>1, <1>2, SmallestInterval
<1>4. PICK i \in S : t = 0 .. i
  BY <1>3
<1>5. ASSUME NEW j \in S
      PROVE  i <= j
  <2>1. CASE i > j
    <3>1. 0 .. j \subseteq 0 .. i /\ 0 .. j \in T
      BY <2>1
    <3>2. 0 .. j = 0 .. i
      BY <1>3, <1>4, <3>1
    <3>3. i \in 0 .. i /\ i \notin 0 .. j
      BY <2>1
    <3> QED
      BY <3>2, <3>3
  <2> QED
    BY <2>1
<1> QED
  BY <1>5

\* A set of numbers up to n that is not empty has a greatest one.
LEMMA GreatestExists ==
    ASSUME NEW n \in Nat, NEW S \in SUBSET (1 .. n), S # {}
    PROVE  \E i \in S : \A j \in S : i >= j
<1> DEFINE T == {i .. n : i \in S}
<1>1. T # {}
  OBVIOUS
<1>2. \A t \in T : IsInterval(t)
  <2> SUFFICES ASSUME NEW i \in S
               PROVE  IsInterval(i .. n)
    OBVIOUS
  <2>1. i \in Nat
    OBVIOUS
  <2> QED
    BY <2>1 DEF IsInterval
<1>3. PICK t \in T : \A u \in T : u \subseteq t => u = t
  <2> HIDE DEF T
  <2> QED
    BY <1>1, <1>2, SmallestInterval
<1>4. PICK i \in S : t = i .. n
  BY <1>3
<1>5. ASSUME NEW j \in S
      PROVE  i >= j
  <2>1. CASE i < j
    <3>1. j .. n \subseteq i .. n /\ j .. n \in T
      BY <2>1
    <3>2. j .. n = i .. n
      BY <1>3, <1>4, <3>1
    <3>3. i \in i .. n /\ i \notin j .. n
      BY <2>1
    <3> QED
      BY <3>2, <3>3
  <2> QED
    BY <2>1
<1> QED
  BY <1>5

\* What is left after strip is made of the same chunks.
LEMMA StripTyped ==
    ASSUME NEW text \in Seq(Chunks)
    PROVE  Strip(text) \in Seq(Chunks)
<1> DEFINE words == {i \in DOMAIN text : text[i] # "blank"}
           first == CHOOSE i \in words : \A j \in words : i <= j
           final == CHOOSE i \in words : \A j \in words : i >= j
<1>1. DOMAIN text = 1 .. Len(text) /\ Len(text) \in Nat
  OBVIOUS
<1>2. CASE words = {}
  BY <1>2 DEF Strip
<1>3. CASE words # {}
  <2>0. words \in SUBSET Nat /\ words \in SUBSET (1 .. Len(text))
    BY <1>1
  <2>1. first \in words
    <3>1. \E i \in words : \A j \in words : i <= j
      <4> HIDE DEF words
      <4> QED
        BY <1>3, <2>0, LeastExists
    <3> QED
      BY <3>1
  <2>2. final \in words
    <3>1. \E i \in words : \A j \in words : i >= j
      <4> HIDE DEF words
      <4> QED
        BY <1>1, <1>3, <2>0, GreatestExists
    <3> QED
      BY <3>1
  <2>3. first \in 1 .. Len(text) /\ final \in 1 .. Len(text)
    BY <2>0, <2>1, <2>2
  <2>4. SubSeq(text, first, final) \in Seq(Chunks)
    <3> HIDE DEF first, final
    <3>1. \A i \in first .. final : text[i] \in Chunks
      BY <1>1, <2>3
    <3> QED
      BY <1>1, <2>3, <3>1, SubSeqProperties
  <2> QED
    BY <1>3, <2>4 DEF Strip
<1> QED
  BY <1>2, <1>3

LEMMA AnswerTextTyped ==
    ASSUME NEW text \in Seq(Chunks)
    PROVE  /\ AnswerText(text) \in Texts
           /\ AnswerText(text) # <<>>
           /\ Strip(text) \in {AnswerText(text), <<>>}
<1>1. Formatted # <<>>
  BY DEF Formatted
<1> QED
  BY <1>1, StripTyped DEF AnswerText, Texts

-----------------------------------------------------------------------------
(* Types                                                                   *)

LEMMA KnownTexts ==
    /\ <<>> \in Texts /\ OtherText \in Texts /\ Formatted \in Texts
    /\ Seq(Chunks) \subseteq Texts
    /\ OtherText # <<>> /\ Formatted # <<>>
  BY DEF Texts, OtherText, Formatted

\* The events the turn and the generator emit.
LEMMA KnownEvents ==
    /\ End \in Events
    /\ Event("done", <<>>) \in Events
    /\ Event("answer_start", <<>>) \in Events
    /\ \A chunk \in Chunks : Event("answer_delta", <<chunk>>) \in Events
    /\ \A text \in Texts : Event("answer_done", text) \in Events
    /\ \A type \in Outcomes, text \in Texts : Event(type, text) \in Events
<1>1. \A chunk \in Chunks : <<chunk>> \in Seq(Chunks)
  OBVIOUS
<1> QED
  BY <1>1, KnownTexts DEF Events, Event, End, AnswerEvents, Outcomes

LEMMA InitTyped == Init => StreamTypeOK
<1> SUFFICES ASSUME Init
             PROVE  StreamTypeOK
  OBVIOUS
<1>1. <<>> \in Seq(Events) /\ <<>> \in Seq(Chunks) /\ Len(<<>>) = 0
  OBVIOUS
<1>2. Len(<<>>) <= MaxChunks + 1
  BY <1>1, ChunksAssumption
<1> QED
  BY <1>1, <1>2, KnownTexts, KnownEvents
  DEF Init, StreamTypeOK, NoStream, NoTask, NoTurn, Stages, Outcomes, Tasks, Turns

LEMMA GeneratorTyped ==
    ASSUME StreamTypeOK, Generator
    PROVE  StreamTypeOK'
<1> USE DEF StreamTypeOK, OfStream, Tasks
<1>1. CASE Open
  BY <1>1 DEF Open
<1>2. CASE GetterTakes
  <2>1. Head(queue) \in Events /\ Tail(queue) \in Seq(Events)
    BY <1>2, HeadTailProperties DEF GetterTakes
  <2> QED
    BY <1>2, <2>1 DEF GetterTakes
<1>3. CASE KeepAlive
  BY <1>3 DEF KeepAlive
<1>4. CASE Deliver
  <2>1. sent' \in Seq(Events)
    BY <1>4, AppendProperties DEF Deliver, Send
  <2> QED
    BY <1>4, <2>1 DEF Deliver
<1>5. CASE DeliverEnd
  BY <1>5 DEF DeliverEnd
<1>6. CASE Conclude
  <2>1. Event("error", OtherText) \in Events
    BY KnownTexts, KnownEvents DEF Outcomes
  <2>2. task.result # "none" => Event(task.result, task.text) \in Events
    BY KnownEvents
  <2>3. \A event \in Events : Append(sent, event) \in Seq(Events)
    BY AppendProperties
  <2>4. sent' \in Seq(Events)
    BY <1>6, <2>1, <2>2, <2>3 DEF Conclude, Send
  <2> QED
    BY <1>6, <2>4 DEF Conclude
<1>7. CASE Done
  <2>1. sent' \in Seq(Events)
    BY <1>7, AppendProperties, KnownEvents DEF Done, Send
  <2> QED
    BY <1>7, <2>1 DEF Done
<1>8. CASE Close
  BY <1>8 DEF Close
<1>9. CASE CloseInterrupted
  BY <1>9 DEF CloseInterrupted
<1> QED
  BY <1>1, <1>2, <1>3, <1>4, <1>5, <1>6, <1>7, <1>8, <1>9 DEF Generator

\* A turn goes on, or gets its answer, with the chunks it has.
LEMMA TurnGoesOn ==
    ASSUME turn \in Turns
    PROVE  /\ \A at \in Stages : GoTo(at) => turn' \in Turns
           /\ \A type \in Outcomes, text \in Texts :
                Respond(type, text) => turn' \in Turns
           /\ \A at \in Stages, requests \in Nat :
                Over(at, requests) => turn' \in Turns
           /\ \A at \in Stages, type \in Outcomes, requests \in Nat :
                Answered(at, type, requests) => turn' \in Turns
<1>1. "user" \in Stages
  BY DEF Stages
<1>2. ASSUME NEW at \in Stages, GoTo(at)
      PROVE  turn' \in Turns
  BY <1>2 DEF Turns, GoTo
<1>3. ASSUME NEW type \in Outcomes, NEW text \in Texts, Respond(type, text)
      PROVE  turn' \in Turns
  BY <1>1, <1>3 DEF Turns, Respond
<1>4. ASSUME NEW at \in Stages, NEW requests \in Nat, Over(at, requests)
      PROVE  turn' \in Turns
  BY <1>4 DEF Turns, Over
<1>5. ASSUME NEW at \in Stages, NEW type \in Outcomes, NEW requests \in Nat,
             Answered(at, type, requests)
      PROVE  turn' \in Turns
  BY <1>5, KnownTexts DEF Turns, Answered
<1> QED
  BY <1>2, <1>3, <1>4, <1>5

LEMMA GoToIs ==
    ASSUME turn \in Turns, NEW at, GoTo(at)
    PROVE  /\ turn'.at = at /\ turn'.tries = 0 /\ ~turn'.repair
           /\ turn'.requests = turn.requests /\ turn'.chunks = turn.chunks
           /\ turn'.type = turn.type /\ turn'.text = turn.text
           /\ turn'.resumed = turn.resumed /\ turn'.answer = turn.answer
  BY DEF GoTo, Turns

LEMMA RespondIs ==
    ASSUME turn \in Turns, NEW type, NEW text, Respond(type, text)
    PROVE  /\ turn'.at = "user" /\ turn'.tries = 0 /\ ~turn'.repair
           /\ turn'.requests = turn.requests /\ turn'.chunks = turn.chunks
           /\ turn'.type = type /\ turn'.text = text
           /\ turn'.resumed = turn.resumed /\ turn'.answer = turn.answer
  BY DEF Respond, Turns

LEMMA OverIs ==
    ASSUME turn \in Turns, NEW at, NEW requests, Over(at, requests)
    PROVE  /\ turn'.at = at /\ turn'.tries = 0 /\ ~turn'.repair
           /\ turn'.requests = requests /\ turn'.chunks = turn.chunks
           /\ turn'.type = turn.type
           /\ turn'.resumed = turn.resumed /\ turn'.answer = turn.answer
  BY DEF Over, Turns

LEMMA AnsweredIs ==
    ASSUME turn \in Turns, NEW at, NEW type, NEW requests,
           Answered(at, type, requests)
    PROVE  /\ turn'.at = at /\ turn'.tries = 0 /\ ~turn'.repair
           /\ turn'.requests = requests /\ turn'.chunks = turn.chunks
           /\ turn'.type = type
           /\ turn'.resumed = turn.resumed /\ turn'.answer = turn.answer
  BY DEF Answered, Turns

\* The steps that come before a tool: the calls of the model, and what goes
\* without them.
CallSteps ==
    \/ Resume \/ WithoutClassifier \/ WithoutResolver \/ RequestAgain
    \/ RequestSucceeds \/ RequestFails \/ Retrieve

\* The steps of the read, the write and the answer.
AnswerSteps ==
    \/ ReadTool \/ WriteAgain \/ WriteEnds \/ Format \/ Chunk
    \/ WordingEnds \/ WordingFails \/ WordingBreaks \/ Worded
    \/ PersistUser \/ PersistAssistant

\* How a step before the tool leaves the turn.
LEMMA CallStepsAre ==
    ASSUME turn \in Turns, CallSteps
    PROVE  /\ turn.at \in {"classify", "target", "select", "retrieve"}
           /\ turn' \in Turns
           /\ turn'.chunks = turn.chunks /\ turn'.answer = turn.answer
           /\ turn'.at \in {"classify", "target", "select", "retrieve", "read",
                            "write", "user"}
           /\ turn'.at = "user" /\ turn.at # "user" => turn'.type # "none"
           /\ turn'.at = "classify" /\ turn.at # "classify" => turn'.resumed
           /\ turn.at = "classify" /\ turn'.at = "classify"
                => turn'.type = turn.type
           /\ ~turn'.resumed => ~turn.resumed
           /\ UNCHANGED <<OfTurn, queue, stored>>
<1>1. /\ {"classify", "target", "select", "retrieve", "read", "write", "user"}
            \subseteq Stages
      /\ AfterClassification \subseteq {"retrieve", "target", "user"}
      /\ "user" \in AfterClassification => turn.type # "none"
      /\ AfterProfileWrite \in {"classify", "user"}
      /\ AfterProfileWrite = "classify" => turn.resumed
      /\ {"other", "error"} \subseteq Outcomes /\ "none" \notin Outcomes
  BY DEF Stages, Outcomes, AfterClassification, AfterProfileWrite
<1>2. turn.requests \in Nat /\ Requested \in Nat /\ turn.tries + 1 \in Nat
  BY DEF Requested, Turns
<1>3. CASE Resume
  BY <1>3 DEF Resume, Running, Turns
<1>4. CASE WithoutClassifier
  <2>1. PICK at \in {"retrieve", "target", "user", "read", "write"},
             type \in {"none", "other"} :
          \/ GoTo(at) /\ (at = "user" => turn.type # "none")
          \/ Respond("other", OtherText)
    BY <1>1, <1>4 DEF WithoutClassifier
  <2>2. CASE GoTo(at) /\ (at = "user" => turn.type # "none")
    BY <1>1, <1>4, <2>2, GoToIs, TurnGoesOn DEF WithoutClassifier, Running
  <2>3. CASE Respond("other", OtherText)
    BY <1>1, <1>4, <2>3, RespondIs, TurnGoesOn, KnownTexts
    DEF WithoutClassifier, Running
  <2> QED
    BY <2>1, <2>2, <2>3
<1>5. CASE WithoutResolver
  <2>1. PICK type \in Outcomes : Answered(AfterProfileWrite, type, turn.requests)
    BY <1>5 DEF WithoutResolver
  <2> QED
    BY <1>1, <1>2, <1>5, <2>1, AnsweredIs, TurnGoesOn
    DEF WithoutResolver, Running
<1>6. CASE RequestAgain
  <2>1. CASE turn' = [turn EXCEPT !.tries = @ + 1, !.requests = Requested]
    BY <1>2, <1>6, <2>1 DEF RequestAgain, Calling, Turns
  <2>2. CASE turn' = [turn EXCEPT !.repair = TRUE, !.tries = 0,
                                  !.requests = Requested]
    BY <1>2, <1>6, <2>2 DEF RequestAgain, Calling, Turns
  <2> QED
    BY <1>6, <2>1, <2>2 DEF RequestAgain
<1>7. CASE RequestSucceeds
  <2>1. \/ \E next \in AfterClassification : Over(next, Requested)
        \/ /\ turn.at = "target"
           /\ \E type \in Outcomes :
                Answered(AfterProfileWrite, type, Requested)
        \/ Over("read", Requested)
        \/ Answered("user", "other", Requested)
    BY <1>7 DEF RequestSucceeds
  <2>2. turn.at \in {"classify", "target", "select"}
        /\ UNCHANGED <<OfTurn, queue, stored>>
    BY <1>7 DEF RequestSucceeds, Calling
  <2>3. CASE \E next \in AfterClassification : Over(next, Requested)
    BY <1>1, <1>2, <2>2, <2>3, OverIs, TurnGoesOn
  <2>4. CASE /\ turn.at = "target"
             /\ \E type \in Outcomes :
                  Answered(AfterProfileWrite, type, Requested)
    <3>1. PICK type \in Outcomes : Answered(AfterProfileWrite, type, Requested)
      BY <2>4
    <3>2. turn' \in Turns
      BY <1>1, <1>2, <3>1, TurnGoesOn
    <3>3. /\ turn'.at = AfterProfileWrite /\ turn'.type = type
          /\ turn'.chunks = turn.chunks /\ turn'.answer = turn.answer
          /\ turn'.resumed = turn.resumed
      BY <3>1, AnsweredIs
    <3> QED
      BY <1>1, <2>2, <2>4, <3>2, <3>3
  <2>5. CASE Over("read", Requested)
    BY <1>1, <1>2, <2>2, <2>5, OverIs, TurnGoesOn
  <2>6. CASE Answered("user", "other", Requested)
    BY <1>1, <1>2, <2>2, <2>6, AnsweredIs, TurnGoesOn
  <2> QED
    BY <2>1, <2>3, <2>4, <2>5, <2>6
<1>8. CASE RequestFails
  <2>1. PICK at \in {"user", AfterProfileWrite}, type \in {"other", "error"} :
          Answered(at, type, Requested)
    BY <1>8 DEF RequestFails
  <2>2. turn.at \in {"classify", "target", "select"}
        /\ (turn.at # "target" => turn'.at = "user")
        /\ UNCHANGED <<OfTurn, queue, stored>>
    BY <1>8, AnsweredIs DEF RequestFails, Calling
  <2> QED
    BY <1>1, <1>2, <2>1, <2>2, AnsweredIs, TurnGoesOn
<1>9. CASE Retrieve
  <2>1. turn.at = "retrieve" /\ UNCHANGED <<OfTurn, queue, stored>>
    BY <1>9 DEF Retrieve, Running
  <2>2. GoTo("select") \/ GoTo("read") \/ Respond("other", OtherText)
    BY <1>9 DEF Retrieve
  <2> QED
    BY <1>1, <2>1, <2>2, GoToIs, RespondIs, TurnGoesOn, KnownTexts
<1> QED
  BY <1>3, <1>4, <1>5, <1>6, <1>7, <1>8, <1>9 DEF CallSteps

LEMMA CallsTyped ==
    ASSUME StreamTypeOK, CallSteps
    PROVE  StreamTypeOK'
<1>1. turn \in Turns
  BY DEF StreamTypeOK
<1>2. /\ turn' \in Turns /\ turn'.chunks = turn.chunks
      /\ UNCHANGED <<OfTurn, queue, stored>>
  BY <1>1, CallStepsAre
<1> QED
  BY <1>2 DEF StreamTypeOK, OfTurn

LEMMA ProducedTyped ==
    ASSUME StreamTypeOK, NEW result \in Outcomes \cup {"none"},
           NEW text \in Texts, Produced(result, text)
    PROVE  /\ queue' \in Seq(Events)
           /\ task' \in Tasks
<1>1. queue' \in Seq(Events)
  BY KnownEvents, AppendProperties DEF Produced, StreamTypeOK
<1> QED
  BY <1>1 DEF Produced, Tasks

\* A chunk is added to the answer and to the queue.
LEMMA WordTyped ==
    ASSUME StreamTypeOK, Len(turn.chunks) <= MaxChunks,
           NEW chunk \in Chunks, NEW at \in Stages, Word(chunk, at)
    PROVE  /\ turn' \in Turns /\ queue' \in Seq(Events)
           /\ Len(turn'.chunks) = Len(turn.chunks) + 1
           /\ Len(turn'.chunks) <= MaxChunks + 1
           /\ \A i \in 1 .. Len(turn.chunks) : turn'.chunks[i] = turn.chunks[i]
           /\ turn'.chunks[Len(turn'.chunks)] = chunk
<1> DEFINE new == Append(turn.chunks, chunk)
<1>1. turn \in Turns /\ turn.chunks \in Seq(Chunks)
  BY DEF StreamTypeOK, Turns
<1>2. /\ new \in Seq(Chunks) /\ Len(new) = Len(turn.chunks) + 1
      /\ \A i \in 1 .. Len(turn.chunks) : new[i] = turn.chunks[i]
      /\ new[Len(turn.chunks) + 1] = chunk
  BY <1>1, AppendProperties
<1>3. turn' = [turn EXCEPT !.at = at, !.chunks = new]
  BY DEF Word
<1>4. turn' \in Turns /\ turn'.chunks = new
  <2> HIDE DEF new
  <2> QED
    BY <1>1, <1>2, <1>3 DEF Turns
<1>5. queue' \in Seq(Events)
  BY KnownEvents, AppendProperties DEF Word, Emit, StreamTypeOK
<1>6. Len(turn.chunks) \in Nat /\ MaxChunks \in Nat
  BY <1>1, ChunksAssumption
<1> QED
  BY <1>2, <1>4, <1>5, <1>6

\* Steps of the read, the write and the answer.
LEMMA AnswerTyped ==
    ASSUME StreamTypeOK, turn.at = "wording" => Len(turn.chunks) <= MaxChunks,
           AnswerSteps
    PROVE  StreamTypeOK'
<1>1. turn \in Turns /\ queue \in Seq(Events) /\ turn.chunks \in Seq(Chunks)
  BY DEF StreamTypeOK, Turns
<1>2. {"user", "assistant", "return", "format", "wording", "worded"}
        \subseteq Stages
  BY DEF Stages
<1>3. {"answer", "error"} \subseteq Outcomes
  BY DEF Outcomes
<1>4. turn' \in Turns
  <2>1. CASE ReadTool \/ WriteEnds \/ WordingBreaks
    BY <1>1, <1>2, <1>3, <2>1, KnownTexts, TurnGoesOn
    DEF ReadTool, WriteEnds, WordingBreaks
  <2>0. CASE Format
    <3>1. CASE turn' = [turn EXCEPT !.at = "wording", !.answer = "begun"]
      BY <1>1, <1>2, <3>1 DEF Turns
    <3>2. CASE Respond("answer", Formatted)
      BY <1>1, <1>3, <3>2, KnownTexts, TurnGoesOn
    <3> QED
      BY <2>0, <3>1, <3>2 DEF Format
  <2>2. CASE WriteAgain
    <3>1. turn.tries + 1 \in Nat
      BY <1>1 DEF Turns
    <3> QED
      BY <1>1, <2>2, <3>1 DEF WriteAgain, Turns
  <2>3. CASE Chunk
    BY <1>2, <2>3, WordTyped DEF Chunk, Chunks, Running
  <2>4. CASE WordingFails
    BY <1>2, <2>4, WordTyped DEF WordingFails, Chunks, Running
  <2>5. CASE Worded
    BY <1>1, <1>2, <1>3, <2>5, AnswerTextTyped DEF Worded, Turns
  <2>6. CASE WordingEnds \/ PersistUser \/ PersistAssistant
    BY <1>1, <1>2, <2>6, TurnGoesOn DEF WordingEnds, PersistUser, PersistAssistant
  <2> QED
    BY <2>0, <2>1, <2>2, <2>3, <2>4, <2>5, <2>6 DEF AnswerSteps
<1>5. Len(turn'.chunks) <= MaxChunks + 1
  <2>1. CASE Chunk
    BY <1>2, <2>1, WordTyped DEF Chunk, Chunks, Running
  <2>2. CASE WordingFails
    BY <1>2, <2>2, WordTyped DEF WordingFails, Chunks, Running
  <2>3. CASE ~Chunk /\ ~WordingFails
    <3>1. CASE ReadTool \/ WriteEnds \/ Format \/ WordingBreaks
      BY <1>1, <3>1, GoToIs, RespondIs
      DEF ReadTool, WriteEnds, Format, WordingBreaks, Turns, StreamTypeOK
    <3>2. CASE WriteAgain
      BY <1>1, <3>2 DEF WriteAgain, Turns, StreamTypeOK
    <3>3. CASE Worded
      BY <1>1, <3>3 DEF Worded, Turns, StreamTypeOK
    <3>4. CASE WordingEnds \/ PersistUser \/ PersistAssistant
      BY <1>1, <3>4, GoToIs
      DEF WordingEnds, PersistUser, PersistAssistant, StreamTypeOK
    <3> QED
      BY <2>3, <3>1, <3>2, <3>3, <3>4 DEF AnswerSteps
  <2> QED
    BY <2>1, <2>2, <2>3
<1>6. queue' \in Seq(Events)
  <2>1. CASE Chunk
    BY <1>2, <2>1, WordTyped DEF Chunk, Chunks, Running
  <2>2. CASE WordingFails
    BY <1>2, <2>2, WordTyped DEF WordingFails, Chunks, Running
  <2>3. CASE Format
    BY <1>1, <2>3, KnownEvents, AppendProperties DEF Format, Emit
  <2>4. CASE Worded
    <3>1. Event("answer_done", AnswerText(turn.chunks)) \in Events
      BY <1>1, AnswerTextTyped, KnownTexts, KnownEvents
    <3> QED
      BY <1>1, <2>4, <3>1, AppendProperties DEF Worded, Emit
  <2>5. CASE ~Chunk /\ ~WordingFails /\ ~Format /\ ~Worded
    BY <1>1, <2>5 DEF AnswerSteps, ReadTool, WriteEnds, WriteAgain, WordingEnds,
                      WordingBreaks, PersistUser, PersistAssistant
  <2> QED
    BY <2>1, <2>2, <2>3, <2>4, <2>5
<1>7. stored' \in [user : BOOLEAN, text : Texts,
                   row : {"none", "failed", "completed", "asks"}]
  <2>1. stored \in [user : BOOLEAN, text : Texts,
                    row : {"none", "failed", "completed", "asks"}]
    BY DEF StreamTypeOK
  <2>2. turn.text \in Texts
    BY <1>1 DEF Turns
  <2> QED
    BY <2>1, <2>2 DEF AnswerSteps, ReadTool, WriteEnds, Format, WriteAgain,
       Chunk, WordingEnds, WordingFails, WordingBreaks, Worded,
       PersistUser, PersistAssistant
<1>8. UNCHANGED OfTurn
  BY DEF AnswerSteps, ReadTool, WriteEnds, Format, WriteAgain, Chunk,
         WordingEnds, WordingFails, WordingBreaks, Worded, PersistUser,
         PersistAssistant
<1> QED
  BY <1>4, <1>5, <1>6, <1>7, <1>8 DEF StreamTypeOK, OfTurn

\* Steps that end the producer.
LEMMA EndsTyped ==
    ASSUME StreamTypeOK, Return \/ Raises \/ Cancelled \/ WriteGivesUp
    PROVE  StreamTypeOK'
<1>1. /\ {"error", "none"} \subseteq Outcomes \cup {"none"}
      /\ turn.type \in Outcomes \cup {"none"} /\ turn.text \in Texts
  BY DEF StreamTypeOK, Turns, Outcomes
<1>2. task' \in Tasks /\ queue' \in Seq(Events)
  <2>1. CASE Return
    BY <1>1, <2>1, ProducedTyped DEF Return
  <2>2. CASE ~Return
    <3>1. Produced("error", OtherText) \/ Produced("none", <<>>)
      BY <2>2 DEF Raises, Cancelled, WriteGivesUp
    <3> QED
      BY <1>1, <3>1, KnownTexts, ProducedTyped
  <2> QED
    BY <2>1, <2>2
<1>3. UNCHANGED <<OfProducer, turn, stored>>
  BY DEF Return, Raises, Cancelled, WriteGivesUp
<1> QED
  BY <1>2, <1>3 DEF StreamTypeOK, OfProducer

LEMMA TypesKept ==
    ASSUME StreamTypeOK, TurnInv, [Next]_vars
    PROVE  StreamTypeOK'
<1>1. turn.at = "wording" => Len(turn.chunks) <= MaxChunks
  BY DEF TurnInv
<1>2. CASE Generator
  BY <1>2, GeneratorTyped
<1>3. CASE Producer
  BY <1>1, <1>3, CallsTyped, AnswerTyped, EndsTyped
  DEF Producer, CallSteps, AnswerSteps
<1>4. CASE ClientGoes
  BY <1>4 DEF ClientGoes, StreamTypeOK
<1>5. CASE UNCHANGED vars
  BY <1>5 DEF vars, StreamTypeOK
<1> QED
  BY <1>2, <1>3, <1>4, <1>5 DEF Next, Finished

-----------------------------------------------------------------------------
(* The turn                                                                *)

\* Before a tool was called nothing was said.
LEMMA TurnInvOfCalls ==
    ASSUME turn \in Turns, TurnInv, CallSteps
    PROVE  /\ TurnInv'
           /\ turn.answer = "none" /\ turn'.answer = "none"
           /\ turn'.chunks = turn.chunks /\ queue' = queue
<1>1. /\ turn.at \in {"classify", "target", "select", "retrieve"}
      /\ turn'.chunks = turn.chunks /\ turn'.answer = turn.answer
      /\ turn'.at \in {"classify", "target", "select", "retrieve", "read",
                       "write", "user"}
      /\ turn'.at = "user" /\ turn.at # "user" => turn'.type # "none"
      /\ turn'.at = "classify" /\ turn.at # "classify" => turn'.resumed
      /\ turn.at = "classify" /\ turn'.at = "classify"
           => turn'.type = turn.type
      /\ ~turn'.resumed => ~turn.resumed
      /\ UNCHANGED <<OfTurn, queue, stored>>
  BY CallStepsAre
<1>2. turn.answer = "none"
  BY <1>1 DEF TurnInv, Late, Turns
<1> QED
  BY <1>1, <1>2 DEF TurnInv, Late

LEMMA TurnInvOfAnswer ==
    ASSUME StreamTypeOK, TurnInv, AnswerSteps
    PROVE  TurnInv'
<1>1. turn \in Turns /\ turn.chunks \in Seq(Chunks)
      /\ turn.answer \in {"none", "begun", "closed"}
  BY DEF StreamTypeOK, Turns
<1>2. stored \in [user : BOOLEAN, text : Texts,
                  row : {"none", "failed", "completed", "asks"}]
  BY DEF StreamTypeOK
<1>3. CASE ReadTool
  <2>1. turn.answer = "none" /\ turn.chunks = <<>>
    BY <1>1, <1>3 DEF ReadTool, Running, TurnInv, Late
  <2>2. \/ turn'.at = "user" /\ turn'.type # "none"
        \/ turn'.at = "format" /\ stored'.row = "completed"
    BY <1>1, <1>2, <1>3, GoToIs, RespondIs DEF ReadTool
  <2>3. turn'.answer = "none" /\ turn'.chunks = <<>>
    BY <1>1, <1>3, <2>1, GoToIs, RespondIs DEF ReadTool
  <2> QED
    BY <2>2, <2>3 DEF TurnInv, Late
<1>4. CASE WriteAgain
  <2>1. /\ turn.at = "write" /\ turn'.at = "write"
        /\ turn'.chunks = turn.chunks /\ turn'.answer = turn.answer
    BY <1>1, <1>4 DEF WriteAgain, Running, Turns
  <2> QED
    BY <2>1 DEF TurnInv, Late
<1>5. CASE WriteEnds
  <2>1. turn.answer = "none" /\ turn.chunks = <<>>
    BY <1>1, <1>5 DEF WriteEnds, Running, TurnInv, Late
  <2>2. /\ turn'.at = "user" /\ turn'.type # "none"
        /\ turn'.answer = "none" /\ turn'.chunks = <<>>
    BY <1>1, <1>5, <2>1, RespondIs DEF WriteEnds
  <2> QED
    BY <2>2 DEF TurnInv, Late
<1>6. CASE Format
  <2>1. /\ turn.answer = "none" /\ turn.chunks = <<>>
        /\ stored.row = "completed" /\ stored' = stored
    BY <1>1, <1>6 DEF Format, Running, TurnInv, Late
  <2>2. /\ turn'.chunks = <<>>
        /\ \/ turn'.at = "user" /\ turn'.type # "none" /\ turn'.answer = "none"
           \/ turn'.at = "wording" /\ turn'.answer = "begun"
    BY <1>1, <1>6, <2>1, RespondIs DEF Format, Turns
  <2>3. Len(<<>>) <= MaxChunks
    BY ChunksAssumption
  <2> QED
    BY <2>1, <2>2, <2>3 DEF TurnInv, Late
<1>7. CASE Chunk \/ WordingFails
  <2>1. /\ turn.at = "wording" /\ stored.row = "completed" /\ stored' = stored
        /\ turn.answer = "begun"
    BY <1>1, <1>7 DEF Chunk, WordingFails, Running, TurnInv, Late
  <2>2. Len(turn.chunks) <= MaxChunks
    BY <2>1 DEF TurnInv
  <2>3. PICK chunk \in Chunks, at \in {"wording", "worded"} :
          /\ Word(chunk, at)
          /\ at = "wording" => Len(turn.chunks) < MaxChunks
    BY <1>7 DEF Chunk, WordingFails, Chunks
  <2>4. at \in Stages
    BY DEF Stages
  <2>5. Len(turn'.chunks) = Len(turn.chunks) + 1
    BY <2>2, <2>3, <2>4, WordTyped
  <2>6. turn'.at = at /\ turn'.answer = turn.answer
    BY <1>1, <2>3 DEF Word, Turns
  <2>7. at = "wording" => Len(turn'.chunks) <= MaxChunks
    BY <1>1, <2>3, <2>5, ChunksAssumption
  <2> QED
    BY <2>1, <2>6, <2>7 DEF TurnInv, Late
<1>8. CASE WordingEnds
  <2>1. /\ turn.at = "wording" /\ turn.answer = "begun" /\ stored' = stored
        /\ stored.row = "completed"
    BY <1>1, <1>8 DEF WordingEnds, Running, TurnInv, Late
  <2>2. turn'.at = "worded" /\ turn'.answer = "begun"
    BY <1>1, <1>8, <2>1, GoToIs DEF WordingEnds
  <2> QED
    BY <2>1, <2>2 DEF TurnInv, Late
<1>9. CASE WordingBreaks
  <2>1. /\ turn.at = "wording" /\ turn.answer = "begun" /\ stored' = stored
        /\ stored.row = "completed"
    BY <1>1, <1>9 DEF WordingBreaks, Running, TurnInv, Late
  <2>2. /\ turn'.at = "user" /\ turn'.answer = "begun"
        /\ turn'.type = "answer" /\ turn'.text = Formatted
    BY <1>1, <1>9, <2>1, RespondIs DEF WordingBreaks
  <2> QED
    BY <2>1, <2>2 DEF TurnInv, Late
<1>10. CASE Worded
  <2>1. turn.at = "worded" /\ stored' = stored /\ stored.row = "completed"
    BY <1>10 DEF Worded, Running, TurnInv
  <2>2. /\ turn'.at = "user" /\ turn'.answer = "closed"
        /\ turn'.type = "answer" /\ turn'.text = AnswerText(turn.chunks)
        /\ turn'.chunks = turn.chunks
    BY <1>1, <1>10 DEF Worded, Turns
  <2> QED
    BY <2>1, <2>2 DEF TurnInv, Late
<1>11. CASE PersistUser \/ PersistAssistant
  <2>1. turn.at \in {"user", "assistant"} /\ stored'.row = stored.row
    BY <1>2, <1>11 DEF PersistUser, PersistAssistant, Running
  <2>2. /\ turn'.at \in {"assistant", "return"} /\ turn'.chunks = turn.chunks
        /\ turn'.type = turn.type /\ turn'.text = turn.text
        /\ turn'.answer = turn.answer
    BY <1>1, <1>11, GoToIs DEF PersistUser, PersistAssistant
  <2>3. turn'.at = "return" => stored'.text = turn'.text
    BY <1>1, <1>2, <1>11, <2>2, GoToIs DEF PersistUser, PersistAssistant
  <2> QED
    BY <2>1, <2>2, <2>3 DEF TurnInv, Late
<1> QED
  BY <1>3, <1>4, <1>5, <1>6, <1>7, <1>8, <1>9, <1>10, <1>11 DEF AnswerSteps

\* Nothing else changes the turn or what it stored.
LEMMA OthersLeaveTurn ==
    ASSUME \/ Generator \/ ClientGoes \/ UNCHANGED vars
           \/ Return \/ Raises \/ Cancelled \/ WriteGivesUp
    PROVE  turn' = turn /\ stored' = stored /\ settings' = settings
<1>1. CASE Generator
  BY <1>1 DEF Generator, Open, GetterTakes, KeepAlive, Deliver, DeliverEnd,
              Conclude, Done, Close, CloseInterrupted, OfStream
<1>2. CASE ClientGoes \/ UNCHANGED vars
  BY <1>2 DEF ClientGoes, vars
<1>3. CASE Return \/ Raises \/ Cancelled \/ WriteGivesUp
  BY <1>3 DEF Return, Raises, Cancelled, WriteGivesUp, OfProducer
<1> QED
  BY <1>1, <1>2, <1>3

LEMMA TurnInvKept ==
    ASSUME StreamTypeOK, TurnInv, [Next]_vars
    PROVE  TurnInv'
<1>1. turn \in Turns
  BY DEF StreamTypeOK
<1>2. CASE \/ Generator \/ ClientGoes \/ UNCHANGED vars
           \/ Return \/ Raises \/ Cancelled \/ WriteGivesUp
  BY <1>2, OthersLeaveTurn DEF TurnInv, Late
<1>3. CASE CallSteps
  BY <1>1, <1>3, TurnInvOfCalls
<1>4. CASE AnswerSteps
  BY <1>4, TurnInvOfAnswer
<1> QED
  BY <1>2, <1>3, <1>4 DEF Next, Producer, Finished, CallSteps, AnswerSteps

\* The steps of the turn itself, which leave the task running.
TurnSteps == CallSteps \/ AnswerSteps

LEMMA TurnStepsRun ==
    ASSUME TurnSteps
    PROVE  /\ task.at = "running" /\ turn.at # "return"
           /\ UNCHANGED <<settings, client, stream, task, sent>>
<1>1. CASE CallSteps
  BY <1>1 DEF CallSteps, Resume, WithoutClassifier, WithoutResolver,
     RequestAgain, RequestSucceeds, RequestFails, Retrieve, Running, Calling,
     OfTurn
<1>2. CASE AnswerSteps
  BY <1>2 DEF AnswerSteps, ReadTool, WriteAgain, WriteEnds, Format, Chunk,
     WordingEnds, WordingFails, WordingBreaks, Worded, PersistUser,
     PersistAssistant, Running, OfTurn
<1> QED
  BY <1>1, <1>2 DEF TurnSteps

LEMMA NextIs ==
    ASSUME [Next]_vars
    PROVE  \/ Generator \/ TurnSteps
           \/ Return \/ Raises \/ Cancelled \/ WriteGivesUp
           \/ ClientGoes \/ UNCHANGED vars
  BY DEF Next, Producer, Finished, TurnSteps, CallSteps, AnswerSteps

LEMMA TaskInvKept ==
    ASSUME StreamTypeOK, StreamInv, TaskInv, [Next]_vars
    PROVE  TaskInv'
<1>1. task \in Tasks
  BY DEF StreamTypeOK
<1>2. CASE Generator
  <2>1. turn' = turn
    BY <1>2, OthersLeaveTurn
  <2>2. /\ task'.result = task.result /\ task'.text = task.text
        /\ task.at = "ended" <=> task'.at = "ended"
        /\ task'.at = "none" => task.at = "none"
    <3>1. CASE Open
      <4>1. task.at = "none"
        BY <3>1 DEF Open, StreamInv
      <4> QED
        BY <1>1, <3>1, <4>1 DEF Open, Tasks, TaskInv
    <3>2. CASE Close
      BY <1>1, <3>2 DEF Close, Tasks
    <3>3. CASE ~Open /\ ~Close
      BY <1>2, <3>3 DEF Generator, GetterTakes, KeepAlive, Deliver, DeliverEnd,
              Conclude, Done, CloseInterrupted
    <3> QED
      BY <3>1, <3>2, <3>3
  <2> QED
    BY <2>1, <2>2 DEF TaskInv
<1>3. CASE TurnSteps
  <2>1. task.at = "running" /\ task' = task
    BY <1>3, TurnStepsRun
  <2>2. task.result = "none"
    BY <2>1 DEF TaskInv
  <2> QED
    BY <2>1, <2>2 DEF TaskInv
<1>4. CASE Return
  BY <1>4 DEF Return, Produced, Running, OfProducer, TaskInv
<1>5. CASE Raises \/ Cancelled \/ WriteGivesUp
  <2>1. Produced("error", OtherText) \/ Produced("none", <<>>)
    BY <1>5 DEF Raises, Cancelled, WriteGivesUp
  <2> QED
    BY <2>1 DEF Produced, TaskInv
<1>6. CASE ClientGoes \/ UNCHANGED vars
  BY <1>6 DEF ClientGoes, vars, TaskInv
<1> QED
  BY <1>2, <1>3, <1>4, <1>5, <1>6, NextIs

-----------------------------------------------------------------------------
(* The requests                                                            *)

\* Every call adds its first request, its retries and its repair.
LEMMA CallsAdd ==
    ASSUME settings.retries \in 0 .. 1, settings.repairs \in 0 .. 1
    PROVE  \A n \in {0, 1, 2} :
             /\ Calls(n) \in Nat
             /\ Calls(n + 1)
                  = Calls(n) + 1 + settings.retries + settings.repairs
<1>1. /\ Calls(0) = 0
      /\ Calls(1) = 1 + settings.retries + settings.repairs
      /\ Calls(2) = 2 + 2 * settings.retries + 2 * settings.repairs
      /\ Calls(3) = 3 + 3 * settings.retries + 3 * settings.repairs
  BY DEF Calls
<1> QED
  BY <1>1

LEMMA RequestInvKept ==
    ASSUME StreamTypeOK, TurnInv, RequestInv, [Next]_vars
    PROVE  RequestInv'
<1> DEFINE R == settings.retries
           P == settings.repairs
<1>1. R \in 0 .. 1 /\ P \in 0 .. 1
  BY SettingsAssumption DEF StreamTypeOK
<1>2. /\ turn \in Turns /\ turn.requests \in Nat /\ turn.tries \in Nat
      /\ turn.resumed \in BOOLEAN /\ turn.repair \in BOOLEAN
  BY DEF StreamTypeOK, Turns
<1>0. /\ AfterClassification \subseteq {"retrieve", "target", "user"}
      /\ AfterClassification # {"user"} => turn.type = "none"
      /\ turn.type # "none" => AfterClassification = {"user"}
      /\ AfterProfileWrite \in {"classify", "user"}
      /\ AfterProfileWrite = "classify" => turn.resumed
  BY DEF AfterClassification, AfterProfileWrite
<1>3. CASE ~TurnSteps
  <2>1. turn' = turn /\ settings' = settings
    BY <1>3, NextIs, OthersLeaveTurn
  <2> QED
    BY <2>1 DEF RequestInv, Under, Calls
<1>4. CASE TurnSteps
  <2>1. settings' = settings
    BY <1>4, TurnStepsRun
  \* A call with so many before it, at its last request.
  <2>0. /\ turn.at = "classify" /\ turn.type = "none"
             => turn.requests + 1 <= Calls(1)
        /\ turn.at = "classify" /\ turn.type # "none"
             => turn.requests + 1 <= Calls(3) /\ turn.resumed
        /\ turn.at \in {"target", "select"} => turn.requests + 1 <= Calls(2)
    <3>1. ASSUME NEW n \in {0, 1, 2}, Under(n)
          PROVE  turn.requests + 1 <= Calls(n + 1)
      BY <1>1, <1>2, <3>1, CallsAdd DEF Under
    <3>2. turn.at = "classify" /\ turn.type # "none" => turn.resumed
      BY DEF TurnInv
    <3>3. turn.at = "classify" => Under(IF turn.type = "none" THEN 0 ELSE 2)
      BY DEF RequestInv
    <3>4. turn.at \in {"target", "select"} => Under(1)
      BY DEF RequestInv
    <3>5. Under(0) => turn.requests + 1 <= Calls(1)
      BY <3>1
    <3>6. Under(1) => turn.requests + 1 <= Calls(2)
      BY <3>1
    <3>7. Under(2) => turn.requests + 1 <= Calls(3)
      BY <3>1
    <3> QED
      BY <3>2, <3>3, <3>4, <3>5, <3>6, <3>7
  <2>2. CASE Resume
    <3>1. /\ turn.at = "classify" /\ turn'.at = "classify"
          /\ turn'.type = turn.type /\ turn'.requests = turn.requests
          /\ turn'.tries = turn.tries /\ turn'.repair = turn.repair
          /\ turn'.resumed /\ ~turn.resumed
      BY <1>2, <2>2 DEF Resume, Running, Turns
    <3> QED
      BY <1>1, <1>2, <2>1, <3>1 DEF RequestInv, Under, Calls
  <2>3. CASE WithoutClassifier
    <3>1. turn.at = "classify" /\ turn.tries = 0 /\ ~turn.repair
      BY <2>3 DEF WithoutClassifier, Running
    <3>2. turn.requests <= Calls(IF turn.type = "none" THEN 0 ELSE 2)
      BY <1>1, <1>2, <3>1 DEF RequestInv, Under, Calls
    <3>3. /\ turn'.requests = turn.requests /\ turn'.tries = 0 /\ ~turn'.repair
          /\ turn'.resumed = turn.resumed
          /\ turn'.at \in {"retrieve", "target", "user", "read", "write"}
          /\ turn'.at \in {"retrieve", "target"} => turn.type = "none"
      BY <1>0, <1>2, <2>3, GoToIs, RespondIs DEF WithoutClassifier
    <3> QED
      BY <1>1, <1>2, <2>0, <2>1, <3>1, <3>2, <3>3 DEF RequestInv, Under, Calls
  <2>4. CASE WithoutResolver
    <3>1. /\ turn.at = "target" /\ turn.tries = 0 /\ ~turn.repair
          /\ turn'.requests = turn.requests /\ turn'.tries = 0 /\ ~turn'.repair
          /\ turn'.resumed = turn.resumed /\ turn'.at \in {"classify", "user"}
          /\ turn'.at = "classify" => turn.resumed
          /\ turn'.type # "none"
      BY <1>0, <1>2, <2>4, AnsweredIs DEF WithoutResolver, Running, Outcomes
    <3> QED
      BY <1>1, <1>2, <2>1, <3>1 DEF RequestInv, Under, Calls
  <2>5. CASE RequestAgain
    <3>1. /\ turn.at \in {"classify", "target", "select"} /\ turn'.at = turn.at
          /\ turn'.type = turn.type /\ turn'.resumed = turn.resumed
      BY <1>2, <2>5 DEF RequestAgain, Calling, Turns
    <3>2. /\ turn'.requests = turn.requests + 1 /\ ~turn.repair
          /\ \/ /\ turn'.tries = turn.tries + 1 /\ turn'.repair = turn.repair
                /\ turn.tries < R
             \/ turn'.tries = 0 /\ turn'.repair /\ P = 1
      <4>1. CASE MayRetry /\ turn' = [turn EXCEPT !.tries = @ + 1,
                                                  !.requests = Requested]
        BY <1>2, <4>1 DEF MayRetry, Requested, Turns
      <4>2. CASE MayRepair /\ turn' = [turn EXCEPT !.repair = TRUE, !.tries = 0,
                                                   !.requests = Requested]
        <5>1. P = 1
          BY <1>1, <4>2 DEF MayRepair
        <5> QED
          BY <1>2, <4>2, <5>1 DEF MayRepair, Requested, Turns
      <4> QED
        BY <2>5, <4>1, <4>2 DEF RequestAgain
    <3>3. ASSUME NEW n \in {0, 1, 2}, Under(n)
          PROVE  Under(n)' /\ turn'.requests <= Calls(n + 1)
      <4>1. Calls(n)' = Calls(n) /\ Calls(n) \in Nat
        BY <1>1, <2>1, CallsAdd DEF Calls
      <4>2. turn.tries <= R /\ turn.requests <= Calls(n) + turn.tries
        BY <3>2, <3>3 DEF Under
      <4>3. Under(n)'
        BY <1>1, <1>2, <2>1, <3>2, <4>1, <4>2 DEF Under
      <4>4. turn'.requests <= Calls(n + 1)
        BY <1>1, <1>2, <3>2, <4>1, <4>2, CallsAdd
      <4> QED
        BY <4>3, <4>4
    <3>0. /\ Under(0) => Under(0)' /\ turn'.requests <= Calls(1)
          /\ Under(1) => Under(1)' /\ turn'.requests <= Calls(2)
          /\ Under(2) => Under(2)' /\ turn'.requests <= Calls(3)
      BY <3>3
    <3>6. /\ Calls(1) <= Calls(2) /\ Calls(2) <= Calls(3)
          /\ Calls(1) \in Nat /\ Calls(2) \in Nat /\ Calls(3) \in Nat
          /\ Calls(2)' = Calls(2) /\ Calls(3)' = Calls(3)
      BY <1>1, <2>1 DEF Calls
    <3>7. turn'.requests \in Nat
      BY <1>2, <3>2
    <3>4. CASE turn.at = "classify"
      <4>1. Under(IF turn.type = "none" THEN 0 ELSE 2)
        BY <3>4 DEF RequestInv
      <4>2. turn.type = "none" => Under(0)' /\ turn'.requests <= Calls(1)
        BY <3>0, <4>1
      <4>3. turn.type # "none" => Under(2)' /\ turn'.requests <= Calls(3)
        BY <3>0, <4>1
      <4>4. turn.type # "none" => turn.resumed
        BY <3>4 DEF TurnInv
      <4> QED
        BY <1>2, <3>1, <3>4, <3>6, <3>7, <4>2, <4>3, <4>4 DEF RequestInv
    <3>5. CASE turn.at \in {"target", "select"}
      <4>1. Under(1)' /\ turn'.requests <= Calls(2)
        BY <3>0, <3>5 DEF RequestInv
      <4> QED
        BY <1>2, <3>1, <3>5, <3>6, <3>7, <4>1 DEF RequestInv
    <3> QED
      BY <3>1, <3>4, <3>5
  <2>6. CASE RequestSucceeds
    <3>1. /\ turn.at \in {"classify", "target", "select"}
          /\ turn'.requests = turn.requests + 1 /\ turn'.tries = 0
          /\ ~turn'.repair /\ turn'.resumed = turn.resumed
          /\ turn'.at \in {"classify", "retrieve", "target", "read", "user"}
          /\ turn'.at \in {"retrieve", "target"}
               => turn.at = "classify" /\ turn.type = "none"
          /\ turn'.at = "classify"
               => turn.at = "target" /\ turn.resumed /\ turn'.type # "none"
      <4>1. CASE turn.at = "classify" /\ \E next \in AfterClassification :
                                            Over(next, Requested)
        BY <1>0, <1>2, <4>1, OverIs DEF Requested
      <4>2. CASE turn.at = "target" /\ \E type \in Outcomes :
                   Answered(AfterProfileWrite, type, Requested)
        BY <1>0, <1>2, <4>2, AnsweredIs DEF Requested, Outcomes
      <4>3. CASE turn.at = "select" /\ (\/ Over("read", Requested)
                                        \/ Answered("user", "other", Requested))
        BY <1>2, <4>3, OverIs, AnsweredIs DEF Requested
      <4> QED
        BY <2>6, <4>1, <4>2, <4>3 DEF RequestSucceeds
    <3> QED
      BY <1>1, <1>2, <2>0, <2>1, <3>1 DEF RequestInv, Under, Calls
  <2>7. CASE RequestFails
    <3>1. /\ turn.at \in {"classify", "target", "select"}
          /\ turn'.requests = turn.requests + 1 /\ turn'.tries = 0
          /\ ~turn'.repair /\ turn'.resumed = turn.resumed
          /\ turn'.at \in {"classify", "user"}
          /\ turn'.at = "classify"
               => turn.at = "target" /\ turn.resumed /\ turn'.type # "none"
      BY <1>0, <1>2, <2>7, AnsweredIs DEF RequestFails, Calling, Requested
    <3> QED
      BY <1>1, <1>2, <2>0, <2>1, <3>1 DEF RequestInv, Under, Calls
  <2>8. CASE Retrieve
    <3>1. /\ turn.at = "retrieve" /\ turn'.requests = turn.requests
          /\ turn'.at \in {"select", "read", "user"}
          /\ turn'.resumed = turn.resumed
          /\ turn'.at = "select" => turn'.tries = 0 /\ ~turn'.repair
      BY <1>2, <2>8, GoToIs, RespondIs DEF Retrieve, Running
    <3> QED
      BY <1>1, <1>2, <2>1, <3>1 DEF RequestInv, Under, Calls
  <2>9. CASE AnswerSteps
    <3>1. /\ turn'.requests = turn.requests /\ turn'.resumed = turn.resumed
          /\ turn'.at \notin {"classify", "target", "select", "retrieve"}
      <4>1. CASE WriteAgain
        BY <1>2, <4>1 DEF WriteAgain, Running, Turns
      <4>2. CASE Chunk \/ WordingFails
        BY <1>2, <4>2 DEF Chunk, WordingFails, Word, Turns
      <4>3. CASE ReadTool \/ WriteEnds \/ WordingBreaks
        BY <1>2, <4>3, GoToIs, RespondIs DEF ReadTool, WriteEnds, WordingBreaks
      <4>4. CASE Format \/ Worded
        BY <1>2, <4>4, RespondIs DEF Format, Worded, Turns
      <4>5. CASE WordingEnds \/ PersistUser \/ PersistAssistant
        BY <1>2, <4>5, GoToIs DEF WordingEnds, PersistUser, PersistAssistant
      <4> QED
        BY <2>9, <4>1, <4>2, <4>3, <4>4, <4>5 DEF AnswerSteps
    <3> QED
      BY <2>1, <3>1 DEF RequestInv, Calls
  <2> QED
    BY <1>4, <2>2, <2>3, <2>4, <2>5, <2>6, <2>7, <2>8, <2>9
    DEF TurnSteps, CallSteps
<1> QED
  BY <1>3, <1>4

-----------------------------------------------------------------------------
(* The log                                                                 *)

\* The events of the answer are told from the end, and from what the
\* generator adds.
LEMMA LogTyped ==
    ASSUME turn \in Turns
    PROVE  /\ Count \in Nat
           /\ \A k \in 1 .. Count : /\ EventAt(k).type \in AnswerEvents
                                    /\ EventAt(k) # End
           /\ \A k \in Nat : k > Count => EventAt(k) = End
<1>1. Len(turn.chunks) \in Nat
  BY DEF Turns
<1>2. Count \in Nat
  <2>1. Len(turn.chunks) + 2 \in Nat /\ Len(turn.chunks) + 1 \in Nat
    BY <1>1
  <2> QED
    BY <2>1 DEF Count
<1>3. ASSUME NEW k \in 1 .. Count
      PROVE  EventAt(k).type \in AnswerEvents /\ EventAt(k) # End
  <2>1. EventAt(k).type \in AnswerEvents
    BY <1>2, <1>3 DEF EventAt, Event, AnswerEvents
  <2>2. End.type \notin AnswerEvents
    BY DEF End, Event, AnswerEvents
  <2> QED
    BY <2>1, <2>2
<1>4. \A k \in Nat : k > Count => EventAt(k) = End
  BY DEF EventAt
<1> QED
  BY <1>2, <1>3, <1>4

\* What is emitted comes at the end of the log; the log is not rewritten.
Emits(event) ==
    /\ queue' = Append(queue, event)
    /\ Count' = Count + 1
    /\ \A k \in 1 .. Count : EventAt(k)' = EventAt(k)
    /\ \A k \in Nat : k = Count + 1 => EventAt(k)' = event

Silent ==
    /\ queue' = queue /\ Count' = Count
    /\ \A k \in 1 .. Count : EventAt(k)' = EventAt(k)

LEMMA SilentWithoutAnswer ==
    ASSUME turn.answer = "none", turn'.answer = "none", queue' = queue
    PROVE  Silent
<1>1. Count = 0 /\ Count' = 0
  BY DEF Count
<1> QED
  BY <1>1 DEF Silent

LEMMA WordEmits ==
    ASSUME StreamTypeOK, turn.answer = "begun", Len(turn.chunks) <= MaxChunks,
           NEW chunk \in Chunks, NEW at \in {"wording", "worded"},
           Word(chunk, at)
    PROVE  Emits(Event("answer_delta", <<chunk>>))
<1> DEFINE n == Len(turn.chunks)
<1>1. turn \in Turns /\ turn.chunks \in Seq(Chunks) /\ n \in Nat
  BY DEF StreamTypeOK, Turns
<1>2. /\ turn'.answer = "begun"
      /\ turn'.chunks = Append(turn.chunks, chunk)
  BY <1>1 DEF Word, Turns
<1>3. at \in Stages
  BY DEF Stages
<1>4. /\ Len(turn'.chunks) = n + 1
      /\ \A i \in 1 .. n : turn'.chunks[i] = turn.chunks[i]
      /\ turn'.chunks[n + 1] = chunk
  BY <1>3, WordTyped
<1>5. Count = n + 1
  BY DEF Count
<1>6. Count' = n + 2
  <2>1. Count' = Len(turn'.chunks) + 1
    BY <1>2 DEF Count
  <2> QED
    BY <1>1, <1>4, <2>1
<1>7. ASSUME NEW k \in 1 .. n + 1
      PROVE  EventAt(k)' = EventAt(k)
  <2>1. CASE k = 1
    BY <1>1, <1>5, <1>6, <2>1 DEF EventAt
  <2>2. CASE k # 1
    <3>1. k - 1 \in 1 .. n
      BY <1>1, <2>2
    <3>2. EventAt(k) = Event("answer_delta", <<turn.chunks[k - 1]>>)
      BY <1>1, <1>5, <2>2 DEF EventAt
    <3>3. EventAt(k)' = Event("answer_delta", <<turn'.chunks[k - 1]>>)
      BY <1>1, <1>4, <1>6, <2>2 DEF EventAt, Event
    <3> QED
      BY <1>4, <3>1, <3>2, <3>3
  <2> QED
    BY <2>1, <2>2
<1>8. ASSUME NEW k \in Nat, k = n + 2
      PROVE  EventAt(k)' = Event("answer_delta", <<chunk>>)
  <2>1. k - 1 = n + 1 /\ k # 1 /\ k # Len(turn'.chunks) + 2
    BY <1>1, <1>4, <1>8
  <2>2. ~(k > Count')
    BY <1>1, <1>6, <1>8
  <2>3. EventAt(k)' = Event("answer_delta", <<turn'.chunks[k - 1]>>)
    BY <2>1, <2>2 DEF EventAt, Event
  <2> QED
    BY <1>4, <2>1, <2>3
<1>9. queue' = Append(queue, Event("answer_delta", <<chunk>>))
  BY DEF Word, Emit
<1> QED
  <2>1. Count' = Count + 1 /\ Count + 1 = n + 2
    BY <1>1, <1>5, <1>6
  <2> QED
    BY <1>5, <1>7, <1>8, <1>9, <2>1 DEF Emits

LEMMA TurnStepsLog ==
    ASSUME StreamTypeOK, TurnInv, TurnSteps
    PROVE  Silent \/ \E event \in Events : Emits(event)
<1> DEFINE n == Len(turn.chunks)
<1>1. turn \in Turns /\ turn.chunks \in Seq(Chunks) /\ n \in Nat
  BY DEF StreamTypeOK, Turns
<1>0. turn.answer \in {"none", "begun", "closed"}
  BY <1>1 DEF Turns
<1>2. CASE CallSteps
  BY <1>1, <1>2, TurnInvOfCalls, SilentWithoutAnswer
<1>3. CASE ReadTool \/ WriteAgain \/ WriteEnds
  <2>1. turn.answer = "none" /\ queue' = queue
    BY <1>0, <1>3 DEF ReadTool, WriteAgain, WriteEnds, Running, TurnInv, Late
  <2>2. turn'.answer = turn.answer
    <3>1. CASE WriteAgain
      BY <1>1, <3>1 DEF WriteAgain, Turns
    <3>2. CASE ReadTool \/ WriteEnds
      BY <1>1, <3>2, GoToIs, RespondIs DEF ReadTool, WriteEnds
    <3> QED
      BY <1>3, <3>1, <3>2
  <2> QED
    BY <2>1, <2>2, SilentWithoutAnswer
<1>4. CASE Format
  <2>1. turn.answer = "none" /\ turn.chunks = <<>>
    BY <1>0, <1>4 DEF Format, Running, TurnInv, Late
  <2>2. CASE /\ Emit(Event("answer_start", <<>>))
             /\ turn' = [turn EXCEPT !.at = "wording", !.answer = "begun"]
    <3>1. turn'.chunks = <<>> /\ turn'.answer = "begun"
      BY <1>1, <2>1, <2>2 DEF Turns
    <3>2. Count = 0 /\ Count' = 1
      BY <2>1, <3>1 DEF Count
    <3>3. \A k \in Nat : k = 1 => EventAt(k)' = Event("answer_start", <<>>)
      BY <3>2 DEF EventAt, Event
    <3>4. Emits(Event("answer_start", <<>>))
      BY <2>2, <3>2, <3>3 DEF Emits, Emit
    <3> QED
      BY <3>4, KnownEvents
  <2>3. CASE UNCHANGED queue /\ Respond("answer", Formatted)
    <3>1. turn'.answer = "none"
      BY <1>1, <2>1, <2>3, RespondIs
    <3> QED
      BY <2>1, <2>3, <3>1, SilentWithoutAnswer
  <2> QED
    BY <1>4, <2>2, <2>3 DEF Format
<1>5. CASE Chunk \/ WordingFails
  <2>1. turn.answer = "begun" /\ Len(turn.chunks) <= MaxChunks
    BY <1>0, <1>5 DEF Chunk, WordingFails, Running, TurnInv, Late
  <2>2. PICK chunk \in Chunks, at \in {"wording", "worded"} : Word(chunk, at)
    BY <1>5 DEF Chunk, WordingFails, Chunks
  <2>3. Emits(Event("answer_delta", <<chunk>>))
    BY <2>1, <2>2, WordEmits
  <2> QED
    BY <2>3, KnownEvents
<1>6. CASE WordingEnds \/ WordingBreaks \/ PersistUser \/ PersistAssistant
  <2>1. /\ turn'.chunks = turn.chunks /\ turn'.answer = turn.answer
        /\ queue' = queue
    BY <1>1, <1>6, GoToIs, RespondIs
    DEF WordingEnds, WordingBreaks, PersistUser, PersistAssistant
  <2>3. Count' = Count
    BY <2>1 DEF Count
  <2>4. \A k \in 1 .. Count : EventAt(k)' = EventAt(k)
    BY <2>1, <2>3 DEF EventAt, Event
  <2> QED
    BY <2>1, <2>3, <2>4 DEF Silent
<1>7. CASE Worded
  <2>1. turn.answer = "begun"
    BY <1>0, <1>7 DEF Worded, Running, TurnInv, Late
  <2>2. turn'.answer = "closed" /\ turn'.chunks = turn.chunks
    BY <1>1, <1>7 DEF Worded, Turns
  <2>3. Count = n + 1 /\ Count' = n + 2
    BY <1>1, <2>1, <2>2 DEF Count
  <2>4. \A k \in 1 .. n + 1 : EventAt(k)' = EventAt(k)
    BY <1>1, <2>2, <2>3 DEF EventAt, Event
  <2>5. \A k \in Nat : k = n + 2 =>
          EventAt(k)' = Event("answer_done", AnswerText(turn.chunks))
    BY <1>1, <2>2, <2>3 DEF EventAt, Event
  <2>6. Emits(Event("answer_done", AnswerText(turn.chunks)))
    <3>1. Count' = Count + 1 /\ Count + 1 = n + 2
      BY <1>1, <2>3
    <3> QED
      BY <1>7, <2>3, <2>4, <2>5, <3>1 DEF Emits, Worded, Emit
  <2>7. AnswerText(turn.chunks) \in Texts
    BY <1>1, AnswerTextTyped
  <2> QED
    BY <2>6, <2>7, KnownEvents
<1> QED
  BY <1>2, <1>3, <1>4, <1>5, <1>6, <1>7 DEF TurnSteps, AnswerSteps

-----------------------------------------------------------------------------
(* The stream                                                              *)

\* While the turn runs the stream has opened and waits, or its client has gone.
LEMMA RunningIsWaited ==
    ASSUME StreamTypeOK, StreamInv, task.at \in {"running", "cancelling"}
    PROVE  stream.at = "waiting" \/ (stream.at = "over" /\ ~Kept)
  BY DEF StreamTypeOK, StreamInv, Got

\* A step of the turn moves nothing that was emitted.
LEMMA StreamInvOfTurn ==
    ASSUME StreamTypeOK, StreamInv, TurnInv, TurnSteps
    PROVE  StreamInv'
<1>1. /\ task.at = "running"
      /\ UNCHANGED <<settings, client, stream, task, sent>>
  BY TurnStepsRun
<1>2. Silent \/ \E event \in Events : Emits(event)
  BY TurnStepsLog
<1>3. CASE stream.at = "over" /\ ~Kept
  BY <1>1, <1>3 DEF StreamInv, Kept
<1>4. CASE stream.at = "waiting"
  <2>1. Travelling
    BY <1>4 DEF StreamInv
  <2>2. turn \in Turns /\ queue \in Seq(Events) /\ sent \in Seq(Events)
    BY DEF StreamTypeOK
  <2>3. Count \in Nat /\ Len(sent) \in Nat /\ Len(queue) \in Nat /\ Held \in 0 .. 1
    BY <2>2, LogTyped DEF Held
  <2>4. Len(sent) + Held + Len(queue) = Count /\ Made' = Count' /\ Held' = Held
    <3>1. Count' \in Nat
      BY <1>2, <2>3 DEF Silent, Emits
    <3>2. Made = Count
      BY <1>1, <2>3 DEF Made
    <3>3. Made' = Count'
      <4>1. task'.at # "ended"
        BY <1>1
      <4>2. \A c \in Nat : c + 0 = c
        OBVIOUS
      <4>3. (Count + 0)' = Count'
        BY <3>1, <4>2, Zenon
      <4> QED
        BY <4>1, <4>3 DEF Made
    <3> QED
      BY <1>1, <2>1, <3>2, <3>3 DEF Travelling, Held
  <2>5. \A k \in 1 .. Count : EventAt(k)' = EventAt(k)
    BY <1>2 DEF Silent, Emits
  <2>6. /\ Len(sent) + Held + Len(queue') = Count'
        /\ \A i \in 1 .. Len(queue') : queue'[i] = EventAt(Len(sent) + Held + i)'
    <3>1. CASE Silent
      <4>1. queue' = queue /\ Count' = Count
        BY <3>1 DEF Silent
      <4>2. ASSUME NEW i \in 1 .. Len(queue)
            PROVE  queue[i] = EventAt(Len(sent) + Held + i)'
        <5> DEFINE k == Len(sent) + Held + i
        <5>1. k \in 1 .. Count
          BY <2>3, <2>4
        <5>2. queue[i] = EventAt(k)
          BY <2>1 DEF Travelling
        <5>3. \A l \in Nat : l = k => EventAt(l)' = EventAt(l)
          BY <2>5, <5>1
        <5>4. k' = k
          BY <1>1 DEF Held
        <5> QED
          BY <2>3, <5>1, <5>2, <5>3, <5>4
      <4> QED
        BY <2>4, <4>1, <4>2
    <3>2. CASE \E event \in Events : Emits(event)
      <4>1. PICK event \in Events : Emits(event)
        BY <3>2
      <4>2. /\ Len(queue') = Len(queue) + 1
            /\ \A i \in 1 .. Len(queue) : queue'[i] = queue[i]
            /\ queue'[Len(queue) + 1] = event
        BY <2>2, <4>1, AppendProperties DEF Emits
      <4>3. ASSUME NEW i \in 1 .. Len(queue')
            PROVE  queue'[i] = EventAt(Len(sent) + Held + i)'
        <5> DEFINE k == Len(sent) + Held + i
        <5>1. k' = k
          BY <1>1 DEF Held
        <5>2. CASE i \in 1 .. Len(queue)
          <6>1. k \in 1 .. Count
            BY <2>3, <2>4, <5>2
          <6>2. queue[i] = EventAt(k)
            BY <2>1, <5>2 DEF Travelling
          <6>3. \A l \in Nat : l = k => EventAt(l)' = EventAt(l)
            BY <2>5, <6>1
          <6> QED
            BY <2>3, <4>2, <5>1, <5>2, <6>1, <6>2, <6>3
        <5>3. CASE i = Len(queue) + 1
          <6>1. k \in Nat /\ k = Count + 1
            BY <2>3, <2>4, <5>3
          <6>2. \A l \in Nat : l = k => EventAt(l)' = event
            BY <4>1, <6>1 DEF Emits
          <6> QED
            BY <4>2, <5>1, <5>3, <6>1, <6>2
        <5> QED
          BY <2>3, <4>2, <5>2, <5>3
      <4>4. Len(sent) + Held + Len(queue') = Count'
        BY <2>3, <2>4, <4>1, <4>2 DEF Emits
      <4> QED
        BY <4>3, <4>4
    <3> QED
      BY <1>2, <3>1, <3>2
  <2>7. \A i \in 1 .. Len(sent) : sent[i] = EventAt(i)'
    BY <2>1, <2>3, <2>4, <2>5 DEF Travelling
  <2>8. Held = 1 => stream.item = EventAt(Len(sent) + 1)'
    <3> SUFFICES ASSUME Held = 1
                 PROVE  stream.item = EventAt(Len(sent) + 1)'
      OBVIOUS
    <3> DEFINE k == Len(sent) + 1
    <3>1. k \in 1 .. Count /\ k' = k
      BY <1>1, <2>3, <2>4
    <3>2. stream.item = EventAt(k)
      BY <2>1 DEF Travelling
    <3>3. \A l \in Nat : l = k => EventAt(l)' = EventAt(l)
      BY <2>5, <3>1
    <3> QED
      BY <2>3, <3>1, <3>2, <3>3
  <2>9. Travelling'
    BY <1>1, <2>1, <2>4, <2>6, <2>7, <2>8 DEF Travelling
  <2> QED
    BY <1>1, <1>4, <2>9 DEF StreamInv, Kept
<1> QED
  BY <1>1, <1>3, <1>4, RunningIsWaited

\* The end is put behind what was emitted.
LEMMA StreamInvOfEnd ==
    ASSUME StreamTypeOK, StreamInv,
           Return \/ Raises \/ Cancelled \/ WriteGivesUp
    PROVE  StreamInv'
<1>1. /\ task.at \in {"running", "cancelling"} /\ task'.at = "ended"
      /\ queue' = Append(queue, End)
      /\ UNCHANGED <<settings, client, stream, sent, turn, stored>>
  BY DEF Return, Raises, Cancelled, WriteGivesUp, Running, Produced, OfProducer
<1>2. CASE stream.at = "over" /\ ~Kept
  BY <1>1, <1>2 DEF StreamInv, Kept
<1>3. CASE stream.at = "waiting"
  <2>1. Travelling
    BY <1>3 DEF StreamInv
  <2>2. turn \in Turns /\ queue \in Seq(Events) /\ sent \in Seq(Events)
    BY DEF StreamTypeOK
  <2>3. Count \in Nat /\ Len(sent) \in Nat /\ Len(queue) \in Nat /\ Held \in 0 .. 1
    BY <2>2, LogTyped DEF Held
  <2>4. /\ Len(queue') = Len(queue) + 1
        /\ \A i \in 1 .. Len(queue) : queue'[i] = queue[i]
        /\ queue'[Len(queue) + 1] = End
    BY <1>1, <2>2, KnownEvents, AppendProperties
  <2>5. /\ Count' = Count /\ Held' = Held
        /\ Made = Count /\ Made' = Count + 1
        /\ \A k : EventAt(k)' = EventAt(k)
    <3>1. Count' = Count
      BY <1>1 DEF Count
    <3>2. Made = Count
      BY <1>1, <2>3 DEF Made
    <3>3. Made' = Count + 1
      BY <1>1, <2>3, <3>1 DEF Made
    <3>4. \A k : EventAt(k)' = EventAt(k)
      BY <1>1, <3>1 DEF EventAt, Event
    <3> QED
      BY <1>1, <3>1, <3>2, <3>3, <3>4 DEF Held
  <2>6. ASSUME NEW i \in 1 .. Len(queue')
        PROVE  queue'[i] = EventAt(Len(sent) + Held + i)
    <3>1. CASE i \in 1 .. Len(queue)
      BY <2>1, <2>4, <3>1 DEF Travelling
    <3>2. CASE i = Len(queue) + 1
      <4>1. Len(sent) + Held + i = Count + 1
        BY <2>1, <2>3, <2>5, <3>2 DEF Travelling
      <4>2. EventAt(Count + 1) = End
        BY <2>2, <2>3, LogTyped
      <4> QED
        BY <2>4, <3>2, <4>1, <4>2
    <3> QED
      BY <2>3, <2>4, <3>1, <3>2
  <2>7. Len(sent) + Held + Len(queue') = Count + 1
    BY <2>1, <2>3, <2>4, <2>5 DEF Travelling
  <2>8. Travelling'
    <3>1. (Len(sent) + Held + Len(queue))' = Made'
      BY <1>1, <2>5, <2>7
    <3>2. (\A i \in 1 .. Len(queue) : queue[i] = EventAt(Len(sent) + Held + i))'
      BY <1>1, <2>5, <2>6
    <3>3. (\A i \in 1 .. Len(sent) : sent[i] = EventAt(i))'
      BY <1>1, <2>1, <2>5 DEF Travelling
    <3>4. (Held = 1 => stream.item = EventAt(Len(sent) + 1))'
      BY <1>1, <2>1, <2>5 DEF Travelling
    <3> QED
      BY <1>1, <2>1, <3>1, <3>2, <3>3, <3>4 DEF Travelling
  <2> QED
    BY <1>1, <1>3, <2>8 DEF StreamInv, Kept
<1> QED
  BY <1>1, <1>2, <1>3, RunningIsWaited

\* The generator does not change the log.
LEMMA GeneratorLog ==
    ASSUME turn' = turn
    PROVE  /\ Count' = Count
           /\ \A k : EventAt(k)' = EventAt(k)
<1>1. Count' = Count
  BY DEF Count
<1> QED
  BY <1>1 DEF EventAt, Event

\* Open, GetterTakes, KeepAlive, Deliver: the log travels.
LEMMA StreamInvOfTravel ==
    ASSUME StreamTypeOK, StreamInv, TaskInv,
           Open \/ GetterTakes \/ KeepAlive \/ Deliver
    PROVE  StreamInv'
<1>1. /\ UNCHANGED <<client, turn, stored>>
      /\ stream' \in [at : {"opening", "waiting", "joining", "concluded", "over"},
                      getter : {"none", "pending", "done"}, item : Events,
                      streamed : BOOLEAN, alive : BOOLEAN]
  BY GeneratorTyped DEF Generator, Open, GetterTakes, KeepAlive, Deliver,
                        OfStream, StreamTypeOK
<1>2. /\ Count' = Count
      /\ \A k : EventAt(k)' = EventAt(k)
  BY <1>1, GeneratorLog
<1>3. stream \in [at : {"opening", "waiting", "joining", "concluded", "over"},
                  getter : {"none", "pending", "done"}, item : Events,
                  streamed : BOOLEAN, alive : BOOLEAN]
  BY DEF StreamTypeOK
<1>4. /\ turn \in Turns /\ queue \in Seq(Events) /\ sent \in Seq(Events)
      /\ task \in Tasks
  BY DEF StreamTypeOK
<1>5. Count \in Nat /\ Len(sent) \in Nat /\ Len(queue) \in Nat /\ Made \in Nat
  BY <1>4, LogTyped DEF Made
<1>6. stream.at \in {"opening", "waiting"} /\ stream'.at = "waiting" /\ Travelling
  BY <1>3 DEF Open, GetterTakes, KeepAlive, Deliver, StreamInv
<1>7. Made' = Made
  <2>1. (task.at = "ended") <=> (task'.at = "ended")
    BY <1>4 DEF Open, GetterTakes, KeepAlive, Deliver, StreamInv, Tasks
  <2> QED
    BY <1>2, <2>1 DEF Made
<1>8. Travelling'
  <2>1. CASE Open \/ KeepAlive
    <3>1. /\ sent' = sent /\ queue' = queue /\ stream'.streamed = stream.streamed
          /\ stream'.getter # "done" /\ stream.getter # "done"
      BY <1>3, <2>1 DEF Open, KeepAlive, StreamInv
    <3>2. Held = 0 /\ Held' = 0
      BY <3>1 DEF Held
    <3> QED
      BY <1>2, <1>6, <1>7, <3>1, <3>2 DEF Travelling
  <2>2. CASE GetterTakes
    <3>1. /\ sent' = sent /\ queue' = Tail(queue) /\ queue # <<>>
          /\ stream'.streamed = stream.streamed
          /\ stream'.getter = "done" /\ stream.getter = "pending"
          /\ stream'.item = Head(queue)
      BY <1>3, <2>2 DEF GetterTakes
    <3>2. Held = 0 /\ Held' = 1
      BY <3>1 DEF Held
    <3>3. /\ Len(queue') = Len(queue) - 1 /\ Len(queue) > 0
          /\ \A i \in 1 .. Len(queue') : queue'[i] = queue[i + 1]
          /\ Head(queue) = queue[1]
      BY <1>4, <3>1, HeadTailProperties
    <3>4. ASSUME NEW i \in 1 .. Len(queue)
          PROVE  queue[i] = EventAt(Len(sent) + i)
      BY <1>5, <1>6, <3>2 DEF Travelling
    <3>5. queue[1] = EventAt(Len(sent) + 1)
      BY <1>5, <3>3, <3>4
    <3>6. ASSUME NEW i \in 1 .. Len(queue')
          PROVE  queue'[i] = EventAt(Len(sent) + 1 + i)
      <4>1. i + 1 \in 1 .. Len(queue) /\ Len(sent) + (i + 1) = Len(sent) + 1 + i
        BY <1>5, <3>3
      <4> QED
        BY <3>3, <3>4, <4>1
    <3>7. Len(sent) + 1 + Len(queue') = Made
      <4>1. Len(sent) + 0 + Len(queue) = Made
        BY <1>6, <3>2 DEF Travelling
      <4>2. \A a, b, c \in Nat : a + 0 + b = c /\ b > 0 => a + 1 + (b - 1) = c
        OBVIOUS
      <4>3. Len(sent) + 1 + (Len(queue) - 1) = Made
        BY <1>5, <3>3, <4>1, <4>2
      <4> QED
        BY <3>3, <4>3
    <3> QED
      BY <1>2, <1>6, <1>7, <3>1, <3>2, <3>3, <3>5, <3>6, <3>7 DEF Travelling
  <2>3. CASE Deliver
    <3>1. /\ sent' = Append(sent, stream.item) /\ queue' = queue
          /\ stream'.streamed
          /\ stream'.getter = "pending" /\ stream.getter = "done"
      BY <1>3, <2>3 DEF Deliver, Send
    <3>2. Held = 1 /\ Held' = 0
      BY <3>1 DEF Held
    <3>3. /\ Len(sent') = Len(sent) + 1
          /\ \A i \in 1 .. Len(sent) : sent'[i] = sent[i]
          /\ sent'[Len(sent) + 1] = stream.item
      BY <1>3, <1>4, <3>1, AppendProperties
    <3>4. ASSUME NEW i \in 1 .. Len(sent')
          PROVE  sent'[i] = EventAt(i)
      <4>1. CASE i = Len(sent) + 1
        BY <1>6, <3>2, <3>3, <4>1 DEF Travelling
      <4>2. CASE i \in 1 .. Len(sent)
        BY <1>6, <3>3, <4>2 DEF Travelling
      <4> QED
        BY <1>5, <3>3, <4>1, <4>2
    <3>5. \A i \in 1 .. Len(queue) : queue[i] = EventAt(Len(sent) + 1 + i)
      BY <1>6, <3>2 DEF Travelling
    <3>6. Len(sent') + Len(queue) = Made /\ Len(sent') > 0
      BY <1>5, <1>6, <3>2, <3>3 DEF Travelling
    <3>7. ASSUME NEW i \in 1 .. Len(queue)
          PROVE  Len(sent') + 0 + i = Len(sent) + 1 + i
      BY <1>5, <3>3
    <3>8. Len(sent') + 0 + Len(queue') = Made'
      BY <1>5, <1>7, <3>1, <3>3, <3>6
    <3> QED
      BY <1>2, <3>1, <3>2, <3>4, <3>5, <3>6, <3>7, <3>8 DEF Travelling
  <2> QED
    BY <2>1, <2>2, <2>3
<1> QED
  BY <1>1, <1>6, <1>8 DEF StreamInv, Kept

\* What the client has once the queue has ended, and what the generator adds.
LEMMA StreamInvOfClosing ==
    ASSUME StreamTypeOK, StreamInv, TaskInv,
           \/ DeliverEnd \/ Conclude \/ Done
           \/ Close \/ CloseInterrupted \/ ClientGoes
    PROVE  StreamInv'
<1>1. turn' = turn /\ stored' = stored
  BY OthersLeaveTurn DEF Generator
<1>2. /\ Count' = Count
      /\ \A k : EventAt(k)' = EventAt(k)
  BY <1>1, GeneratorLog
<1>3. stream \in [at : {"opening", "waiting", "joining", "concluded", "over"},
                  getter : {"none", "pending", "done"}, item : Events,
                  streamed : BOOLEAN, alive : BOOLEAN]
  BY DEF StreamTypeOK
<1>4. /\ turn \in Turns /\ queue \in Seq(Events) /\ sent \in Seq(Events)
      /\ task \in Tasks
  BY DEF StreamTypeOK
<1>5. Count \in Nat /\ Len(sent) \in Nat /\ Len(queue) \in Nat
  BY <1>4, LogTyped
<1>6. CASE Close \/ CloseInterrupted
  <2>1. stream'.at = "over" /\ stream'.getter = "none" /\ client' = "gone"
    BY <1>3, <1>6 DEF Close, CloseInterrupted, OfStream
  <2> QED
    BY <2>1 DEF StreamInv, Kept
<1>7. CASE ClientGoes
  <2>1. /\ stream.at # "over" /\ ~Kept'
        /\ UNCHANGED <<stream, task, queue, sent>>
    BY <1>7 DEF ClientGoes, Kept
  <2>2. Travelling => Travelling'
    BY <1>2, <2>1 DEF Travelling, Held, Made
  <2>3. Extra' = Extra /\ Well' = Well /\ Outcome' = Outcome
    BY <1>2, <2>1 DEF Extra, Well, Outcome, Event
  <2>4. Got(0) => Got(0)'
    BY <1>2, <2>1 DEF Got
  <2>5. Got(Extra) => Got(Extra)'
    BY <1>2, <2>1, <2>3 DEF Got
  <2>6. sent[Count + 1] = Outcome => (sent[Count + 1] = Outcome)'
    BY <1>2, <2>1, <2>3
  <2> QED
    BY <2>1, <2>2, <2>3, <2>4, <2>5, <2>6 DEF StreamInv, Kept
<1>8. CASE DeliverEnd
  <2>1. /\ stream.at = "waiting" /\ stream.getter = "done" /\ stream.item = End
        /\ stream'.at = "joining" /\ stream'.getter = "none"
        /\ stream'.streamed = stream.streamed
        /\ UNCHANGED <<sent, task>>
    BY <1>3, <1>8 DEF DeliverEnd, OfStream
  <2>2. Held = 1
    BY <2>1 DEF Held
  <2>3. Travelling
    BY <2>1 DEF StreamInv
  <2>4. EventAt(Len(sent) + 1) = End
    BY <2>1, <2>2, <2>3 DEF Travelling
  <2>5. Len(sent) + 1 > Count
    <3>1. Len(sent) + 1 \in 1 .. Count => EventAt(Len(sent) + 1) # End
      BY <1>4, LogTyped
    <3> QED
      BY <1>5, <2>4, <3>1
  <2>6. Len(sent) + 1 + Len(queue) = Made
    BY <2>2, <2>3 DEF Travelling
  <2>7. Len(sent) = Count /\ task.at = "ended"
    BY <1>5, <2>5, <2>6 DEF Made
  <2>8. Got(0)'
    BY <1>2, <1>5, <2>1, <2>3, <2>7 DEF Got, Travelling
  <2> QED
    BY <2>1, <2>8 DEF StreamInv, Kept
<1>9. CASE Conclude
  <2>1. /\ stream.at = "joining" /\ stream'.at = "concluded"
        /\ stream.getter = "none" /\ stream'.getter = "none"
        /\ stream'.streamed = stream.streamed /\ task' = task
        /\ sent' = IF Well THEN sent ELSE Append(sent, Outcome)
    <3>1. stream.at = "joining" /\ Got(0) /\ stream.getter = "none"
      BY <1>9 DEF Conclude, StreamInv
    <3>2. Shown <=> Well
      BY <3>1 DEF Shown, Well, Got
    <3>3. task.result = "none" => ~Well
      BY DEF Well
    <3> QED
      BY <1>3, <1>9, <3>1, <3>2, <3>3 DEF Conclude, Send, Outcome, OfStream
  <2>2. Got(0)
    BY <2>1 DEF StreamInv
  <2>3. Well' = Well /\ Outcome' = Outcome /\ Extra' = Extra
    BY <1>2, <2>1 DEF Well, Outcome, Extra, Event
  <2>4. CASE Well
    <3>1. Extra = 0
      BY <2>4 DEF Extra
    <3>2. Got(Extra)'
      BY <1>2, <2>1, <2>2, <2>3, <2>4, <3>1 DEF Got
    <3> QED
      BY <2>1, <2>3, <2>4, <3>2 DEF StreamInv, Kept
  <2>5. CASE ~Well
    <3>1. Extra = 1
      BY <2>5 DEF Extra
    <3>2. /\ Len(sent') = Len(sent) + 1
          /\ \A i \in 1 .. Len(sent) : sent'[i] = sent[i]
          /\ sent'[Len(sent) + 1] = Outcome
      <4>1. Outcome \in Events
        <5>1. Event("error", OtherText) \in Events
          BY KnownTexts, KnownEvents DEF Outcomes
        <5>2. task.result # "none" => Event(task.result, task.text) \in Events
          BY <1>4, KnownEvents DEF Tasks
        <5> QED
          BY <5>1, <5>2 DEF Outcome
      <4> QED
        BY <1>4, <2>1, <2>5, <4>1, AppendProperties
    <3>3. Len(sent) = Count /\ \A i \in 1 .. Count : sent'[i] = EventAt(i)
      BY <1>5, <2>2, <3>2 DEF Got
    <3>4. Got(Extra)'
      BY <1>2, <2>1, <2>2, <2>3, <3>1, <3>2, <3>3 DEF Got
    <3>5. (sent[Count + 1] = Outcome)'
      BY <1>2, <2>3, <3>2, <3>3
    <3> QED
      BY <2>1, <3>4, <3>5 DEF StreamInv, Kept
  <2> QED
    BY <2>4, <2>5
<1>10. CASE Done
  <2>1. /\ stream.at = "concluded" /\ stream'.at = "over"
        /\ stream.getter = "none" /\ stream'.getter = "none"
        /\ stream'.streamed = stream.streamed /\ task' = task
        /\ sent' = Append(sent, Event("done", <<>>))
    BY <1>3, <1>10 DEF Done, Send, OfStream, StreamInv
  <2>2. Got(Extra) /\ (~Well => sent[Count + 1] = Outcome)
    BY <2>1 DEF StreamInv
  <2>3. Well' = Well /\ Outcome' = Outcome /\ Extra' = Extra
    BY <1>2, <2>1 DEF Well, Outcome, Extra, Event
  <2>4. Extra = IF Well THEN 0 ELSE 1
    BY DEF Extra
  <2>5. /\ Len(sent') = Len(sent) + 1
        /\ \A i \in 1 .. Len(sent) : sent'[i] = sent[i]
        /\ sent'[Len(sent) + 1] = Event("done", <<>>)
    BY <1>4, <2>1, KnownEvents, AppendProperties
  <2>6. Len(sent) = Count + Extra /\ \A i \in 1 .. Count : sent'[i] = EventAt(i)
    BY <1>5, <2>2, <2>4, <2>5 DEF Got
  <2>7. Got(Extra + 1)'
    <3>1. Len(sent') = Count + (Extra + 1)
      BY <1>5, <2>4, <2>5, <2>6
    <3> QED
      BY <1>2, <2>1, <2>2, <2>3, <2>6, <3>1 DEF Got
  <2>8. ~Well => sent'[Count + 1] = Outcome
    BY <1>5, <2>2, <2>4, <2>5, <2>6
  <2>9. (sent[Len(sent)] = Event("done", <<>>))'
    BY <2>5 DEF Event
  <2> QED
    BY <1>2, <2>1, <2>3, <2>7, <2>8, <2>9 DEF StreamInv, Kept
<1> QED
  BY <1>6, <1>7, <1>8, <1>9, <1>10

LEMMA StreamInvKept ==
    ASSUME StreamTypeOK, StreamInv, TurnInv, TaskInv, [Next]_vars
    PROVE  StreamInv'
<1>1. CASE UNCHANGED vars
  <2>1. UNCHANGED <<stream, client, task, queue, sent, turn>>
    BY <1>1 DEF vars
  <2>2. /\ Count' = Count /\ \A k : EventAt(k)' = EventAt(k)
    BY <2>1, GeneratorLog
  <2>3. /\ Travelling' = Travelling /\ Kept' = Kept /\ Well' = Well
        /\ Extra' = Extra /\ Outcome' = Outcome
    BY <2>1, <2>2
    DEF Travelling, Held, Made, Kept, Well, Extra, Outcome, Event
  <2> QED
    BY <2>1, <2>2, <2>3 DEF StreamInv, Got
<1> QED
  BY <1>1, NextIs, StreamInvOfTurn, StreamInvOfEnd, StreamInvOfTravel,
     StreamInvOfClosing DEF Generator

-----------------------------------------------------------------------------
(* The theorems                                                            *)

LEMMA InitInvariant == Init => StreamIInv
<1> SUFFICES ASSUME Init
             PROVE  StreamIInv
  OBVIOUS
<1>1. StreamTypeOK
  BY InitTyped
<1>2. turn = NoTurn /\ task = NoTask /\ stream = NoStream
      /\ sent = <<>> /\ queue = <<>>
  BY DEF Init
<1>3. Count = 0
  BY <1>2 DEF Count, NoTurn
<1>4. Travelling
  <2>1. Held = 0 /\ Made = 0 /\ ~stream.streamed
    BY <1>2, <1>3 DEF Held, Made, NoStream, NoTask
  <2>2. Len(sent) = 0 /\ Len(queue) = 0
    BY <1>2
  <2> QED
    BY <2>1, <2>2 DEF Travelling
<1>5. StreamInv
  BY <1>2, <1>4 DEF StreamInv, NoStream, NoTask, Kept
<1>6. TurnInv /\ TaskInv
  BY <1>2 DEF TurnInv, TaskInv, NoTurn, NoTask, Late
<1>7. RequestInv
  <2>1. settings.retries \in 0 .. 1 /\ settings.repairs \in 0 .. 1
    BY <1>1, SettingsAssumption DEF StreamTypeOK
  <2> QED
    BY <1>2, <2>1 DEF RequestInv, Under, Calls, NoTurn
<1> QED
  BY <1>1, <1>5, <1>6, <1>7 DEF StreamIInv

LEMMA InvariantKept == StreamIInv /\ [Next]_vars => StreamIInv'
  BY TypesKept, TurnInvKept, TaskInvKept, StreamInvKept, RequestInvKept
  DEF StreamIInv

\* The inductive invariant: the events emitted form one log, of which client,
\* getter and queue hold consecutive parts (_stream_events, produce).
THEOREM StreamInvariance == Spec => []StreamIInv
  BY InitInvariant, InvariantKept, PTL DEF Spec

\* Every variable keeps its shape.
THEOREM StreamTypeCorrect == Spec => []StreamTypeOK
<1>1. StreamIInv => StreamTypeOK
  BY DEF StreamIInv
<1> QED
  BY <1>1, StreamInvariance, PTL

\* However often the model is rate limited or answers what cannot be used, a
\* turn asks it a bounded number of times (_request_with_retry,
\* complete_structured).
THEOREM RequestsAreBounded == Spec => []LlmRequestsBounded
<1>1. StreamIInv => LlmRequestsBounded
  BY DEF StreamIInv, RequestInv, Calls, LlmRequestsBounded
<1> QED
  BY <1>1, StreamInvariance, PTL

\* What a client that stayed has in the end.
LEMMA WhatWasSent ==
    ASSUME StreamIInv, Kept
    PROVE  /\ task.at = "ended" /\ Count \in Nat
           /\ Len(sent) = Count + (IF Well THEN 1 ELSE 2)
           /\ \A i \in 1 .. Count : /\ sent[i] = EventAt(i)
                                    /\ sent[i].type \in AnswerEvents
           /\ ~Well => sent[Count + 1] = Outcome /\ Outcome.type \in Outcomes
           /\ sent[Len(sent)] = Event("done", <<>>)
           /\ DOMAIN sent = 1 .. Len(sent)
<1>1. Got(Extra + 1) /\ sent[Len(sent)] = Event("done", <<>>)
      /\ (~Well => sent[Count + 1] = Outcome)
  BY DEF StreamIInv, StreamInv
<1>2. turn \in Turns /\ task \in Tasks /\ sent \in Seq(Events)
  BY DEF StreamIInv, StreamTypeOK
<1>3. /\ Count \in Nat
      /\ \A k \in 1 .. Count : EventAt(k).type \in AnswerEvents
  BY <1>2, LogTyped
<1>4. Outcome.type \in Outcomes
  BY <1>2 DEF Outcome, Event, Outcomes, Tasks
<1>5. Len(sent) = Count + (IF Well THEN 1 ELSE 2)
  BY <1>1, <1>3 DEF Got, Extra
<1> QED
  BY <1>1, <1>2, <1>3, <1>4, <1>5 DEF Got

\* If the turn succeeded after an answer was begun, the log is that answer,
\* closed by its text, or not closed because wording it broke.
LEMMA WellIsShown ==
    ASSUME StreamIInv, Well
    PROVE  /\ turn.at = "return" /\ turn.type = "answer"
           /\ task.text = turn.text /\ stored.text = turn.text
           /\ stored.row = "completed" /\ turn.chunks \in Seq(Chunks)
           /\ \/ /\ turn.answer = "closed" /\ Count = Len(turn.chunks) + 2
                 /\ turn.text = AnswerText(turn.chunks)
              \/ /\ turn.answer = "begun" /\ Count = Len(turn.chunks) + 1
                 /\ turn.text = Formatted
<1>1. turn.at = "return" /\ task.text = turn.text /\ stored.text = turn.text
  BY DEF StreamIInv, TaskInv, TurnInv, Well
<1>2. turn.answer \in {"begun", "closed"} /\ turn.chunks \in Seq(Chunks)
  BY DEF Well, Count, StreamIInv, StreamTypeOK, Turns
<1> QED
  BY <1>1, <1>2 DEF StreamIInv, TurnInv, Late, Count

\* The log of an answer that was begun, and the event that closes it.
LEMMA WholeLog ==
    ASSUME turn.chunks \in Seq(Chunks), turn.answer \in {"begun", "closed"}
    PROVE  /\ turn.answer = "closed" => Count = Len(turn.chunks) + 2
           /\ turn.answer = "begun" => Count = Len(turn.chunks) + 1
           /\ EventAt(1) = Event("answer_start", <<>>)
           /\ \A i \in 1 .. Len(turn.chunks) :
                EventAt(i + 1) = Event("answer_delta", <<turn.chunks[i]>>)
           /\ turn.answer = "closed" =>
                EventAt(Len(turn.chunks) + 2)
                  = Event("answer_done", AnswerText(turn.chunks))
<1> DEFINE n == Len(turn.chunks)
<1>1. /\ n \in Nat
      /\ turn.answer = "closed" => Count = n + 2
      /\ turn.answer = "begun" => Count = n + 1
  <2>1. CASE turn.answer = "closed"
    BY <2>1 DEF Count
  <2>2. CASE turn.answer = "begun"
    BY <2>2 DEF Count
  <2> QED
    BY <2>1, <2>2
<1>2. ~(1 > Count)
  BY <1>1
<1>3. EventAt(1) = Event("answer_start", <<>>)
  BY <1>2 DEF EventAt
<1>4. ASSUME turn.answer = "closed"
      PROVE  EventAt(n + 2) = Event("answer_done", AnswerText(turn.chunks))
  <2>1. ~(n + 2 > Count) /\ n + 2 # 1
    BY <1>1, <1>4
  <2> QED
    BY <2>1 DEF EventAt
<1>5. ASSUME NEW i \in 1 .. n
      PROVE  EventAt(i + 1) = Event("answer_delta", <<turn.chunks[i]>>)
  <2>1. /\ ~(i + 1 > Count) /\ i + 1 # 1 /\ i + 1 # n + 2
        /\ (i + 1) - 1 = i
    BY <1>1
  <2>2. EventAt(i + 1) = Event("answer_delta", <<turn.chunks[(i + 1) - 1]>>)
    BY <2>1 DEF EventAt
  <2> QED
    BY <2>1, <2>2
<1> QED
  BY <1>1, <1>3, <1>4, <1>5

\* A client that stays gets one outcome, and "done" after it; the outcome is
\* left out exactly if an answer was begun and the turn succeeded, and only
\* with the formatter's text can that answer be left open (_stream_events,
\* format_response_node).
THEOREM OneOutcome == Spec => []EndsWithOneOutcome
<1>1. ASSUME StreamIInv
      PROVE  EndsWithOneOutcome
  <2> SUFFICES ASSUME Kept
               PROVE  /\ Received({"done"}) = {Len(sent)}
                      /\ Received(Outcomes)
                           = IF /\ Received({"answer_start"}) # {}
                                /\ task.result = "answer"
                             THEN {} ELSE {Len(sent) - 1}
                      /\ Received(Outcomes \cup {"answer_done"}) = {}
                           => task.text = Formatted
    BY DEF EndsWithOneOutcome
  <2>1. /\ Count \in Nat
        /\ Len(sent) = Count + (IF Well THEN 1 ELSE 2)
        /\ \A i \in 1 .. Count : /\ sent[i] = EventAt(i)
                                 /\ sent[i].type \in AnswerEvents
        /\ ~Well => sent[Count + 1] = Outcome /\ Outcome.type \in Outcomes
        /\ sent[Len(sent)] = Event("done", <<>>)
        /\ DOMAIN sent = 1 .. Len(sent)
    BY <1>1, WhatWasSent
  <2>2. /\ AnswerEvents \cap Outcomes = {} /\ "done" \notin Outcomes
        /\ "done" \notin AnswerEvents /\ "answer_start" \notin Outcomes
    BY DEF AnswerEvents, Outcomes
  <2>3. sent[Len(sent)].type = "done"
    BY <2>1 DEF Event
  <2>4. CASE Well
    <3>1. /\ task.text = turn.text /\ turn.chunks \in Seq(Chunks)
          /\ \/ turn.answer = "closed"
             \/ turn.answer = "begun" /\ turn.text = Formatted
      BY <1>1, <2>4, WellIsShown
    <3>2. Len(sent) = Count + 1 /\ 1 \in 1 .. Count
      BY <2>1, <2>4 DEF Well
    <3>3. sent[1] = Event("answer_start", <<>>)
      BY <2>1, <3>1, <3>2, WholeLog
    <3>4. 1 \in Received({"answer_start"})
      BY <2>1, <3>2, <3>3 DEF Received, Event
    <3>5. Received({"done"}) = {Len(sent)} /\ Received(Outcomes) = {}
      BY <2>1, <2>2, <2>3, <3>2 DEF Received
    <3>6. task.result = "answer"
      BY <2>4 DEF Well
    <3>7. ASSUME turn.answer = "closed"
          PROVE  Received(Outcomes \cup {"answer_done"}) # {}
      <4> DEFINE k == Len(turn.chunks) + 2
      <4>1. k = Count /\ k \in 1 .. Count
        BY <2>1, <3>1, <3>2, <3>7, WholeLog
      <4>2. sent[k] = Event("answer_done", AnswerText(turn.chunks))
        BY <2>1, <3>1, <3>7, <4>1, WholeLog
      <4>3. k \in DOMAIN sent /\ sent[k].type = "answer_done"
        BY <2>1, <3>2, <4>1, <4>2 DEF Event
      <4> QED
        BY <4>3 DEF Received
    <3> QED
      BY <3>1, <3>4, <3>5, <3>6, <3>7
  <2>5. CASE ~Well
    <3>1. Len(sent) = Count + 2 /\ sent[Count + 1].type \in Outcomes
      BY <2>1, <2>5
    <3>2. ASSUME NEW i \in DOMAIN sent
          PROVE  \/ i \in 1 .. Count \/ i = Count + 1 \/ i = Count + 2
      BY <2>1, <3>1
    <3>3. Received({"done"}) = {Len(sent)}
      BY <2>1, <2>2, <2>3, <3>1, <3>2 DEF Received
    <3>4. Received(Outcomes) = {Count + 1}
      BY <2>1, <2>2, <2>3, <3>1, <3>2 DEF Received
    <3>5. Len(sent) - 1 = Count + 1
      BY <2>1, <3>1
    <3>6. task.result = "answer" => Received({"answer_start"}) = {}
      <4> SUFFICES ASSUME task.result = "answer"
                   PROVE  Received({"answer_start"}) = {}
        OBVIOUS
      <4>1. Count = 0
        BY <2>1, <2>5 DEF Well
      <4> QED
        BY <2>1, <2>2, <2>3, <3>1, <3>2, <4>1 DEF Received
    <3>7. Received(Outcomes \cup {"answer_done"}) # {}
      <4>1. Count + 1 \in DOMAIN sent
        BY <2>1, <3>1
      <4> QED
        BY <3>1, <4>1 DEF Received
    <3> QED
      BY <3>3, <3>4, <3>5, <3>6, <3>7
  <2> QED
    BY <2>4, <2>5
<1> QED
  BY <1>1, StreamInvariance, PTL

\* What a client was shown is what the conversation has stored: its chunks in
\* their order, closed by their text, of a read recorded as completed.  In
\* place of an answer that was not closed the formatter's text is stored
\* (format_response_node, persist_conversation_node).
THEOREM TheShownIsStored == Spec => []ShownIsStored
<1>1. ASSUME StreamIInv
      PROVE  ShownIsStored
  <2> DEFINE closed == Received({"answer_done"}) # {}
             last == IF closed THEN Len(sent) - 1 ELSE Len(sent)
             said == [i \in 1 .. last - 2 |-> sent[i + 1].text[1]]
  <2> SUFFICES ASSUME Kept, Received({"error"}) = {}
               PROVE  /\ Received(AnswerEvents) # {} =>
                           /\ stored.row = "completed"
                           /\ stored.text # <<>>
                           /\ sent[1] = Event("answer_start", <<>>)
                           /\ \A i \in DOMAIN said : sent[i + 1]
                                = Event("answer_delta", <<said[i]>>)
                           /\ IF closed
                              THEN /\ sent[last]
                                        = Event("answer_done", stored.text)
                                   /\ Strip(said) \in {stored.text, <<>>}
                              ELSE stored.text = Formatted
                      /\ \A i \in Received(Outcomes) :
                           sent[i].text = stored.text
    BY DEF ShownIsStored
  <2>1. /\ Count \in Nat
        /\ Len(sent) = Count + (IF Well THEN 1 ELSE 2)
        /\ \A i \in 1 .. Count : /\ sent[i] = EventAt(i)
                                 /\ sent[i].type \in AnswerEvents
        /\ ~Well => sent[Count + 1] = Outcome /\ Outcome.type \in Outcomes
        /\ sent[Len(sent)] = Event("done", <<>>)
        /\ DOMAIN sent = 1 .. Len(sent)
    BY <1>1, WhatWasSent
  <2>2. /\ AnswerEvents \cap Outcomes = {} /\ "done" \notin Outcomes
        /\ "done" \notin AnswerEvents
    BY DEF AnswerEvents, Outcomes
  <2>3. sent[Len(sent)].type = "done"
    BY <2>1 DEF Event
  <2>4. task.result \in {"answer", "other"}
    <3>1. CASE Well
      BY <3>1 DEF Well
    <3>2. CASE ~Well
      <4>1. Count + 1 \in DOMAIN sent
        BY <2>1, <3>2
      <4>2. Outcome.type # "error"
        BY <2>1, <3>2, <4>1 DEF Received
      <4>3. task.result \in Outcomes \cup {"none"}
        BY <1>1 DEF StreamIInv, StreamTypeOK, Tasks
      <4> QED
        BY <4>2, <4>3 DEF Outcome, Event, Outcomes
    <3> QED
      BY <3>1, <3>2
  <2>5. /\ turn.at = "return" /\ task.result = turn.type
        /\ task.text = turn.text /\ stored.text = turn.text
    BY <1>1, <2>4 DEF StreamIInv, TaskInv, TurnInv
  <2>6. Received(AnswerEvents) # {} => Well
    <3> SUFFICES ASSUME NEW i \in Received(AnswerEvents)
                 PROVE  Well
      OBVIOUS
    <3>1. Count > 0
      BY <2>1, <2>2, <2>3 DEF Received
    <3>2. turn.answer # "none"
      <4>1. turn.answer = "none" => Count = 0
        BY DEF Count
      <4> QED
        BY <3>1, <4>1
    <3>3. turn.type = "answer"
      BY <1>1, <2>5, <3>2 DEF StreamIInv, TurnInv, Late
    <3> QED
      BY <2>5, <3>1, <3>3 DEF Well
  <2>7. ASSUME Well
        PROVE  /\ stored.row = "completed"
               /\ stored.text # <<>>
               /\ sent[1] = Event("answer_start", <<>>)
               /\ \A i \in DOMAIN said : sent[i + 1]
                    = Event("answer_delta", <<said[i]>>)
               /\ IF closed
                  THEN /\ sent[last] = Event("answer_done", stored.text)
                       /\ Strip(said) \in {stored.text, <<>>}
                  ELSE stored.text = Formatted
    <3> DEFINE n == Len(turn.chunks)
    <3>1. /\ turn.chunks \in Seq(Chunks) /\ n \in Nat
          /\ turn.answer \in {"begun", "closed"}
          /\ turn.answer = "closed" => Count = n + 2
          /\ turn.answer = "begun" => Count = n + 1
          /\ stored.row = "completed" /\ stored.text = turn.text
          /\ turn.text = IF turn.answer = "closed" THEN AnswerText(turn.chunks)
                                                   ELSE Formatted
      BY <1>1, <2>7, WellIsShown
    <3>2. /\ AnswerText(turn.chunks) # <<>> /\ Formatted # <<>>
          /\ Strip(turn.chunks) \in {AnswerText(turn.chunks), <<>>}
      BY <3>1, AnswerTextTyped, KnownTexts
    <3>3. 1 \in 1 .. Count /\ Len(sent) = Count + 1
      BY <2>1, <2>7, <3>1
    <3>4. sent[1] = Event("answer_start", <<>>)
      BY <2>1, <3>1, <3>3, WholeLog
    <3>5. ASSUME NEW i \in 1 .. n
          PROVE  sent[i + 1] = Event("answer_delta", <<turn.chunks[i]>>)
      <4>1. i + 1 \in 1 .. Count
        BY <3>1
      <4> QED
        BY <2>1, <3>1, <4>1, WholeLog
    <3>6. turn.answer = "closed"
            => sent[n + 2] = Event("answer_done", AnswerText(turn.chunks))
      <4>1. turn.answer = "closed" => n + 2 \in 1 .. Count
        BY <3>1
      <4> QED
        BY <2>1, <3>1, <4>1, WholeLog
    <3>7. closed <=> turn.answer = "closed"
      <4>1. turn.answer = "closed"
              => n + 2 \in DOMAIN sent /\ sent[n + 2].type = "answer_done"
        BY <2>1, <3>1, <3>3, <3>6 DEF Event
      <4>2. ASSUME turn.answer = "begun", NEW i \in DOMAIN sent
            PROVE  sent[i].type # "answer_done"
        <5>1. i = 1 \/ i - 1 \in 1 .. n \/ i = n + 2
          BY <2>1, <3>1, <3>3, <4>2
        <5>2. CASE i = 1
          BY <3>4, <5>2 DEF Event
        <5>3. CASE i - 1 \in 1 .. n
          <6>1. (i - 1) + 1 = i
            BY <2>1
          <6>2. sent[(i - 1) + 1] = Event("answer_delta", <<turn.chunks[i - 1]>>)
            BY <3>5, <5>3
          <6> QED
            BY <6>1, <6>2 DEF Event
        <5>4. CASE i = n + 2
          <6>1. i = Len(sent)
            BY <3>1, <3>3, <4>2, <5>4
          <6> QED
            BY <2>3, <6>1
        <5> QED
          BY <5>1, <5>2, <5>3, <5>4
      <4> QED
        BY <3>1, <4>1, <4>2 DEF Received
    <3>8. last - 2 = n /\ (closed => last = n + 2)
      BY <3>1, <3>3, <3>7
    <3>9. said = turn.chunks
      <4>1. \A i \in 1 .. n : sent[i + 1].text[1] = turn.chunks[i]
        <5>1. \A chunk : Event("answer_delta", <<chunk>>).text[1] = chunk
          BY DEF Event
        <5> QED
          BY <3>5, <5>1
      <4>2. said = [i \in 1 .. n |-> turn.chunks[i]]
        BY <3>8, <4>1
      <4>3. turn.chunks = [i \in 1 .. n |-> turn.chunks[i]]
        BY <3>1
      <4> QED
        BY <4>2, <4>3
    <3>10. DOMAIN said = 1 .. n
      BY <3>8
    <3> HIDE DEF said, last, closed
    <3> QED
      BY <3>1, <3>2, <3>4, <3>5, <3>6, <3>7, <3>8, <3>9, <3>10
  <2>8. ASSUME NEW i \in Received(Outcomes)
        PROVE  sent[i].text = stored.text
    <3>1. ~Well /\ i = Count + 1
      BY <2>1, <2>2, <2>3 DEF Received
    <3>2. sent[i] = Event(task.result, task.text)
      BY <2>1, <2>4, <3>1 DEF Outcome
    <3> QED
      BY <2>5, <3>2 DEF Event
  <2> HIDE DEF said, last, closed
  <2> QED
    BY <2>6, <2>7, <2>8
<1> QED
  BY <1>1, StreamInvariance, PTL

=============================================================================
