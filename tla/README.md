# Verification of the HRM chatbot service

TLA+ models of the service under `src/app`, TLC configurations that check them
on small instances, and TLAPS proofs of what holds for instances of any size.

## 1. The system

The service answers employees' questions about their HR data and lets them
change some of it. It holds no HR data itself: Odoo does. A request is one
*turn*: it loads the conversation, finds out what the message is (a question,
the answer to an earlier question, a confirmation), runs one path through a
LangGraph graph of 19 nodes, and stores the result. A change is never made in
the turn that asks for it: the turn creates a *pending action*, the employee
sees a card, and a later turn that confirms the card carries the action out.

### 1.1 Components

| Component | State it keeps | Operations |
|---|---|---|
| **Pending actions** (`context/pending_action_service.py`, `persistence/repositories/pending_action_repository.py`) | table `pending_action`: status, owner, created/expires/confirmed/executing times, idempotency key | `create`, `load_owned`, `claim_execution`, `cancel`, `cancel_for_conversation`, `finish` |
| **Write execution** (`orchestration/nodes/execute_write_tool.py`, `integrations/odoo/client.py`) | inside one turn: attempt counter, the HTTP exchange under way; outside: the effects in Odoo | preflight, up to three attempts, finish |
| **Conversation state** (`context/conversation_service.py`, `persistence/repositories/conversation_repository.py`, `api/routers/conversations.py`) | row `conversation`: status, version, `workflow_data`, expiry | `load_or_create`, `load_owned`, `update` and the clearing operations over it, reset, recovery |
| **Turn graph** (`orchestration/graph.py`, `routes.py`, `state.py`) | `ChatGraphState` of one turn, the LangGraph checkpoint | 19 nodes, 9 conditional routes, `process` |
| **Graph nodes** (`orchestration/nodes/*`) | none of their own: they read and write the three rows above | one function each |
| **Profile edit session** (`nodes/resolve_profile_write.py`, `nodes/merge_clarification.py`, `nodes/detect_turn_type.py`, `integrations/odoo/profile_schema.py`) | inside `workflow_data`: session id, form revision, collected changes, option-set contexts, applied click ids, deferred query | show a form, set a field, review, submit, save, save draft, cancel, switch to another query |
| **Leave workflows, slot filling** (`workflows/*`, `nodes/resolve_arguments.py`, `nodes/merge_clarification.py`, `nodes/ask_clarification.py`) | the collected arguments, and in `workflow_data` the open question, its options, the selected request, its snapshot and the changes collected | list requests, load one, ask, answer, make the card |
| **Entities and dates** (`context/subject_resolver.py`, `entity_resolver.py`, `entity_memory.py`, `date_resolver.py`) | the entity memory of the conversation; the last resolution in `workflow_data` | extract a mention, look it up, remember what a list had |
| **Tool execution, authorization** (`tools/executor.py`, `security/authorization.py`) | none | the sequence of checks around an Odoo call |
| **Streaming endpoint** (`api/routers/chat.py`) | one event queue and one producer task per request | emit, heartbeat, cancel at disconnect |
| **LLM client** (`llm/*`), **answers** (`answers/*`) | none | a structured call with retry and repair; an answer streamed chunk by chunk, or the text made without the model |
| **Routing** (`routing/*`), **retrieval index** (`retrieval/*`) | none, apart from the tool embeddings in the database | classify, retrieve, select, validate |

### 1.2 How they interact

There is no lock in the process and no queue between requests. Any number of
turns, of one conversation too, run at once in one or several processes. They
meet only in the database and in Odoo:

* a pending action changes only by a conditional `UPDATE` whose `WHERE` names
  the statuses it may come from. PostgreSQL runs the transactions READ
  COMMITTED, so what a handler has read may be stale when its `UPDATE` runs;
* a conversation changes by "read the row, then update it if its `version` is
  unchanged". The first copy, which the whole turn decides from, is not that
  row: it was read before classification, LLM calls and Odoo calls;
* the conversation points to the action (`workflow_data["pending_action_id"]`),
  and the two rows are written in separate transactions;
* Odoo is called over HTTP with a key it deduplicates by. A call that timed out
  may still take effect.

A client may hang up at any time, which cancels the turn at its next `await`;
the process may die. Nothing is cleaned up afterwards: the rows say what is
known, and a lapsed execution lease lets a later confirmation take over.

### 1.3 What is hard, and what makes each part correct

* **Pending actions**: two confirmations, a confirmation and a cancellation,
  expiry and confirmation, a reclaimed lease and its old holder. Correct: only
  the owner's requests change a row, only in-time confirmations reach an
  executor, an ended action stays as it ended, one executor during the first
  lease.
* **Write execution**: retries after a lost answer, executors that overlap,
  requests that outlive their sender. Correct: Odoo is never asked to do what
  was not confirmed, does it once, and "executed" is never recorded of
  something that was not done; a turn ends whatever Odoo answers.
* **Conversation**: turns that decide from the same copy. Correct: no change is
  overwritten unseen; a card has an action behind it; what a turn reports to
  the employee (done, cancelled) is true.
* **Turn graph**: one cycle, steered by a flag that is never reset, under a
  recursion limit that can be configured as low as 5. Correct: the cycle is
  taken once, a turn creates at most one action and shows its card, a turn that
  returns has stored an answer.
* **Profile edit session**: clicks on forms shown earlier, repeated clicks,
  fields whose options depend on other fields, a draft interrupted by another
  question.
* **Leave workflows**: one answer per turn, clicked or typed, over turns that
  fail, with arguments resolved afresh each time. Correct: the card carries the
  answers given and nothing else, as a change that can be applied, for the
  request that was looked up; what was answered is not asked again.
* **Questions about colleagues**: the same name is looked up in two places of a
  turn, which may disagree or fail, while ids of earlier answers are still
  among the arguments. Correct: what is read is about the subject the messages
  came to.
* **Streaming**: a producer, a queue, a getter that outlives heartbeats, a
  client that goes, a model that stops half way. Correct: one outcome is
  reported and comes last, what was shown is what was stored (both with one
  exception, section 5), the stream ends and leaves nothing running, and the model
  is asked a bounded number of times.

## 2. Modules


| Module | Models | Built on |
|---|---|---|
| `ActionLifecycle` | the abstract promise: an action ends once, is carried out once and only after a confirmation | |
| `PendingActions` | the table and every operation of `PendingActionService` | |
| `WriteExecution` | `execute_write_tool_node` and the calls to Odoo | `EXTENDS PendingActions`; implements `ActionLifecycle` |
| `ChatTurns` | the conversation row, chat turns, reset | its actions are `INSTANCE ActionLifecycle` |
| `GraphFlow` | one turn's way through the graph | |
| `ProfileEdit` | the profile edit session across turns | |
| `ProfileTarget` | what a profile edit is about: sections, fields, resources, rows; adding and deleting rows | |
| `LeaveWorkflow` | the three leave workflows, from the query to the card | |
| `ReadQuery` | whom a question is about, over several turns, and the read | |
| `AnswerStream` | one streamed turn: generator, queue, producer, calls of the model, messages | |
| `MC…` | symmetry sets and constants for TLC | the module of that name |
| `…_proofs` | theorems; those about `PendingActions` are in `WriteExecution_proofs` | the module of that name and `TLAPS` |

`PROJECT.json` names the source lines of every definition.

### 2.1 PendingActions

`row[a]` is the table row, `call[w]` the operation worker `w` is running. An
operation is three steps, because three things can go out of date between them:
the clock is sampled (`Request`), the row is read (`ReadClaim`, `ReadOwned`,
`SelectActive`), and the conditional `UPDATE` runs (`ConfirmRow`, `ReclaimRow`,
`ExpireRow`, `CancelRow`, `DiscardRow`, `FinishRow`). `Matches` is the `WHERE`
clause of `transition`; an `UPDATE` that matches nothing ends the call with the
code's error. What a transaction writes after its first `UPDATE` belongs to the
same step: the row is locked until the commit. `Crash` ends a call anywhere.

### 2.2 WriteExecution

A worker that holds an execution (`call[w].phase = "hold"`) goes through
`Prepare`, `Send`, `Answered`/`Transient`/`Unclear`/`RetriesExhausted`/
`ProfileCallRaises` and `Finish`. `wire[w]` is the HTTP exchange it waits on.
When it gives up, the request becomes an orphan, which Odoo may handle later or
never (`OdooHandlesOrphan`). `effects` counts what Odoo did under each key;
`KeyFor` says which key an attempt carries. The refinement mapping to
`ActionLifecycle` takes the status from the row and "carried out" from
`effects`.

### 2.3 ChatTurns

`turn[t].loaded` is the copy the turn decides from, `turn[t].base` the row read
right before an update. `Load` and `Detect` are `load_conversation_node` and
`detect_turn_type_node`; `Reload` and `Write` are `load_owned` and `update`, and
`VersionMatches` its `WHERE`. The operations on actions are those of
`ActionLifecycle`, one step each, which `PendingActions` and `WriteExecution`
justify; without a clock, whether something is overdue is open each time.

### 2.4 GraphFlow

One action per node, named after it. `state` keeps the fields the routes read.
What a classifier, selector or tool answers is a free choice among its
outcomes. The `After…` operators are the functions of `routes.py`.

### 2.5 ProfileEdit

`conv` is the conversation row with the session inside it, `clicks` what the
employee has clicked so far (each click may be delivered late, repeatedly or
never), `cards` the actions created by submits, `odoo` the record and its
version. A turn is `Message` or `Deliver` (load, turn detection and the merge of
the answer), then `Resolve` (one pass through the update branch of
`resolve_profile_write_node`), possibly `SaveDraft`/`VerifyDraft` or
`InsertCard`, and `Store`. `Form`, `Summary`, `Ask` and `Guard` are what the
helpers of the same purpose put into the row. `Stop` ends a turn at any point.

The record has two selection fields, one of which depends on the other: the
smallest one that has questions in sequence, option lists that go stale, and a
dependent that is cleared. Two fields of the row are left out: the session id and
the applied click ids. Every write that changes them issues a new
form revision, and a click has to name that as well.

`record` in the draft is `profile_current_snapshot`. `_profile_data` empties it
whenever a form, a review or a question is stored, so that the next turn merges
answers against a snapshot without values (`Merging`, `Shown`): an answer counts as
a change then, even one that the record has. Only a card keeps the snapshot, and
the review that a refused card brings back.

### 2.6 ProfileTarget

The other half of the profile edit. `ProfileEdit` looks into one form;
`ProfileTarget` looks at the way to it, and from it to the card. The profile has
one field of its own, one that Odoo derives from the rows of a collection, a
singleton and that collection. `rows` are the rows in Odoo, which somebody else
adds, changes and deletes at any time; `sess` is the row of the conversation, `card` the
open pending action. A turn is one action (`Query`, `Choose`, `Say`, `Edit`,
`Act`): turns follow each other here, and what a turn stores it stores in one
write at its end. `Node` follows the code from top to bottom: `Taken` (what the
collected answers say), `Resolve` or `Locate`, `DirectField` or `InResource`, and
from the record on `Create`, `Update` or `Delete`. What the resolver makes of a
message is a free choice among `Resolutions`, those that `_validate_allowlist`
lets through. A turn that ends in an error stores nothing (`Stops`). The answers
stay in `given`, as in `collected_arguments`; most of what can go wrong comes from
there.

Which values the record has is left open: a turn that reads it finds any of the
changed fields different and the others equal, and the next turn may find others
(`Differing`, `Update`, `DirectField`). So a form without changes, a change taken
back, and a change that comes back because somebody else has changed the record
meanwhile are all there, and one value is enough to stand for what was given.

### 2.7 LeaveWorkflow

`row` is the conversation row: the tool, the collected arguments, and the part
of `workflow_data` that steers the dialog (`data`). `turn` is a turn on its
copy; turns follow each other. A turn is an answer (`merge_clarification_node`;
one action per kind of question, each with its clicked and its typed form) or
`NewQuery`, then `ListActionable` and `LoadDetails` as far as they are needed,
`FillSlots` (the rest of `resolve_arguments_node`), and one of
`SelectionFails`, `AskClarification` and `CreateConfirmation`. `TurnFails` ends
a turn before it stores anything, as each call of Odoo may. `told` is a history
variable: the answers accepted so far (`said`), kept apart from the arguments the
code computes with, and the changes the model extracted from the first query
(`extracted`), which nobody answered.

The data are small sets: dates are numbers, a reason is a model value. A
message is what matters of it: whether it is typed, the colleagues whose name
it has, the remembered request it refers to, and the changes the first query
spelt out (`Natural`).

### 2.8 ReadQuery

A message is given by what the two places that look a name up make of it:
`whole`, the matches when the entire answer is taken for a name
(`merge_clarification_node`), and `mention`, what `extract_subject` finds in it
and the matches of that (`resolve_arguments_node`). Either look-up may fail
(`Lookups`). `TypedAnswer`, `Pick` and `DetailsAnswer` are the answers,
`ResolveArguments` the node of that name, `Reject`, `AskClarification` and
`Execute` what may follow; `Authorized` is the part of `authorize` that looks at
the subject. Employees and departments are both numbered from the same range,
as in Odoo, so that an id put in the wrong place is noticed. `told` records
what the look-ups of the last and of all messages came to, `read` what was read.

### 2.9 AnswerStream

`stream` is the generator `_stream_events`, `queue` the queue, `task` the
producer, `turn` the stage of the turn it runs, `sent` what the client got,
`stored` what the database has. `GetterTakes` is the task of `queue.get()`;
`KeepAlive` a heartbeat, at most one for each wait. `Close` and
`CloseInterrupted` are the two ways in which the generator ends when the client
has gone. `RequestAgain` is a retry or a repair of a structured call. There are
three of these calls: to classify, to find the target of a profile edit, and to
select a tool. A turn makes two of them, except that a turn which takes up a query
held back by a draft (`Resume`) classifies again when its profile write is done
(`AfterProfileWrite`). `Chunk`, `WordingEnds` and `WordingFails` are the streamed
call that words the answer; `Format` and `WordingBreaks` are the ways into
`except (KeyError, TypeError, ValueError)` of `format_response_node`, before and
after `answer_start`. `WriteAgain`, `WriteGivesUp` and `WriteEnds` are the retry loop of a
confirmed write: `StreamEnds` says that it ends whatever Odoo answers. `Raises`
ends the turn anywhere. Status events are left out.

## 3. Model checking

| Run | Instance | Shows |
|---|---|---|
| `Races` | 1 action, 3 workers, 2 users with 2 conversations, TTL 1, lease 1, clock up to 2 | `ConfirmedBeforeExpiry`, `WithdrawnNeverConfirmed`, `FirstLeaseExclusive`, `TerminalIsFinal`, `OnlyOwnerChanges` |
| `TwoActions` | 2 actions (one of the profile workflow), 2 workers | `NothingSentUnconfirmed`, `ExecutedIsApplied`, `AtMostOneEffect`, `ImplementsLifecycle` |
| `Conversation` | 2 actions, 3 requests | `CardBacked`, `NewQueryDisarmsCard`, `CancelAnswerIsTrue`, `CompletedIsExecuted`, `NoLostUpdate` |
| `GraphFlow` | eight recursion limits | `OnlyShortLimitsCut`, `WriteIsReported`, `OneActionPerTurn`, `CardIsShown`, `NoSilentTurn` |
| `Profile` | 1 worker, 3 clicks, 4 writes of the row, 1 change of the record, typed text | `ChildFitsParent`, `DraftLeavesOnPurpose` |
| `LateClicks` | 1 worker, 4 clicks, 5 writes | `CardIsAsReviewed` |
| `ProfileRaces` | 2 workers, 3 clicks, 4 writes | `RevisionNamesOneForm` |
| `TypedValue` | 1 worker, 2 clicks, 4 writes | a counterexample, see 5 |
| `Target` | 2 rows, 2 texts that name rows, 8 outcomes of the resolver | `CardShowsItsChanges`, `CreateIsComplete`, `DraftStaysWithRecord`, `CancelEnds` |
| `Leave` | 3 dates, 2 leave types, 2 reasons, 2 requests, a colleague and a request with the same number | `CardChangesApply`, `CardKeepsAnswers`, `CardIsOfLoadedRequest`, `AnsweredOnce` |
| `Stream` | retries and repairs both 0 or both 1, 3 chunks, fairness | `EndsWithOneOutcome`, `ShownIsStored`, `LlmRequestsBounded`, `StreamEnds` |
| `Reads` | 3 employees, 3 departments, 3 askers, 8 messages | `ReadIsOfTheLastNamed`, `DepartmentWasNamed` |

`Races`, `TwoActions` and `Conversation` also check the type invariants of their
modules, the ones that say something of how the rows and the calls fit
together; those of the other modules are proved. The comment before a property
says what it means and which code it is about.

Bounds, and why they are enough:

* *Races*: a third worker lets the old holder of a lease, its successor and a
  late confirmation meet, or a stranger and two requests of the owner. With
  TTL 1, lease 1 and clock 2 a row can expire, a lease can lapse, and one unit
  is left for what comes after.
* *TwoActions*: everything is per action and per worker; two workers give
  overlapping executors, two actions the difference between the tool and the
  profile path. All durations are 1, so every deadline can pass.
* *Conversation*: three requests suffice for each hazard listed for it: two
  that decide from the same copy and one that changes it between them.
* *GraphFlow*: the limits are those on either side of every length at which
  something changes (a confirmation: 6 nodes, the longest turn: 13), and the
  default 20. The theorems need no such choice.
* *Profile*: the shortest way from a query to a card is form, edit, review,
  submit: four writes and three clicks. A change of the record can come
  anywhere in between. Values are selected from two, so that "changed" and
  "belongs to the other list" exist.
* *LateClicks*: a late submit can do harm only once a second review exists.
  The shortest way there takes four clicks and five writes, starting from a
  question; fewer would make the property hold for the wrong reason. The
  record does not change and every query is about `parent`.
* *ProfileRaces*: any two turns overlap; queries lead to the form and the record
  does not change.
* *Target*: two rows are "the one edited" and "another". One text is the title of
  a row; the other is in the title of one row and the number of the other. The
  resolutions lead to each kind of target, to nothing, and to a choice between
  two fields. The collection has a field answered by a list and one answered by
  text. Each time the record is read, any set of the fields given may differ from
  it. Dialogs of any length are covered.
* *Leave*: with three dates a period can be kept, moved, shortened from either
  end and turned round; a new request may start on two of them. Two values of
  every other field are "as it was" and "changed", two requests "this one" and
  "the other one". There is no bound on the number of turns: the instance is
  finite and is explored whole.
* *Stream*: settings of 0 are those of Ollama, 1 the largest allowed for Groq.
  Of three chunks the first, a middle one and the last can be blank or words,
  and the fallback can come after none, some or all of them, or fail itself.
  The turn is a new query or takes up one that was held back. There is no bound
  on steps.
* *Reads*: two employees and two departments share a name, one employee has
  neither code nor department, one number is of both kinds; every message of
  `MCReadQuery` makes the two look-ups agree, differ, or find nothing. The
  three askers are linked with a department, linked without, and not linked.
  Dialogs of any length are covered.

`CHECK_DEADLOCK FALSE` stands in the runs where all requests may have been
handled, or a bound is reached, and nothing remains to be done. In
`AnswerStream` the end is a step of its own (`Finished`).

Fairness is assumed in `Stream`: weak fairness of `Generator` and of `Producer`.
The event loop resumes a task whose await has completed, the calls of the model
and of Odoo have timeouts, and what is waited before a retry is bounded
(`llm_max_retry_after_seconds`, `wait_exponential(max=1)`). One action for each
suffices because a heartbeat is taken once per wait. Nothing is assumed of the
client, or of what the model, Odoo and the database answer.

Every property has a mutant: a named operator next to the definition it
replaces, with a plausible bug, under which the run fails.

## 4. Proofs

Every type invariant, every safety invariant and every action property that a
run checks is also a theorem, for every value of the constants: any number of
actions, workers, users, turns, clicks, rows, dates, chunks. So is the
refinement `ImplementsLifecycle`. What the runs check on small instances first is
not only the properties: each inductive invariant below also holds in every state
that TLC reaches with the constants of its run (`LeaveIInv`, which TLC evaluates
slowly, with one request in Odoo and fewer answers).

No property is inductive as it stands, for the same reason everywhere: something
was read, and is used later. The inductive invariants say what is still true of it
then.

**`PendingActions`** (in `WriteExecution_proofs`): `TypeCorrect`,
`ConfirmationInTime`, `WithdrawalIsSafe`, `ExpiryIsDue`, `FirstLease`,
`EndIsFinal`, `OwnersOnly`. `CallInv(w)` says what the sampled time, the status
read and the lease tell worker `w` at each phase (the clock has not run
backwards; a row that was read exists; a claim that is about to confirm was
judged in time). `RowInv(a)` relates the timestamps of a row to its status.
`LastWrite` describes the `UPDATE` that ends most operations, so that its effect
is proved once (`LastWriteKeeps`); `Evolution` says how a row may change in any
step, and `EndIsFinal` and `OwnersOnly` follow from it and from
`ConditionalUpdate`.

**`WriteExecution`**: `ExecTypeCorrect`, `OnlyConfirmedIsSent`,
`ExecutedWasApplied`, `OneEffect`, `LifecycleImplemented`. `ExecIInv` is the
invariant of the table, which every step keeps because it is a step of
`PendingActions` (`TableSteps`), with what a worker knows of Odoo (`StageInv`: an
answer "done" means that Odoo did it), what a request that nobody waits for
still guarantees (`OrphanInv`: its action was confirmed, its key is the row's),
and what Odoo did (`EffectInv`). `LifecycleImplemented` is the refinement: under
"status from the row, carried out from the effects" the initial states are
those of `ActionLifecycle`, and every step of the table, of an executor or of
Odoo is one of its steps or a stutter.

**`ChatTurns`**: `ChatTypeCorrect`, `CardsAreBacked`, `NewQueryDisarms`,
`CancelledIsCancelled`, `CompletedWasExecuted`, `UpdatesAreSeen`. `TurnInv(t)`
says of a turn what its copy is still good for: a card it has seen has an
action, an outcome it is about to report stays one, the row it will replace is
the one it read unless the version tells otherwise. Other turns cannot undo
this because actions only move forward (`Forward`) and the version of the
conversation never goes back (`Newer`).

**`GraphFlow`**: `StateIsTyped`, `TurnsAreShort`, `WritesAreReported`,
`ActionsAreSingle`, `CardsAreShown`, `TurnsAnswer`. The graph has a cycle, so the
bound on a turn needs a measure: `Left(node, state)` falls with every node, also
around the cycle, because that edge is open only to a turn that switches to a
deferred query or that has its response already. `IInv` adds what is known of
the state at each node (`Ordered`, `Carded`, `Confirming`).

**`ReadQuery`**: `ReadTypeCorrect`, `ReadOfLastNamed`, `ReadDepartmentNamed`. The
arguments decide what is read, the authorization looks at the subject: two copies
of an id, written in different nodes, and the arguments survive from turn to
turn. `ReadIInv` says that they agree whenever the question can be answered at
all, and where each came from.

**`ProfileEdit`**: `ProfileTypeCorrect`, `RevisionsNameForms`,
`CardsAreAsReviewed`, `ChildrenFitParents`, `DraftsLeaveOnPurpose`. A click is
given on a form that may be stored long after, by a turn that overlaps others,
or never. `ProfileIInv` therefore says of every form, whether stored, held by a
turn or seen by a click, which one its revision names (`ViewsOK`, `Sees`), and of
every draft how the answers, the changes and the record go together: a value
given is a change, unless the record has it (`Settled`), and a dependent value was
selected from the list recorded with it (`PickedOK`). `Stray` names the one draft
from which a turn drops a dependent value that nobody touched: its parent was set
back to what the record has and is the only answer still kept.

**`ProfileTarget`**: `TargetTypeCorrect`, `CardsShowTheirChanges`,
`CreatesAreComplete`, `DraftsStayWithRecords`, `CancellationsEnd`. Answers stay in
`given` and are read again in every turn, so `SessOK` says of each one what it can
still do, for the session that is stored and for the one a card brings back; it
falls into parts for the answers, the options on offer, a target not yet settled,
and one that is. `Ready` says what is known once a turn took its answer; a turn
then comes to one of a few results (`Outcome`), along the code from top to bottom.
Nothing is assumed of the record's values. That a card shows what it changes rests
on the answers: the fields of a review are those of its changes, so a hidden change
comes from an answer that was kept (`Known`), and it is entered again only if it is
the only one (`HidesOne`, `OnlyOne`); a choice of one field is the other way to a
narrow review (`Narrowed`), and a card that came back has no answers (`GivenLost`).

**`LeaveWorkflow`**: `LeaveTypeCorrect`, `CardsAreOfLoadedRequest`, `CardsApply`,
`CardsKeepAnswers`, `AnswersCountOnce`. The arguments are computed afresh in every
turn, from the row, the selection and the message. `LeaveIInv` relates them to
the answers accepted so far at each stage of a turn: the patch is what differs of
them from the snapshot (`Collected`), the changes among the arguments are the
patch or what the model extracted (`Kept`).

**`AnswerStream`**: `StreamTypeCorrect`, `OneOutcome`, `TheShownIsStored`,
`RequestsAreBounded`, for answers of any length. Wherever the events are, with
the client, the getter or the queue, they are consecutive parts of one log, whose
k-th event is known from the turn alone (`EventAt`, `Travelling`). A step of the
turn leaves the log or adds to its end (`TurnStepsLog`), the end of the queue comes
after it, and what the generator adds goes by the task's result (`Answered`).
That the log is what was stored follows from what is known of the turn at its
stages (`TurnInv`, `TaskInv`): an answer that was begun is closed and its text is
the turn's, or it broke off and the turn has the formatter's text. `RequestInv`
counts the requests of the calls that are over and of the one under way, and says
which call of a resumed turn this is.

Assumptions, all in the modules and evaluated by the runs: a value that stands for
"none" is not one of the others; durations are positive; the bounds are numbers
(any numbers); what the directory, a message, a query or a resolver may come to
has its shape (`MessagesAssumption`, `QueriesAssumption`, `PeopleAssumption`,
`ActorsAssumption`, `ResolutionsAssumption`); a text names rows that exist
(`MatchAssumption`, `NumberAssumption`); a leave request in Odoo does not end
before it starts (`OriginalAssumption`); the settings of the model are those
`config.py` admits (`SettingsAssumption`).

Only model-checked: `StreamEnds`, because liveness under fairness is out of this
prover's reach, and the counterexample of section 5. What a text becomes when it
is stripped is proved to be a text of the same chunks (`StripTyped`), not that
it lacks blanks at its ends.

## 5. Where the code and its texts disagree

* `TypedValue`. `resolve_profile_write_node` refuses text typed for a selection
  field, but by data (`current_field`, `clarification_metadata`) that
  `merge_clarification_node` removes in every turn that answers a question. The
  unit test calls the node without the merge. The text becomes a draft change
  and reaches the review and the card.

The other behaviours that surprise are recorded under "hazards" in
`PROJECT.json`, each with its line; where no text of the repository rules one
out there is no property for it, and the note says where the model has it.
Some that are not in that list, with the definition that has them:

* reset cancels the newest active action only, and recovery shows the newest one:
  an older one that two concurrent turns created stays confirmable
  (`ChatTurns`, `SelectNewest`);
* `load_or_create` marks an expired conversation without comparing its version
  (`ExpireConversation`, which `NoLostUpdate` excepts);
* "cancel" while a card is open clears the conversation and leaves the action
  pending (`Detect`);
* an approval request that Odoo created in another state than "wait" is recorded
  as failed (`WriteExecution`, `Answered`);
* two clicks on one form revision handled at the same time are both accepted,
  and the form stored last forgets the other's edit (`ProfileEdit`);
* a submit delivered again after its card is open is taken for a new query and
  cancels the card (`ProfileEdit`, `Deliver`);
* `expected_version` is read again in the turn that saves, so a change made
  elsewhere since the form was shown is overwritten (`ProfileEdit`, `SaveDraft`);
* a typed period of a new leave request that ends before it starts drops the
  whole workflow, while a calendar keeps to the bounds (`LeaveWorkflow`,
  `SelectionFails`); changes that the model extracted from the first query are
  only checked by the schema (`BadChanges`);
* a request that a message refers to becomes `request_id` without its details
  being loaded: a cancellation then makes a card for a request this workflow has
  not looked up (`LeaveWorkflow`, `RequestId`);
* a colleague mentioned in an answer whose name several people have puts the list
  of these people in the place of the options on offer; answers to the question
  for a leave type then raise until the workflow is cancelled (`FillSlots`,
  `LeaveTypeAnswer`);
* a selection of low confidence stays with the workflow: once all slots are filled
  it asks for "details", and no answer makes it go on (`Unclear`);
* text typed to name a row of a profile collection is kept among the collected
  arguments, and the next answer chosen from a list, to any question, passes it
  to `int()`: a row found by a number in its title ("2019") is exchanged for the
  row with that id, if the employee owns one. The comment there says it is "never
  an ORM id" (`ProfileTarget`, `Picked`);
* a section that was typed where one was to be chosen goes before the stored one
  in every later turn: once the target is settled, each answer and each button
  ends in `PROFILE_TARGET_OUTSIDE_ALLOWLIST`, cancel too (`Taken`, `Locate`);
* in a review, the parent field is set back to what the record has: the form
  leaves it out, but the answer stays in `collected_arguments`, alone. As
  `_clarification` has stored an empty snapshot, the next turn, whatever it does,
  takes it for a change and drops the dependent field without a word
  (`ProfileEdit`, `Merging`, `Shown`; the exception in `DraftLeavesOnPurpose`);
* the summary of an update lists the selected fields only, so a change that came
  in by itself, because somebody else changed the record, is sent and not shown; it
  comes back with a card that failed, and the next card does not show it either
  (`ProfileTarget`, the exception in `CardShowsItsChanges`);
* an answer whose wording raises `TypeError` or the like after `answer_start` (the
  text that replaces the model's may do so, `answers/fallback.py:54`) is neither
  closed nor followed by an outcome: the client gets the beginning and "done",
  and the conversation stores the formatter's text, which was never shown
  (`AnswerStream`, `WordingBreaks`; the exceptions in `EndsWithOneOutcome` and
  `ShownIsStored`);
* `resume_deferred_query` is never reset, so a profile edit that was held back is
  classified a second time after it was carried out, and a failure of that call
  replaces its response (`AnswerStream`, `AfterProfileWrite`; `GraphFlow`);
* the two transactions of `create_confirmation_node` may leave an action that no
  conversation points to (`ChatTurns`, `CreateAction`): `CardBacked` is about the
  other half, a card without its action;
* at submit, the only value left in `collected_arguments` becomes a change again,
  even one that the review left out because the record had it then and has it no
  longer: the card shows a change the review did not (`ProfileEdit`; the exception
  in `CardIsAsReviewed`, which the proof needs);
* the guard that follows a question is stored without a form revision, so its
  buttons are never accepted (`displayed` in `ProfileEdit`);
* in a leave change whose first query spelt out changes, and then "several
  fields" is chosen, the card can have the changes the model extracted in place
  of the validated patch (the exception `told.extracted` in `LeaveWorkflow`);
* a deferred query is taken up with `turn_type` still `CLARIFICATION_ANSWER`, so
  its dates are resolved from an empty text and lost (its arguments are in no
  module).

## 6. Not modelled

* Of the profile edit session: withdrawing an approval, attachments, the default
  values of new rows, several sections, fields that a role may not write, and the
  cache of the profile schema. In `ProfileEdit` an answer of type `option_select`
  is one to a question for a value; that it may also answer the action slot of a
  form is in `ProfileTarget`. In `ProfileTarget` turns do not overlap, a new query
  leaves without the guard, and forms have no revisions; `ProfileEdit` has all
  three. The deferred query is in `GraphFlow`, without its arguments.
* Of the conversation: the recovery endpoint, which only reads.
* Of the leave workflows: half days and hours, the balance, concurrent turns
  (they are in `ChatTurns`, without arguments). A selection that asks for
  clarification itself (`requires_clarification`), or names missing or ambiguous
  arguments in the first turn, is in neither `LeaveWorkflow` nor `ReadQuery`: what
  is missing is found there by `resolve_arguments_node`.
* Of reading: the tools that take a period, capabilities, paths and versions of
  tools; what is remembered of a list of requests is in `LeaveWorkflow`.
* The index of tool embeddings: an offline command rebuilds it from the
  catalogue, and the turn uses it only to rank candidates, which are a free
  choice here.
* Classification by rules and regular expressions, the scores of profile
  targets, text analysis, answer texts, start-up: their outcomes are free
  choices, or inputs of the instance, wherever a module depends on them.

## 7. Plan

Done: all modules of section 2, their runs, and the proofs of section 4.

1. `ProfileTarget` and `ProfileEdit` share a row that each models half of. One
   module with both the revisions and the targets is out of TLC's reach, but their
   inductive invariants can be compared: that `SessOK` follows from what
   `ProfileEdit` keeps of the same fields.
2. The steps that `ChatTurns` takes from `ActionLifecycle` as one: that each is
   what the steps of one call of `PendingActions` come to, from `Evolution`.
3. Hazards without a property, at the lines `PROJECT.json` names.
