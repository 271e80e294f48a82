--------------------------- MODULE LeaveWorkflow ---------------------------
(***************************************************************************)
(* The leave workflows: an employee creates, changes or cancels a leave    *)
(* request by answering one question per turn until every slot is filled   *)
(* and a confirmation card is made (orchestration/nodes/                   *)
(* resolve_arguments.py, merge_clarification.py, validate_selection.py,    *)
(* ask_clarification.py and create_confirmation.py over workflows/).       *)
(*                                                                         *)
(* A turn runs through these nodes on a copy of the conversation row and   *)
(* stores it only when it asks the next question.  It may end at any call  *)
(* of Odoo; the row is then what it was.  Turns follow each other here:    *)
(* turns at the same time are the subject of ChatTurns.                    *)
(***************************************************************************)
EXTENDS Integers

CONSTANTS
    MaxDate,            \* bound: dates are 1 .. MaxDate
    Today,              \* the date a new request may start from
    LeaveTypes,         \* the leave types Odoo lists
    Reasons,            \* what an employee writes as a reason
    Requests,           \* the employee's own leave requests in Odoo
    Original,           \* Original[r]: request r as Odoo has it
    People,             \* ids of colleagues a message may mention
    None,               \* Python's None
    Spoken,             \* Spoken[tool]: arguments a first query may carry
    Natural             \* changes a first query may spell out

Tools == {"leave_create_request", "leave_update_request",
          "leave_cancel_request"}

\* Slots of the tools in the order of their priorities.
Slots == [leave_create_request |->
              <<"date_from", "date_to", "leave_type_id", "reason">>,
          leave_update_request |-> <<"request_id", "changes">>,
          leave_cancel_request |-> <<"request_id">>]

DateFields == {"date_from", "date_to"}
ChangeFields == {"date_from", "date_to", "leave_type_id", "reason"}
Values(f) == CASE f \in DateFields -> 1 .. MaxDate
               [] f = "leave_type_id" -> LeaveTypes
               [] f = "reason" -> Reasons

\* The dictionaries over the fields F: a key may be absent.
PartialOver(F) ==
    {d \in UNION {[K -> UNION {Values(f) : f \in F}] : K \in SUBSET F} :
        \A f \in DOMAIN d : d[f] \in Values(f)}
Changes == PartialOver(ChangeFields)
NoChanges == <<>>

\* What the arguments of a tool may be.
Arguments ==
    [leave_create_request |-> Changes,
     leave_update_request |->
        {a \in UNION {[K -> Requests \cup People \cup Changes] :
                            K \in SUBSET {"request_id", "changes"}} :
            /\ "request_id" \in DOMAIN a => a["request_id"] \in Requests \cup People
            /\ "changes" \in DOMAIN a => a["changes"] \in Changes},
     leave_cancel_request |->
        UNION {[K -> Requests \cup People] : K \in SUBSET {"request_id"}}]

ASSUME NoneAssumption ==
    None \notin Tools \cup ChangeFields
                    \cup {"request_id", "changes", "changes_multi"}
ASSUME DatesAssumption == MaxDate \in Nat /\ Today \in 1 .. MaxDate
ASSUME OriginalAssumption ==
    \A r \in Requests :
        /\ DOMAIN Original[r] = ChangeFields
        /\ Original[r] \in Changes
        /\ Original[r]["date_from"] <= Original[r]["date_to"]
ASSUME QueriesAssumption ==
    /\ Natural \subseteq Changes
    /\ DOMAIN Spoken = Tools
    /\ \A tool \in Tools : Spoken[tool] \subseteq Arguments[tool]

VARIABLES
    row,                \* the conversation row
    turn,               \* the turn being handled, on its copy of the row
    card,               \* the confirmation card of the workflow
    told                \* history: what the answers stored so far come to

vars == <<row, turn, card, told>>

-----------------------------------------------------------------------------
(* The data                                                                *)

\* d with d[k] = v, whether or not it had k.
Put(d, k, v) == [x \in DOMAIN d \cup {k} |-> IF x = k THEN v ELSE d[x]]
Only(k, v) == [x \in {k} |-> v]
\* The request with the changes made to it.
With(changes, request) ==
    [f \in DOMAIN changes \cup DOMAIN request |->
        IF f \in DOMAIN changes THEN changes[f] ELSE request[f]]
Without(d, k) == [x \in DOMAIN d \ {k} |-> d[x]]

\* What clarification_options lists.
Offer(kind, ids) == [of |-> kind, ids |-> ids]
NoOffer == Offer("none", {})

\* workflow_data.  field is current_field, ref selected_request_ref, snap the
\* request of original_snapshot, patch validated_patch (empty when there is
\* none), multi multi_edit_mode, natural the changes original_query spells
\* out, min and max the dates the question allows.  low stands for the
\* persisted selection and candidates: too little confidence or too small a
\* margin to go ahead.
NoData == [loaded |-> FALSE, options |-> NoOffer, field |-> None,
           ref |-> None, snap |-> None, patch |-> NoChanges, multi |-> FALSE,
           natural |-> NoChanges, low |-> FALSE, min |-> None, max |-> None]

Row(status, tool, args, data, memory) ==
    [status |-> status, tool |-> tool, args |-> args, data |-> data,
     memory |-> memory]
Cleared(memory) == Row("active", None, <<>>, NoData, memory)

\* said: the answers accepted, where a change typed out takes the place of all
\* before it; extracted: the changes that select_tool made of the first query.
NothingTold == [said |-> NoChanges, extracted |-> None]

\* text: the employee typed the message.  trust is trusted_request_id; asks
\* is a date in the first query that could mean several.  memory is the
\* entity memory of the turn, row.memory the one it was loaded with.  told is
\* the history once the turn has been stored.
Idle == [at |-> "idle", text |-> FALSE, tool |-> None, args |-> <<>>,
         data |-> NoData, memory |-> {}, trust |-> None, asks |-> FALSE,
         told |-> NothingTold]

NoCard == [tool |-> None, args |-> <<>>, snap |-> None]

\* The places of the slots that have no value.
Missing(tool, args) ==
    {i \in DOMAIN Slots[tool] : Slots[tool][i] \notin DOMAIN args}
NextSlot(tool, args) ==
    LET missing == Missing(tool, args)
    IN  IF missing = {} THEN None
        ELSE Slots[tool][CHOOSE i \in missing : \A j \in missing : i <= j]

\* What differs from the request.
Differing(r, changes) ==
    LET kept == {f \in DOMAIN changes : changes[f] # Original[r][f]}
    IN  [f \in kept |-> changes[f]]
InOrder(d) == d["date_from"] <= d["date_to"]

\* Mutant of ValidatedPatch: the period is not checked.
ValidatedPatchNoOrder(r, changes) == Differing(r, changes)

\* validated_patch: the differences, or nothing at all when the period they
\* result in ends before it starts.
ValidatedPatch(r, changes) ==
    LET patch == Differing(r, changes)
    IN  IF InOrder(With(patch, Original[r])) THEN patch ELSE NoChanges

\* The request a message may refer to ("the latest one"), out of those the
\* entity memory has.
Referable(memory) == memory \cup {None}

\* What Odoo tells of a request can be made a snapshot of, and the request may
\* be changed or cancelled.
SnapshotOf(r) == r \in Requests

\* The calendar of the open question has the date.
InCalendar(d) ==
    /\ row.data.min # None => d >= row.data.min
    /\ row.data.max # None => d <= row.data.max

Init ==
    /\ \E M \in SUBSET Requests : row = Cleared(M)
    /\ turn = Idle
    /\ card = NoCard
    /\ told = NothingTold

-----------------------------------------------------------------------------
(* A new query                                                             *)

\* detect_turn_type clears what was going on; classification, retrieval and
\* select_tool pick one of the leave tools and extract arguments.
NewQuery(tool) ==
    /\ turn.at = "idle"
    /\ row' = Cleared(row.memory)
    /\ card' = NoCard
    /\ \E spoken \in Spoken[tool], natural \in Natural, low, asks \in BOOLEAN :
          /\ tool # "leave_update_request" => natural = NoChanges
          /\ asks => DateFields \cap DOMAIN spoken = {}
          /\ turn' = [Idle EXCEPT
                !.at = IF tool = "leave_create_request" THEN "fill" ELSE "list",
                !.text = TRUE, !.tool = tool, !.args = spoken,
                !.memory = row.memory, !.asks = asks,
                !.data = [NoData EXCEPT !.natural = natural, !.low = low],
                !.told = [said |-> IF tool = "leave_create_request"
                                   THEN spoken ELSE NoChanges,
                          extracted |-> IF "changes" \in DOMAIN spoken
                                        THEN spoken["changes"] ELSE None]]
    /\ told' = NothingTold

\* "Hủy", "thôi", ...: the workflow is dropped.
WorkflowCancel ==
    /\ turn.at = "idle"
    /\ row.status = "awaiting"
    /\ row' = Cleared(row.memory)
    /\ UNCHANGED <<turn, card, told>>

-----------------------------------------------------------------------------
(* merge_clarification: an answer to the open question                     *)

Asked == row.data.field
Open(tool) == turn.at = "idle" /\ row.status = "awaiting" /\ row.tool = tool

\* The turn goes on with the merged arguments and workflow data.  A request
\* is trusted if the list on offer has it or if it was selected from a list.
GoOn(text, args, data, tell) ==
    LET known == "request_id" \in DOMAIN args
                     /\ \/ args["request_id"] \in data.options.ids
                        \/ args["request_id"] = data.ref
        trust == IF known /\ row.tool # "leave_create_request"
                 THEN args["request_id"] ELSE None
    IN  /\ turn' = [at |-> IF trust # None /\ data.snap = None
                           THEN "details" ELSE "fill",
                    text |-> text, tool |-> row.tool, args |-> args,
                    data |-> data, memory |-> row.memory, trust |-> trust,
                    asks |-> FALSE, told |-> tell]
        /\ UNCHANGED <<row, card, told>>

\* Mutant of Resolved: the question stays the current one.
ResolvedStillAsked(data) == [data EXCEPT !.options = NoOffer,
                                         !.min = None, !.max = None]

Resolved(data) == [data EXCEPT !.field = None, !.options = NoOffer,
                               !.min = None, !.max = None]

\* Mutant of PatchWith: the changes collected before are left out.
PatchWithOnly(data, f, v) == ValidatedPatch(data.snap, Only(f, v))

\* The changes collected so far together with one more.
PatchWith(data, f, v) == ValidatedPatch(data.snap, Put(data.patch, f, v))

\* An answer nothing can be made of: the question stays.
Unresolved(text) == GoOn(text, row.args, row.data, told)

\* A value for one field, asked for by a question of its own.
ValueAnswer(text, f, v) ==
    \/ /\ Open("leave_create_request")
       /\ GoOn(text, Put(row.args, f, v), Resolved(row.data),
               [told EXCEPT !.said = Put(@, f, v)])
    \/ /\ Open("leave_update_request")
       /\ row.data.snap = None
       /\ GoOn(text, row.args, Resolved(row.data), told)
    \/ /\ Open("leave_update_request")
       /\ row.data.snap # None
       /\ LET patch == PatchWith(row.data, f, v)
              data == [row.data EXCEPT !.patch = patch]
              tell == [told EXCEPT !.said = Put(@, f, v)]
          IN  IF patch = NoChanges
              THEN Unresolved(text)
              ELSE IF row.data.multi
              THEN GoOn(text, row.args,
                        [data EXCEPT !.field = "changes_multi",
                                     !.options = NoOffer], tell)
              ELSE GoOn(text, Put(row.args, "changes", patch),
                        Resolved(data), tell)

\* A date picked in the calendar keeps to the bounds of the question, a
\* typed one does not.
DateAnswer ==
    /\ Asked \in DateFields
    /\ \E text \in BOOLEAN, d \in 1 .. MaxDate :
          /\ text \/ InCalendar(d)
          /\ ValueAnswer(text, Asked, d)

\* EntityOption refuses options that list colleagues: the turn fails.
LeaveTypeAnswer ==
    /\ Asked = "leave_type_id"
    /\ row.data.options.of # "people"
    /\ \E text \in BOOLEAN, v \in LeaveTypes :
          /\ text \/ v \in row.data.options.ids
          /\ ValueAnswer(text, "leave_type_id", v)

ReasonAnswer ==
    /\ Asked = "reason"
    /\ \E v \in Reasons : ValueAnswer(TRUE, "reason", v)

\* A request picked from the list, and one that is typed ("the second one"),
\* which the entity memory resolves.  Only the former is kept as selected.
RequestAnswer ==
    /\ Open("leave_update_request") \/ Open("leave_cancel_request")
    /\ Asked = "request_id"
    /\ \/ \E r \in row.data.options.ids :
             GoOn(FALSE, Put(row.args, "request_id", r),
                  [Resolved(row.data) EXCEPT !.ref = r], told)
       \/ \E r \in row.memory \cap row.data.options.ids :
             GoOn(TRUE, Put(row.args, "request_id", r), Resolved(row.data),
                  told)

\* Picking what to change: one field, or several one after the other.
ChangeFieldChoice ==
    /\ Open("leave_update_request")
    /\ Asked \in {"changes", "changes_multi"}
    /\ \E f \in row.data.options.ids \ {"done"} :
          GoOn(FALSE, row.args,
               [row.data EXCEPT
                    !.options = NoOffer,
                    !.field = IF f = "multiple" THEN "changes_multi" ELSE f,
                    !.multi = (f = "multiple") \/ (Asked = "changes_multi" /\ @)],
               told)

ChangesDone ==
    /\ Open("leave_update_request")
    /\ Asked = "changes_multi"
    /\ "done" \in row.data.options.ids
    /\ row.data.patch # NoChanges
    /\ GoOn(FALSE, Put(row.args, "changes", row.data.patch),
            [Resolved(row.data) EXCEPT !.multi = FALSE], told)

\* A typed answer to "what do you want to change?" that names a field, and
\* perhaps its value: the patch is then that one change.
ChangesText ==
    /\ Open("leave_update_request")
    /\ Asked = "changes"
    /\ \E f \in ChangeFields :
          \/ GoOn(TRUE, row.args,
                  [row.data EXCEPT !.field = f, !.options = NoOffer], told)
          \/ /\ row.data.snap # None
             /\ \E v \in Values(f) :
                  LET patch == ValidatedPatch(row.data.snap, Only(f, v))
                  IN  /\ patch # NoChanges
                      /\ GoOn(TRUE, Put(row.args, "changes", patch),
                              [Resolved(row.data) EXCEPT !.patch = patch],
                              [told EXCEPT !.said = Only(f, v)])

\* Anything typed at "what else?" passes for an answer, and the slot manager
\* drops it.
MultiText ==
    /\ Open("leave_update_request")
    /\ Asked = "changes_multi"
    /\ GoOn(TRUE, row.args, Resolved(row.data), told)

\* A typed answer that is no date, no leave type, no field and no request;
\* and any answer when the question asked for "details".
Unclear ==
    /\ turn.at = "idle"
    /\ row.status = "awaiting"
    /\ Asked \notin {"reason", "changes_multi"}
    /\ ~(Asked = "leave_type_id" /\ row.data.options.of = "people")
    /\ Unresolved(TRUE)

-----------------------------------------------------------------------------
(* resolve_arguments                                                       *)

TurnFails == turn.at # "idle" /\ turn' = Idle /\ UNCHANGED <<row, card, told>>

\* The requests Odoo lets the employee change or cancel; the query may refer
\* to one of them ("the latest one").  An empty list ends the turn.
ListActionable ==
    /\ turn.at = "list"
    /\ \E S \in SUBSET Requests \ {{}} :
       \E referred \in Referable(S) :
             turn' = [turn EXCEPT
                   !.at = IF referred # None THEN "details" ELSE "fill",
                   !.trust = referred, !.memory = S,
                   !.data.loaded = TRUE, !.data.field = "request_id",
                   !.data.options = Offer("requests", S)]
    /\ UNCHANGED <<row, card, told>>

\* The request as it is now.  A failure, or a request that may no longer be
\* changed or cancelled, ends the turn.
LoadDetails ==
    /\ turn.at = "details"
    /\ SnapshotOf(turn.trust)
    /\ turn' = [turn EXCEPT
          !.at = "fill",
          !.data.ref = turn.trust, !.data.snap = turn.trust,
          !.data.options = NoOffer,
          !.data.field = IF turn.tool = "leave_update_request"
                         THEN "changes" ELSE None]
    /\ UNCHANGED <<row, card, told>>

\* The changes the first query spelled out, tried in every turn until there
\* is a patch.  The list of leave types may not come.
WithNatural(data) ==
    LET patch == ValidatedPatch(data.snap, data.natural)
        loses == "leave_type_id" \in DOMAIN data.natural
        less  == ValidatedPatch(data.snap,
                                Without(data.natural, "leave_type_id"))
        Having(p) == IF p = NoChanges THEN data
                     ELSE [data EXCEPT !.patch = p, !.field = None]
    IN  {Having(patch)} \cup (IF loses THEN {Having(less)} ELSE {})

\* Mutant of RequestId: what the message refers to comes first.
RequestIdReferred(referred) == IF referred # None THEN referred ELSE turn.trust

\* request_id only as trusted, or else as remembered.
RequestId(referred) == IF turn.trust # None THEN turn.trust ELSE referred

\* Both resolvers run on the message: a typed one may mention a colleague
\* whose name several people have, and may refer to a remembered request.
FillSlots ==
    /\ turn.at = "fill"
    /\ \E data \in IF turn.data.snap # None /\ turn.data.patch = NoChanges
                      /\ turn.tool = "leave_update_request"
                   THEN WithNatural(turn.data) ELSE {turn.data},
          mentioned \in IF turn.text THEN {{}, People} ELSE {{}},
          referred \in Referable(IF turn.text THEN row.memory ELSE {}) :
          LET request == IF turn.tool = "leave_create_request" THEN None
                         ELSE RequestId(referred)
              base == Without(turn.args, "request_id")
              named == IF request = None THEN base
                       ELSE Put(base, "request_id", request)
              args == IF data.patch # NoChanges /\ ~data.multi
                      THEN Put(named, "changes", data.patch) ELSE named
          IN  turn' = [turn EXCEPT
                    !.at = "validate", !.args = args,
                    !.data = IF mentioned = {} THEN data
                             ELSE [data EXCEPT
                                      !.options = Offer("people", mentioned)],
                    !.told.said = IF turn.data.patch = data.patch THEN @
                                  ELSE data.patch]
    /\ UNCHANGED <<row, card, told>>

-----------------------------------------------------------------------------
(* validate_selection, ask_clarification and create_confirmation           *)

\* SlotManager.validate, and the schema of the tool's arguments.
BadPeriod ==
    /\ turn.tool = "leave_create_request"
    /\ DateFields \subseteq DOMAIN turn.args
    /\ ~InOrder(turn.args)
BadChanges ==
    /\ turn.tool = "leave_update_request"
    /\ DateFields \subseteq DOMAIN turn.args["changes"]
    /\ ~InOrder(turn.args["changes"])

Incomplete == Missing(turn.tool, turn.args) # {} \/ turn.asks \/ turn.data.low

SelectionFails ==
    /\ turn.at = "validate"
    /\ BadPeriod \/ (~Incomplete /\ BadChanges)
    /\ row' = Cleared(row.memory)
    /\ turn' = Idle
    /\ UNCHANGED <<card, told>>

ChangeOptions(field, patch) ==
    ChangeFields \cup (IF field = "changes" THEN {"multiple"}
                       ELSE IF patch # NoChanges THEN {"done"} ELSE {})

\* The bounds of a calendar.
Bounds(field, data, args) ==
    LET now == IF data.snap = None THEN data.patch
               ELSE With(data.patch, Original[data.snap])
        At(d, f) == IF f \in DOMAIN d THEN d[f] ELSE None
        create == turn.tool = "leave_create_request"
    IN  [min |-> CASE field = "date_to" /\ create -> At(args, "date_from")
                   [] field = "date_to" /\ ~create -> At(now, "date_from")
                   [] field = "date_from" /\ create -> Today
                   [] OTHER -> None,
         max |-> IF field = "date_from" /\ ~create
                 THEN At(now, "date_to") ELSE None]

AskClarification ==
    /\ turn.at = "validate"
    /\ ~BadPeriod /\ Incomplete
    /\ LET d == turn.data
           field == IF d.field # None THEN d.field
                    ELSE NextSlot(turn.tool, turn.args)
           b == Bounds(field, d, turn.args)
       IN  \E types \in {{}, LeaveTypes} :
              LET options ==
                      IF field \in {"changes", "changes_multi"}
                      THEN Offer("fields", ChangeOptions(field, d.patch))
                      ELSE IF field = "leave_type_id" /\ d.options.ids = {}
                      THEN Offer("types", types)
                      ELSE d.options
              IN  row' = Row("awaiting", turn.tool, turn.args,
                             [d EXCEPT !.field = field, !.options = options,
                                       !.min = b.min, !.max = b.max],
                             turn.memory)
    /\ told' = turn.told
    /\ turn' = Idle
    /\ UNCHANGED card

CreateConfirmation ==
    /\ turn.at = "validate"
    /\ ~BadPeriod /\ ~Incomplete /\ ~BadChanges
    /\ card' = [tool |-> turn.tool, args |-> turn.args,
                snap |-> turn.data.snap]
    /\ row' = [Cleared(row.memory) EXCEPT !.status = "confirm"]
    /\ told' = turn.told
    /\ turn' = Idle

-----------------------------------------------------------------------------

Answer ==
    \/ DateAnswer \/ LeaveTypeAnswer \/ ReasonAnswer \/ RequestAnswer
    \/ ChangeFieldChoice \/ ChangesDone \/ ChangesText \/ MultiText
    \/ Unclear

Next ==
    \/ \E tool \in Tools : NewQuery(tool)
    \/ WorkflowCancel
    \/ Answer
    \/ ListActionable \/ LoadDetails \/ FillSlots
    \/ SelectionFails \/ AskClarification \/ CreateConfirmation
    \/ TurnFails

Spec == Init /\ [][Next]_vars

-----------------------------------------------------------------------------
(* Properties                                                              *)

Options == [of : {"none", "requests", "fields", "types", "people"},
            ids : SUBSET (Requests \cup People \cup LeaveTypes
                            \cup ChangeFields \cup {"multiple", "done"})]
Dates == 1 .. MaxDate \cup {None}
Data == [loaded : BOOLEAN, options : Options,
         field : ChangeFields \cup
                    {"request_id", "changes", "changes_multi", None},
         ref : Requests \cup People \cup {None},
         snap : Requests \cup {None}, patch : Changes, multi : BOOLEAN,
         natural : Natural \cup {NoChanges}, low : BOOLEAN,
         min : Dates, max : Dates]
Told == [said : Changes, extracted : Changes \cup {None}]

\* Every variable keeps its shape (ChatGraphState, ConversationState), and
\* the arguments are those of the tool (SlotManager.validate).
LeaveTypeOK ==
    /\ row \in [status : {"active", "awaiting", "confirm"},
                tool : Tools \cup {None}, args : UNION {Arguments[t] : t \in Tools},
                data : Data, memory : SUBSET Requests]
    /\ row.tool # None => row.args \in Arguments[row.tool]
    /\ turn \in [at : {"idle", "list", "details", "fill", "validate"},
                 text : BOOLEAN, tool : Tools \cup {None},
                 args : UNION {Arguments[t] : t \in Tools}, data : Data,
                 memory : SUBSET Requests,
                 trust : Requests \cup People \cup {None},
                 asks : BOOLEAN, told : Told]
    /\ turn.tool # None => turn.args \in Arguments[turn.tool]
    /\ card \in [tool : Tools \cup {None},
                 args : UNION {Arguments[t] : t \in Tools},
                 snap : Requests \cup {None}]
    /\ card.tool # None => card.args \in Arguments[card.tool]
    /\ told \in Told

\* A change of a leave request that reaches a card is a change: each value
\* differs from the one the request has, and the period that results does not
\* end before it starts, although the values came one at a time and in any
\* order (validated_patch, merge_clarification_node).  The exception is what
\* the model extracted from the first query, which only the schema checks.
CardChangesApply ==
    card.tool = "leave_update_request"
        /\ card.args["changes"] # told.extracted
        => LET changes == card.args["changes"]
               r == card.args["request_id"]
           IN  /\ changes # NoChanges
               /\ \A f \in DOMAIN changes : changes[f] # Original[r][f]
               /\ InOrder(With(changes, Original[r]))

\* A card carries the answers the employee gave, each the last one accepted
\* for its field, however many questions and failed turns lay between
\* (merge_clarification_node, resolve_arguments_node).  The exception is the
\* same.
CardKeepsAnswers ==
    /\ card.tool = "leave_create_request" => card.args = told.said
    /\ card.tool = "leave_update_request"
            /\ card.args["changes"] # told.extracted
        => card.args["changes"] = Differing(card.snap, told.said)

\* Once the details of a request were loaded, the card is about that request,
\* whatever later messages refer to (resolve_arguments_node trusts only it).
CardIsOfLoadedRequest ==
    card.snap # None => card.args["request_id"] = card.snap

\* What was answered is not asked again: an accepted answer for a slot of a
\* new request, or the choice of a request whose details were loaded
\* (resolve_arguments_node starts over from the stored arguments every turn).
AnsweredOnce ==
    row.status = "awaiting"
        => /\ row.tool = "leave_create_request" => Asked \notin DOMAIN told.said
           /\ Asked = "request_id" => row.data.snap = None
=============================================================================
