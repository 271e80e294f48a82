---------------------------- MODULE ProfileEdit ----------------------------
(***************************************************************************)
(* The profile edit session: a conversation in which an employee changes   *)
(* several fields of one record before sending them off                    *)
(* (orchestration/nodes/resolve_profile_write.py, with the parts of        *)
(* detect_turn_type.py, merge_clarification.py and execute_write_tool.py   *)
(* that serve it).                                                         *)
(*                                                                         *)
(* The session lives in the conversation row.  Its forms carry a revision; *)
(* a click names the revision of the form it was made on, and may arrive   *)
(* late, twice, or while another turn runs.  A turn decides from the copy  *)
(* of the row it loaded, reads the record from Odoo, and stores the row    *)
(* again at its end.                                                       *)
(*                                                                         *)
(* The record is a singleton with two selection fields.  The list of child *)
(* depends on the value of parent, and child is cleared when parent        *)
(* changes (depends_on, clear_when_dependency_changes).  The values of     *)
(* child are named after the value of parent whose list has them.          *)
(***************************************************************************)
EXTENDS Integers, Sequences

CONSTANTS
    Values,             \* what can be selected
    Typed,              \* what an employee may type instead of selecting
    Queries,            \* the sets of fields a query may be about
    Nothing,            \* no value, and Python's None
    Workers,            \* turns running at the same time
    MaxClicks,          \* bound: clicks on forms
    MaxVersion,         \* bound: writes of the conversation
    MaxOdooVersion      \* bound: changes of the record in Odoo

ASSUME NothingAssumption == Nothing \notin Values \cup Typed
ASSUME UnsetAssumption == "unset" \notin Values \cup Typed \cup {Nothing}
ASSUME TypedAssumption == Typed \cap Values = {}
ASSUME BoundsAssumption ==
    MaxClicks \in Nat /\ MaxVersion \in Nat /\ MaxOdooVersion \in Nat

VARIABLES
    conv,               \* the conversation row
    clicks,             \* the clicks made so far: any may arrive, repeatedly
    cards,              \* the pending actions, in the order of creation
    odoo,               \* the record in Odoo and its version
    turn                \* turn[w]: what worker w is doing

vars == <<conv, clicks, cards, odoo, turn>>

-----------------------------------------------------------------------------
(* The data                                                                *)

Fields == {"parent", "child"}

ASSUME QueriesAssumption == Queries \subseteq SUBSET Fields

Order == <<"parent", "child">>      \* the order of resource.fields

\* A dictionary over the fields; a key that is absent maps to Nothing.
Dict == [Fields -> Values \cup Typed \cup {Nothing}]

Empty == [f \in Fields |-> Nothing]

Keys(dict) == {f \in Fields : dict[f] # Nothing}

EditActions == {"finish", "save_draft", "submit", "continue", "cancel",
                "switch_save_draft", "switch_discard"}

Terminal == {"finish", "save_draft", "submit"}

\* workflow_data and collected_arguments.  current is current_field;
\* offers is clarification_options; displayed, shown and context are of
\* clarification_metadata: whether it has the revision that a click has to
\* name, the fields of the form and the value of parent the form goes by;
\* keys is profile_field_keys; record is what profile_current_snapshot has
\* for parent, which _profile_data empties whenever a form or a question is
\* stored: only a card has it, and the review that a refused card brings back;
\* picked and set are of profile_option_sets: the value of child that was
\* selected in a form and what its list depended on, "unset" when there is
\* none.
\*
\* profile_edit_session_id and profile_applied_action_ids are left out: every
\* write that changes them issues a new form revision, which a click has to
\* name as well.
Draft == [status    : {"none", "EDITING", "REVIEWING", "OVERRIDE_GUARD"},
          revision  : 0 .. MaxVersion,
          current   : Fields \cup {"none", "profile_edit_action"},
          offers    : SUBSET EditActions,
          displayed : BOOLEAN,
          shown     : SUBSET Fields,
          context   : Values \cup Typed \cup {Nothing},
          keys      : SUBSET Fields,
          changes   : Dict,
          record    : Values \cup Typed \cup {Nothing},
          collected : Dict,
          picked    : Values \cup {Nothing},
          set       : Values \cup Typed \cup {Nothing, "unset"}]

NoDraft == [status |-> "none", revision |-> 0, current |-> "none",
            offers |-> {}, displayed |-> FALSE, shown |-> {},
            context |-> Nothing, keys |-> {}, changes |-> Empty,
            record |-> Nothing, collected |-> Empty, picked |-> Nothing,
            set |-> "unset"]

\* Every status that awaits nothing is "closed".
ConversationStatuses ==
    {"closed", "awaiting_clarification", "awaiting_confirmation"}

\* form is what the employee saw when clicking: the draft values on display.
Clicks == [kind : {"edit"}, field : Fields, value : Values,
           revision : 1 .. MaxVersion, form : Dict, reviewing : BOOLEAN]
             \cup
          [kind : {"action"}, action : EditActions,
           revision : 1 .. MaxVersion, form : Dict, reviewing : BOOLEAN]

\* What a client can send besides a click on a form.
Messages ==
    [kind : {"query"}, keys : Queries]
        \cup [kind : {"other", "stop"}]
        \cup [kind : {"text"}, value : Typed]
        \cup [kind : {"option"}, field : Fields, value : Values]

Cards == [click   : 1 .. MaxClicks,
          status  : {"pending", "cancelled", "ended"},
          changes : Dict,
          parent  : Values \cup Typed \cup {Nothing},
          draft   : Draft]

Plans == [status : ConversationStatuses, draft : Draft, card : Nat,
          form : BOOLEAN, then : {"end", "resolve"}]

\* draft is the turn's own copy; version the row's when it was loaded; act
\* the edit action and answered the field the request carries; click its
\* number; snapshot the record as it was read.
Turn == [at       : {"idle", "drop", "resolve", "save", "verify", "insert",
                     "store"},
         kind     : {"none", "query", "other", "stop", "text", "option",
                     "edit", "action", "confirm"},
         version  : Nat,
         draft    : Draft,
         card     : Nat,
         act      : EditActions \cup {"none"},
         answered : Fields \cup {"none"},
         click    : 0 .. MaxClicks,
         snapshot : Dict,
         expected : Nat,
         plan     : Plans]

NoPlan == [status |-> "closed", draft |-> NoDraft, card |-> 0,
           form |-> FALSE, then |-> "end"]

Idle == [at |-> "idle", kind |-> "none", version |-> 0, draft |-> NoDraft,
         card |-> 0, act |-> "none", answered |-> "none", click |-> 0,
         snapshot |-> Empty, expected |-> 0, plan |-> NoPlan]

TypeOK ==
    /\ conv.status \in ConversationStatuses
    /\ conv.version \in 0 .. MaxVersion
    /\ conv.draft \in Draft
    /\ conv.draft.revision <= conv.version
    /\ conv.status # "awaiting_clarification" => conv.draft = NoDraft
    /\ conv.card \in 0 .. Len(cards)
    /\ conv.card > 0 <=> conv.status = "awaiting_confirmation"
    /\ clicks \in Seq(Clicks)
    /\ cards \in Seq(Cards)
    /\ odoo.snapshot \in Dict /\ odoo.version \in Nat
    /\ turn \in [Workers -> Turn]

Init ==
    /\ conv = [status |-> "closed", version |-> 0, draft |-> NoDraft,
               card |-> 0]
    /\ clicks = <<>>
    /\ cards = <<>>
    /\ odoo = [snapshot |-> Empty, version |-> 0]
    /\ turn = [w \in Workers |-> Idle]

-----------------------------------------------------------------------------
(* Helpers                                                                 *)

At(w, place) == turn[w].at = place

End(w) == turn' = [turn EXCEPT ![w] = Idle]

\* Raises, or answers with an error: nothing is stored.
Stops(w) == End(w) /\ UNCHANGED <<conv, clicks, cards, odoo>>

\* The value of parent a form or a list goes by: the draft's, or the record's.
Effective(changes, snapshot) ==
    IF changes["parent"] # Nothing THEN changes["parent"]
                                   ELSE snapshot["parent"]

\* What Odoo lists for child; everything when it is not told the parent.
ListFor(context) == {v \in Values : context \in {v, Nothing}}

OptionsOf(field, context) == IF field = "child" THEN ListFor(context) ELSE Values

\* The changes that differ from the record.
Differing(changes, snapshot) ==
    [f \in Fields |-> IF changes[f] = snapshot[f] THEN Nothing ELSE changes[f]]

Contains(snapshot, changes) ==
    \A f \in Keys(changes) : snapshot[f] = changes[f]

Plan(status, draft, card, then) ==
    [status |-> status, draft |-> draft, card |-> card, form |-> FALSE,
     then |-> then]

Clear(then) == Plan("closed", NoDraft, 0, then)

\* What _profile_draft_form puts into the row.
Shown(draft, changes, snapshot, offers) ==
    [draft EXCEPT !.status = "EDITING",
                  !.current = "profile_edit_action",
                  !.offers = offers,
                  !.displayed = TRUE,
                  !.shown = Fields,
                  !.context = Effective(changes, snapshot),
                  !.keys = {},
                  !.changes = changes,
                  !.record = Nothing]

\* Mutation of Form: the revision is kept once there is one, as the session
\* id is.
FormOnce(draft, changes, snapshot, offers) ==
    [Plan("awaiting_clarification", Shown(draft, changes, snapshot, offers),
          0, "end")
        EXCEPT !.form = draft.revision = 0]

\* _profile_draft_form.
Form(draft, changes, snapshot, offers) ==
    [Plan("awaiting_clarification", Shown(draft, changes, snapshot, offers),
          0, "end")
        EXCEPT !.form = TRUE]

\* The part of _profile_edit_summary and of the review in display_summary
\* that later turns read.
Review(draft, changes, keys) ==
    [draft EXCEPT !.status = "REVIEWING",
                  !.current = "profile_edit_action",
                  !.offers = {"save_draft", "submit", "continue", "cancel"},
                  !.displayed = TRUE,
                  !.shown = keys \cap Keys(changes),
                  !.context = IF "parent" \in keys
                              THEN changes["parent"] ELSE Nothing,
                  !.changes = changes]

\* _profile_edit_summary.
Summary(draft, changes, keys) ==
    LET reviewed == [Review(draft, changes, keys)
                        EXCEPT !.keys = keys \cap Keys(changes),
                               !.record = Nothing]
    IN  [Plan("awaiting_clarification", reviewed, 0, "end")
            EXCEPT !.form = TRUE]

\* _clarify_value: neither the revision nor the status is touched.
Ask(draft, changes, keys, field) ==
    Plan("awaiting_clarification",
         [draft EXCEPT !.current = field, !.offers = {},
                       !.displayed = FALSE, !.shown = {},
                       !.context = Nothing, !.keys = keys,
                       !.changes = changes, !.record = Nothing],
         0, "end")

\* The draft is put aside for a query; collected_arguments is not passed on,
\* clarification_metadata stays.
Guard(draft) ==
    Plan("awaiting_clarification",
         [draft EXCEPT !.status = "OVERRIDE_GUARD",
                       !.current = "profile_edit_action",
                       !.offers = {"continue", "switch_save_draft",
                                   "switch_discard"},
                       !.collected = Empty],
         0, "end")

-----------------------------------------------------------------------------
(* The employee clicks on the form on display                              *)

Click ==
    LET seen == [revision  |-> conv.draft.revision,
                 form      |-> conv.draft.changes,
                 reviewing |-> conv.draft.status = "REVIEWING"]
        made(c) == clicks' = Append(clicks, c)
    IN  /\ conv.status = "awaiting_clarification"
        /\ conv.draft.displayed
        /\ Len(clicks) < MaxClicks
        /\ \/ \E f \in conv.draft.shown :
                 \E v \in OptionsOf(f, conv.draft.context) :
                    made([kind |-> "edit", field |-> f, value |-> v,
                          revision |-> seen.revision, form |-> seen.form,
                          reviewing |-> seen.reviewing])
           \/ \E a \in conv.draft.offers :
                 made([kind |-> "action", action |-> a,
                       revision |-> seen.revision, form |-> seen.form,
                       reviewing |-> seen.reviewing])
        /\ UNCHANGED <<conv, cards, odoo, turn>>

-----------------------------------------------------------------------------
(* load_conversation_node, detect_turn_type_node, merge_clarification_node *)

Answering == conv.status = "awaiting_clarification"

\* The turn of request r, with its copy of the conversation.
Loaded(r, click) ==
    [Idle EXCEPT !.kind = r.kind, !.version = conv.version,
                 !.draft = conv.draft, !.card = conv.card, !.click = click]

Begin(w, t) ==
    /\ turn' = [turn EXCEPT ![w] = t]
    /\ UNCHANGED <<conv, clicks, cards, odoo>>

\* From here on the turn needs its copy only to go on resolving.
Storing(t, plan) ==
    [t EXCEPT !.at = "store", !.plan = plan, !.card = 0, !.click = 0,
              !.draft = IF plan.then = "resolve" THEN @ ELSE NoDraft]

\* A new query: with the fields it is about if it edits the profile again.
Fresh(r) ==
    IF r.kind = "query" THEN [NoDraft EXCEPT !.keys = r.keys] ELSE NoDraft

After(r) == IF r.kind = "query" THEN "resolve" ELSE "end"

\* Mutation of Guarded: an unsaved draft does not hold a query back.
NeverGuarded(r) == FALSE

Guarded(r) ==
    /\ Answering
    /\ r.kind \in {"query", "other"}
    /\ Keys(conv.draft.changes) # {}

\* The draft of the turn is the fresh one from here on.
NewQuery(w, r, click) ==
    LET t == [Loaded(r, click) EXCEPT !.draft = Fresh(r)]
    IN  \/ Guarded(r) /\ Begin(w, Storing(t, Guard(conv.draft)))
        \/ /\ Answering /\ ~Guarded(r)
           /\ Begin(w, Storing(t, Clear(After(r))))
        \/ /\ conv.status = "awaiting_confirmation"
           /\ Begin(w, [t EXCEPT !.at = "drop", !.plan = Clear(After(r))])
        \/ /\ conv.status = "closed"
           /\ r.kind = "query"
           /\ Begin(w, [t EXCEPT !.at = "resolve"])

\* The values given so far, and no question pending.
Merged(draft, field, value) ==
    [draft EXCEPT !.collected[field] = value, !.current = "none",
                  !.offers = {}]

\* The option set goes with a value that was selected in a form.
Picked(draft, field, value) ==
    IF field = "child"
    THEN [draft EXCEPT !.picked = value, !.set = draft.context]
    ELSE draft

\* A message sent from the keyboard, or a choice from a list of values.
Message(w) ==
    \E r \in Messages :
        LET t == Loaded(r, 0)
            d == conv.draft
        IN  /\ At(w, "idle")
            /\ \/ /\ r.kind \in {"query", "other"}
                  /\ NewQuery(w, r, 0)
               \/ /\ r.kind = "stop"
                  /\ conv.status # "closed"
                  /\ Begin(w, Storing(t, Clear("end")))
               \/ /\ r.kind \in {"text", "option"}
                  /\ conv.status = "awaiting_confirmation"
                  /\ NewQuery(w, r, 0)
               \/ /\ r.kind = "text"
                  /\ Answering
                  /\ Begin(w, [t EXCEPT !.at = "resolve",
                        !.draft = IF d.current \in Fields
                                  THEN Merged(d, d.current, r.value)
                                  ELSE [d EXCEPT !.current = "none"]])
               \/ /\ r.kind = "option"
                  /\ Answering
                  /\ r.field = d.current
                  /\ r.value \in OptionsOf(r.field, d.changes["parent"])
                  /\ Begin(w, [t EXCEPT !.at = "resolve",
                                        !.answered = r.field,
                                        !.draft = Merged(d, r.field, r.value)])

\* Mutation of CurrentForm: the revision is not compared.
AnyForm(c) == TRUE

\* The form the click was made on is the one in the copy.
CurrentForm(c) == c.revision = conv.draft.revision

\* Any click may arrive, at any time and any number of times.  One that
\* awaits no answer is a new query.  The list of child is fetched again; the
\* value may have left it.
Deliver(w) ==
    \E i \in 1 .. Len(clicks) :
        LET c == clicks[i]
            d == conv.draft
            t == Loaded(c, i)
        IN  /\ At(w, "idle")
            /\ \/ ~Answering /\ NewQuery(w, c, i)
               \/ /\ Answering
                  /\ CurrentForm(c)
                  /\ c.kind = "action"
                  /\ c.action \in d.offers
                  /\ Begin(w, [t EXCEPT !.at = "resolve", !.act = c.action,
                                        !.draft.current = "none",
                                        !.draft.offers = {}])
               \/ /\ Answering
                  /\ CurrentForm(c)
                  /\ c.kind = "edit"
                  /\ c.field \in d.shown
                  /\ c.value \in OptionsOf(c.field, d.context)
                  /\ Begin(w, [t EXCEPT
                        !.at = "resolve",
                        !.answered = c.field,
                        !.draft = Picked(Merged(d, c.field, c.value),
                                         c.field, c.value)])

-----------------------------------------------------------------------------
(* resolve_profile_write_node                                              *)

\* The values collected for profile_field_keys go into the changes first.
WithCollected(d) ==
    [f \in Fields |-> IF f \in d.keys /\ d.collected[f] # Nothing
                      THEN d.collected[f] ELSE d.changes[f]]

\* applied_field_key: the field that was answered, or else the only one with
\* a collected value.
Applied(t) ==
    LET given == Keys(t.draft.collected)
    IN  IF t.answered # "none" THEN {t.answered}
                               ELSE {f \in given : given = {f}}

\* Its value goes into the changes; child is cleared when this changes
\* parent, from what the draft or else the stored snapshot has for it, which
\* is mostly nothing: an answer that the record has already clears child as
\* well.  After a review parent is among the keys, its new value is there
\* already, and child stays.
Merging(t) ==
    LET d == t.draft
        before == WithCollected(d)
        applied == Applied(t)
        after == [f \in Fields |-> IF f \in applied /\ d.collected[f] # Nothing
                                   THEN d.collected[f] ELSE before[f]]
        previous == IF before["parent"] # Nothing THEN before["parent"]
                                                  ELSE d.record
    IN  IF after["parent"] \notin {before["parent"], previous}
        THEN [d EXCEPT !.changes = [after EXCEPT !["child"] = Nothing],
                       !.picked = Nothing,
                       !.set = "unset"]
        ELSE [d EXCEPT !.changes = after]

\* Mutation of ListsCurrent: the recorded option set is not looked at again.
ListsUnchecked(d, fields, changes, snapshot) == TRUE

\* The part of _validate_current_option_sets that does not depend on Odoo.
ListsCurrent(d, fields, changes, snapshot) ==
    d.set # "unset" /\ "child" \in fields \cap Keys(changes)
        => d.set = Effective(changes, snapshot)

\* _cancel_edit_session, _resume_deferred_profile_query.  The payload of
\* switch_save_draft names both the section and the resource, which
\* save_draft refuses before it calls Odoo: the draft is kept.  The deferred
\* query goes on as any new query does.
Leave(w) ==
    /\ At(w, "resolve")
    /\ turn[w].act \in {"cancel", "switch_discard"}
    /\ turn' = [turn EXCEPT ![w] = Storing(@, Clear("end"))]
    /\ UNCHANGED <<conv, clicks, cards, odoo>>

\* The branch for Operation.UPDATE, from the merge of the answer to the next
\* form, question, card or draft.
Resolve(w) ==
    LET t == turn[w]
        snapshot == odoo.snapshot
        d == Merging(t)
        keys == IF t.act = "continue" THEN {} ELSE d.keys
        missing == {i \in 1 .. Len(Order) : /\ Order[i] \in keys
                                            /\ d.changes[Order[i]] = Nothing}
        changes == Differing(d.changes, snapshot)
        terminal == t.act \in Terminal
        fields == IF keys = {} THEN Fields ELSE keys
        Stores(plan) ==
            turn' = [turn EXCEPT ![w] = [Storing(t, plan)
                                            EXCEPT !.snapshot = snapshot]]
        Goes(place, draft) ==
            turn' = [turn EXCEPT ![w].at = place,
                                 ![w].draft = draft,
                                 ![w].snapshot = snapshot,
                                 ![w].expected = odoo.version]
    IN  /\ At(w, "resolve")
        /\ t.act \notin {"cancel", "switch_discard", "switch_save_draft"}
        /\ \/ /\ keys = {} /\ ~terminal
              /\ Stores(Form(d, d.changes, snapshot, {"finish", "cancel"}))
           \/ /\ missing # {}
              /\ \E i \in missing :
                    /\ \A j \in missing : i <= j
                    /\ Stores(Ask(d, d.changes, keys, Order[i]))
           \/ /\ missing = {} /\ (keys # {} \/ terminal)
              /\ \/ /\ Keys(changes) = {}
                    /\ Stores(Form(d, Empty, snapshot, {"continue", "cancel"}))
                 \/ /\ Keys(changes) # {}
                    \* Not a terminal action, or a list that has changed.
                    /\ Stores(Form(d, changes, snapshot, {"finish", "cancel"}))
                 \/ /\ Keys(changes) # {}
                    /\ terminal
                    /\ ListsCurrent(d, fields, changes, snapshot)
                    /\ LET ready == [d EXCEPT !.keys = keys,
                                              !.changes = changes,
                                              !.record = snapshot["parent"]]
                       IN  \/ /\ t.act = "finish"
                              /\ Stores(Summary(ready, changes, fields))
                           \/ t.act = "submit" /\ Goes("insert", ready)
                           \/ t.act = "save_draft" /\ Goes("save", ready)
        /\ UNCHANGED <<conv, clicks, cards, odoo>>

\* _save_profile_draft.  Odoo compares the version; a value it refuses brings
\* the form back, any other failure is an error (see Stop).
SaveDraft(w) ==
    LET t == turn[w]
        changes == t.draft.changes
    IN  /\ At(w, "save")
        /\ \/ /\ odoo.version = t.expected
              /\ odoo.version < MaxOdooVersion
              /\ odoo' = [snapshot |-> [f \in Fields |->
                                          IF changes[f] # Nothing
                                          THEN changes[f]
                                          ELSE odoo.snapshot[f]],
                          version  |-> odoo.version + 1]
              /\ turn' = [turn EXCEPT ![w].at = "verify"]
           \/ /\ turn' = [turn EXCEPT ![w] =
                    Storing(t, Form(t.draft, changes, t.snapshot,
                                    {"finish", "cancel"}))]
              /\ UNCHANGED odoo
        /\ UNCHANGED <<conv, clicks, cards>>

\* _verify_saved_draft.
VerifyDraft(w) ==
    /\ At(w, "verify")
    /\ Contains(odoo.snapshot, turn[w].draft.changes)
    /\ turn' = [turn EXCEPT ![w] = Storing(@, Clear("end"))]
    /\ UNCHANGED <<conv, clicks, cards, odoo>>

\* idempotency_key is "submit:conversation:session:click", and UNIQUE.
NoCardYet(click) == \A i \in 1 .. Len(cards) : cards[i].click # click

\* _create_profile_confirmation.
InsertCard(w) ==
    LET t == turn[w]
        d == t.draft
    IN  /\ At(w, "insert")
        /\ NoCardYet(t.click)
        /\ cards' = Append(cards,
                [click   |-> t.click,
                 status  |-> "pending",
                 changes |-> d.changes,
                 parent  |-> Effective(d.changes, t.snapshot),
                 draft   |-> Review(d, d.changes, d.keys)])
        /\ turn' = [turn EXCEPT ![w] =
              Storing(t, Plan("awaiting_confirmation", NoDraft,
                              Len(cards) + 1, "end"))]
        /\ UNCHANGED <<conv, clicks, odoo>>

-----------------------------------------------------------------------------
(* The end of a turn                                                       *)

\* A new query while a card is open cancels its action.
DropCard(w) ==
    LET k == turn[w].card
    IN  /\ At(w, "drop")
        /\ cards' = IF cards[k].status = "pending"
                    THEN [cards EXCEPT ![k].status = "cancelled"]
                    ELSE cards
        /\ turn' = [turn EXCEPT ![w] = Storing(@, @.plan)]
        /\ UNCHANGED <<conv, clicks, odoo>>

\* load_owned and update, which may fail in between (see ChatTurns): what is
\* overwritten is the row as it is now, not the turn's copy.
Store(w) ==
    LET plan == turn[w].plan
        version == conv.version + 1
    IN  /\ At(w, "store")
        /\ conv.version < MaxVersion
        /\ conv' = [status  |-> plan.status,
                    version |-> version,
                    draft   |-> IF plan.form
                                THEN [plan.draft EXCEPT !.revision = version]
                                ELSE plan.draft,
                    card    |-> plan.card]
        /\ \/ plan.then = "end" /\ End(w)
           \/ /\ plan.then = "resolve"
              /\ turn' = [turn EXCEPT ![w].at = "resolve",
                                      ![w].version = version,
                                      ![w].plan = NoPlan]
        /\ UNCHANGED <<clicks, cards, odoo>>

\* A confirm turn (see WriteExecution).  When Odoo refuses the action, the
\* review it was submitted from is shown again.
Confirm(w) ==
    \E k \in 1 .. Len(cards) :
        LET t == [Idle EXCEPT !.kind = "confirm", !.version = conv.version]
            again == [cards[k].draft EXCEPT !.collected = Empty]
            review == [Plan("awaiting_clarification", again, 0, "end")
                          EXCEPT !.form = TRUE]
        IN  /\ At(w, "idle")
            /\ cards[k].status = "pending"
            /\ cards' = [cards EXCEPT ![k].status = "ended"]
            /\ \E plan \in {Clear("end"), review} :
                  turn' = [turn EXCEPT ![w] = Storing(t, plan)]
            /\ UNCHANGED <<conv, clicks, odoo>>

\* A call to Odoo or the database fails, the client hangs up, or the process
\* dies; a draft that is not found again, a key that exists already and
\* switch_save_draft end here too.
Stop(w) ==
    /\ turn[w] # Idle
    /\ Stops(w)

\* Somebody else changes the record, or approves a change.
Elsewhere ==
    /\ odoo.version < MaxOdooVersion
    /\ \E p \in Values : \E c \in ListFor(p) \cup {Nothing} :
          odoo' = [snapshot |-> [f \in Fields |->
                                    IF f = "parent" THEN p ELSE c],
                   version  |-> odoo.version + 1]
    /\ UNCHANGED <<conv, clicks, cards, turn>>

Next ==
    \/ Click
    \/ Elsewhere
    \/ \E w \in Workers :
          \/ Message(w)
          \/ Deliver(w)
          \/ Leave(w)
          \/ Resolve(w)
          \/ SaveDraft(w)
          \/ VerifyDraft(w)
          \/ InsertCard(w)
          \/ DropCard(w)
          \/ Store(w)
          \/ Confirm(w)
          \/ Stop(w)

Spec == Init /\ [][Next]_vars

-----------------------------------------------------------------------------
(* Properties                                                              *)

\* A revision names one form: two clicks that name the same revision were made
\* in view of the same changes, however the turns that put forms into the row
\* interleave, and although the guard, which a turn may store from an old
\* copy, brings an old revision back (profile_form_revision).  Without this,
\* comparing revisions would not keep a late click from what it was not meant
\* for.
RevisionNamesOneForm ==
    \A i, j \in 1 .. Len(clicks) :
        clicks[i].revision = clicks[j].revision
            => clicks[i].form = clicks[j].form

\* A card holds nothing the employee did not see in the review that was
\* submitted, although the click may arrive late and the record and the
\* conversation may have changed by then (profile_form_revision).  Excepted
\* is a value that the record had when the review was made, so that the
\* review left it out, and no longer has: it was given earlier, and the only
\* value still in collected_arguments goes into the changes again.
CardIsAsReviewed ==
    \A i \in 1 .. Len(cards) :
        LET c == clicks[cards[i].click]
        IN  /\ c.reviewing
            /\ \A f \in Keys(cards[i].changes) :
                  \/ cards[i].changes[f] = c.form[f]
                  \/ /\ c.form[f] = Nothing
                     /\ cards[i].changes[f] = cards[i].draft.collected[f]
                     /\ odoo.version > 1

\* A reviewed value of child, as it was selected in a form, suits the parent.
Fits(draft, parent) ==
    /\ draft.keys # {} => "child" \in draft.keys
    /\ draft.changes["child"] # Nothing
    /\ draft.changes["child"] = draft.picked
    => draft.picked \in ListFor(parent)

\* A value of child that was selected in a form and reviewed is sent off only
\* together with the parent its list belongs to: in a card or in a draft, and
\* even if parent was changed in the review or elsewhere
\* (_clear_invalid_dependents, _validate_current_option_sets).
ChildFitsParent ==
    /\ \A i \in 1 .. Len(cards) : Fits(cards[i].draft, cards[i].parent)
    /\ \A w \in Workers :
          LET d == turn[w].draft
          IN  At(w, "save") => Fits(d, Effective(d.changes, turn[w].snapshot))

Stores(w) == At(w, "store") /\ conv' # conv /\ turn'[w] # turn[w]

\* A change leaves the draft on purpose: a turn that has seen it drops it
\* only when told to, when it sent it off, when the record has that value
\* already, or when parent was answered.  With one exception: an earlier
\* answer for parent that the record has already, so that it is no change,
\* but that is the only one still in collected_arguments, is taken by every
\* turn as if it were just given, and drops child though nobody touched
\* parent.  Turns that have not seen the change, and confirmations, which do
\* not look at the draft, are another matter (guards_profile_draft,
\* resolve_profile_write_node).
DraftLeavesOnPurpose ==
    [][\A w \in Workers :
          LET t == turn[w]
          IN  Stores(w) /\ t.version = conv.version /\ t.kind # "confirm"
              => \A f \in Keys(conv.draft.changes) :
                    \/ conv'.draft.changes[f] # Nothing
                    \/ t.kind = "stop"
                    \/ t.act \in {"cancel", "switch_discard"}
                    \/ t.act \in {"submit", "save_draft"}
                          /\ conv'.status # "awaiting_clarification"
                    \/ conv.draft.changes[f] = t.snapshot[f]
                    \/ f = t.answered
                    \/ f = "child" /\ t.answered = "parent"
                    \/ /\ f = "child"
                       /\ conv.draft.changes["parent"] = Nothing
                       /\ Keys(conv.draft.collected) = {"parent"}]_vars

\* "Raw text is rejected for a selection field": what is in the draft was
\* selected from a list.
OnlySelectedValues ==
    \A f \in Fields : conv.draft.changes[f] \notin Typed
=============================================================================
