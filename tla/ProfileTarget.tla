--------------------------- MODULE ProfileTarget ---------------------------
(***************************************************************************)
(* What a profile edit is about: how a query, and the answers to questions *)
(* for a section, an item, a field or a record, come to the field, the     *)
(* resource or the record that a card changes, adds or deletes             *)
(* (orchestration/nodes/resolve_profile_write.py, with what                *)
(* merge_clarification.py, execute_write_tool.py and                       *)
(* profile_target_resolver.py have to do with it).                         *)
(*                                                                         *)
(* The profile has one section.  It holds a field of its own (alias), a    *)
(* field that Odoo derives from the rows of a collection (degree), a       *)
(* singleton (contact) and that collection (edu).  Somebody else adds,     *)
(* changes and deletes rows between any two turns.                         *)
(*                                                                         *)
(* ProfileEdit models one form of a singleton in detail: its revisions,    *)
(* dependent fields, the guard that asks before unsaved changes are left,  *)
(* turns that overlap.  Here one turn follows the other, and the row of    *)
(* the conversation holds what the last one stored.                        *)
(***************************************************************************)
EXTENDS Naturals, FiniteSets

CONSTANTS
    Records,            \* the rows of the collection, by their id in Odoo
    Texts,              \* what an employee types to name a row
    Typed,              \* what an employee types instead of another choice
    None,               \* no value, and Python's None
    NumberOf,           \* NumberOf[t]: the id that the text t is the number of
    Resolutions,        \* what the resolver may make of a message
    MatchedBy(_, _)     \* the rows of a set that a reference matches

Direct == {"alias", "degree"}
Resources == {"contact", "edu"}
FieldsOf == [r \in Resources |-> IF r = "contact" THEN {"phone"}
                                                  ELSE {"name", "place"}]
Fields == Direct \cup {"phone", "name", "place"}

Required == {"name"}        \* required_on_create
Listed == {"alias", "name"} \* answered by a choice from a list

\* Which values the record has is left open (see Differing): one stands for
\* all of them.
Values == {"value"}
Dict == [Fields -> Values \cup {None}]
Empty == [f \in Fields |-> None]
Keys(dict) == {f \in Fields : dict[f] # None}

ASSUME NumberAssumption == NumberOf \in [Texts -> Records \cup {None}]
ASSUME MatchAssumption ==
    \A t \in Records \cup Texts, rs \in SUBSET Records :
        MatchedBy(t, rs) \subseteq rs

Operations == {"create", "update", "delete"}
Actions == {"finish", "continue", "cancel", "save_draft", "submit", "edit"}
Terminal == {"finish", "save_draft", "submit"}
Slots == {"section", "field", "record", "derived"} \cup Fields
Questions == Slots \cup {"item", "action"}
Words == Fields \cup Resources \cup Values \cup Operations \cup Actions
            \cup Questions \cup {"profile"}

\* Python's None is no answer, and what is typed instead of a choice is none of
\* the choices.
ASSUME NoneAssumption ==
    /\ None # Typed
    /\ {None, Typed} \cap Words = {}
    /\ None \notin Records \cup Texts

\* _validate_allowlist: a resolution names fields of one place, if any.
Allowed(r) ==
    /\ r.section = None => r.resource = None /\ r.keys = {}
    /\ r.resource = None => r.keys \subseteq Direct
    /\ r.resource # None => r.keys \subseteq FieldsOf[r.resource]

ASSUME ResolutionsAssumption ==
    \A r \in Resolutions :
        /\ r.section \in {"profile", None}
        /\ r.resource \in Resources \cup {None}
        /\ r.keys \subseteq Fields
        /\ r.reference \in Texts \cup {None}
        /\ r.unclear \in BOOLEAN
        /\ Allowed(r)

VARIABLES
    rows,               \* the rows of edu in Odoo
    sess,               \* the row of the conversation
    card,               \* the pending action that is open
    last                \* the message of the last turn, and how that went

vars == <<rows, sess, card, last>>

-----------------------------------------------------------------------------
(* The data                                                                *)

Named == Records \cup Texts \cup {None}

\* given is collected_arguments, where an answer stays; the other fields are
\* those of workflow_data: asked and offers the question on display, form the
\* fields that can be edited in place, settled profile_target_resolved,
\* derived that an answer may lead to edu.  Two more are not kept by the code:
\* displayed is the row whose values the employee has on display, chosen tells
\* that the employee was made to choose one of several fields.
Session ==
    [open      : BOOLEAN,
     asked     : Questions \cup {None},
     offers    : SUBSET (Resources \cup Fields \cup Records \cup Values
                            \cup Actions \cup {"profile", "create", "update"}),
     form      : SUBSET Fields,
     op        : Operations,
     settled   : BOOLEAN,
     section   : {"profile", Typed, None},
     resource  : Resources \cup {None},
     keys      : SUBSET (Fields \cup {Typed}),
     reference : Named,
     record    : Records \cup {None},
     changes   : Dict,
     derived   : BOOLEAN,
     given     : [Slots -> Fields \cup Named \cup Values
                              \cup {Typed, "profile", "create", "update"}],
     displayed : Records \cup {None},
     chosen    : BOOLEAN]

NoSession ==
    [open |-> FALSE, asked |-> None, offers |-> {}, form |-> {},
     op |-> "update", settled |-> FALSE, section |-> None, resource |-> None,
     keys |-> {}, reference |-> None, record |-> None, changes |-> Empty,
     derived |-> FALSE, given |-> [s \in Slots |-> None], displayed |-> None,
     chosen |-> FALSE]

\* shown are the fields of the summary; review is the session that a failure
\* brings back, with what was given until then, which is lost.
Cards == [op : Operations, resource : Resources \cup {None},
          record : Records \cup {None}, changes : Dict, shown : SUBSET Fields,
          review : Session]

NoCard == [op |-> "update", resource |-> None, record |-> None,
           changes |-> Empty, shown |-> {},
           review |-> NoSession]

Messages == [type : {"none", "query", "text", "option", "edit", "action"},
             field : Questions \cup {None},
             value : Fields \cup Resources \cup Named \cup Values \cup Actions
                        \cup {Typed, "profile", "create", "update"}]

TypeOK ==
    /\ rows \subseteq Records
    /\ sess \in Session
    /\ card \in Cards
    /\ card # NoCard => ~sess.open
    /\ last \in [message : Messages, stored : BOOLEAN]

Init ==
    /\ rows = Records
    /\ sess = NoSession
    /\ card = NoCard
    /\ last = [message |-> [type |-> "none", field |-> None, value |-> None],
               stored |-> FALSE]

-----------------------------------------------------------------------------
(* Questions, forms, reviews and cards                                     *)

\* _clarification
Ask(s, slot, offers) ==
    [s EXCEPT !.open = TRUE, !.asked = slot, !.offers = offers, !.form = {},
              !.displayed = None]

\* _clarify_section
AskSection(s) ==
    Ask([s EXCEPT !.section = None, !.resource = None, !.keys = {},
                  !.reference = None, !.changes = Empty],
        "section", {"profile"})

\* _section_item_options
ItemsFor(op) ==
    IF op = "delete" THEN {"degree", "edu"} ELSE Direct \cup Resources

\* _clarify_value, _clarify_direct_value
AskValue(s, f) == Ask(s, f, IF f \in Listed THEN Values ELSE {})

\* _derived_redirect
Redirect(s) ==
    Ask([s EXCEPT !.derived = TRUE, !.op = "update", !.resource = None,
                  !.keys = {"degree"}, !.reference = None],
        "derived", {"create", "update"})

\* Mutation of Form: the fields the query was about stay selected.
NarrowForm(s, changes, row, offers) ==
    [Ask([s EXCEPT !.changes = changes], "action", offers)
        EXCEPT !.form = FieldsOf[s.resource], !.displayed = row]

\* _profile_draft_form: all fields of the resource can be edited in place.
Form(s, changes, row, offers) ==
    [Ask([s EXCEPT !.changes = changes, !.keys = {}], "action", offers)
        EXCEPT !.form = FieldsOf[s.resource], !.displayed = row]

\* _direct_draft_form
DirectForm(s, changes, offers) ==
    [Ask([s EXCEPT !.changes = changes],
         "action", offers \cup {"edit", "cancel"}) EXCEPT !.form = s.keys]

Reviewing == {"save_draft", "submit", "continue", "cancel"}

\* _profile_edit_summary
Summary(s, fields, changes, row) ==
    LET shown == fields \cap Keys(changes)
    IN  [Ask([s EXCEPT !.changes = changes, !.keys = shown, !.record = row,
                       !.reference = None], "action", Reviewing)
            EXCEPT !.form = shown, !.displayed = row]

\* _create_profile_confirmation: the summary is of the selected fields, of
\* every change for a new row, and of the row for one to be deleted.
CardFor(s, fields, changes, row) ==
    LET shown == CASE s.op = "create" -> FieldsOf[s.resource] \cap Keys(changes)
                   [] s.op = "update" -> fields \cap Keys(changes)
                   [] s.op = "delete" -> {}
    IN  [op |-> s.op, resource |-> s.resource, record |-> row,
         changes |-> changes, shown |-> shown,
         review |-> [Ask([s EXCEPT !.changes = changes, !.record = row],
                         "action", Reviewing)
                        EXCEPT !.form = fields \cap Keys(changes),
                               !.displayed = row]]

Stored(s) == sess' = s /\ UNCHANGED <<rows, card>>

Closed == Stored(NoSession)

Opens(c) == sess' = NoSession /\ card' = c /\ UNCHANGED rows

-----------------------------------------------------------------------------
(* The end of an edit, in the order of the code                            *)

\* The changes of the fields in which they differ from the record.  Somebody
\* else may change its values between any two turns, to what the employee has
\* given or from it, so these are any fields, each time the record is read.
Differing(changes, fields) ==
    [f \in Fields |-> IF f \in fields THEN changes[f] ELSE None]

\* Mutation of Missing: what is required is not asked for.
NothingMissing(changes) == {}

Missing(changes) == Required \ Keys(changes)

\* What a terminal action does.  A draft that Odoo finds invalid comes back
\* as a form.
Ends(s, act, fields, changes, row, formAgain) ==
    \/ act = "submit" /\ Opens(CardFor(s, fields, changes, row))
    \/ act = "save_draft" /\ Closed
    \/ act = "save_draft" /\ Stored([formAgain EXCEPT !.reference = None])
    \/ act = "finish" /\ Stored(Summary(s, fields, changes, row))

\* The branch for Operation.CREATE.  The form stays while the edit goes on,
\* and when something is missing or a value does not pass.
Create(s, act, row) ==
    LET form == Form(s, s.changes, None, {"finish", "cancel"})
    IN  \/ Stored(form)
        \/ /\ act \in Terminal /\ Missing(s.changes) = {}
           /\ Ends(s, act, IF s.keys = {} THEN FieldsOf[s.resource] ELSE s.keys,
                   s.changes, row, form)

\* The branch for Operation.UPDATE: the row, or the singleton, is read again.
\* Here too the form stays, when nothing differs or a value does not pass.
Update(s, act, row) ==
    LET fields == FieldsOf[s.resource]
        found == s.resource = "edu" => row \in rows
        unanswered == s.keys \ Keys(s.changes)
        FormWith(c, offers) == Form(s, c, row, offers)
    IN  \/ /\ s.keys = {} /\ act \notin Terminal /\ found
           /\ Stored(FormWith(s.changes, {"finish", "cancel"}))
        \/ /\ unanswered # {}
           /\ \E f \in unanswered :
                 /\ "name" \in unanswered => f = "name"
                 /\ Stored(AskValue(s, f))
        \/ /\ s.keys # {} \/ act \in Terminal
           /\ unanswered = {} /\ found
           /\ \E unlike \in SUBSET fields :
                 LET changes == Differing(s.changes, unlike)
                     form == FormWith(changes, {"finish", "cancel"})
                 IN  \/ /\ Keys(changes) = {}
                        /\ Stored(FormWith(Empty, {"continue", "cancel"}))
                     \/ Keys(changes) # {} /\ Stored(form)
                     \/ /\ Keys(changes) # {}
                        /\ Ends(s, act, IF s.keys = {} THEN fields ELSE s.keys,
                                changes, row, form)

\* The branch for Operation.DELETE, whatever the answer was.
Delete(s, row) ==
    row \in rows /\ Opens(CardFor(s, {}, s.changes, row))

\* Mutation of OnRecord: cancel is looked at after the operations.
LateCancel(s, act, row) ==
    \/ s.op = "create" /\ Create(s, act, row)
    \/ s.op = "update" /\ Update(s, act, row)
    \/ s.op = "delete" /\ Delete(s, row)

\* From the record on: it is known, or there is only one candidate.
OnRecord(s, act, row) ==
    \/ act = "cancel" /\ Closed
    \/ act # "cancel" /\ s.op = "create" /\ Create(s, act, row)
    \/ act # "cancel" /\ s.op = "update" /\ Update(s, act, row)
    \/ act # "cancel" /\ s.op = "delete" /\ Delete(s, row)

-----------------------------------------------------------------------------
(* resolve_profile_write_node                                              *)

Structured(m) == m.type \in {"option", "edit", "action"}

\* edit_action
ActOf(m) == IF Structured(m) /\ m.field = "action" THEN m.value ELSE None

\* _match_records
Candidates(reference) ==
    IF reference = None THEN rows ELSE MatchedBy(reference, rows)

\* Mutation of Picked: any answer selects the record.
EverPicked(s, m) == s.given["record"] # None

Picked(s, m) == m.type = "option" /\ s.given["record"] # None

\* int(selected_record_id)
IdOf(named) == IF named \in Records THEN named ELSE NumberOf[named]

\* The record of this turn; when the number fails, the stored one stays.
RecordOf(s, m) == IF Picked(s, m) THEN IdOf(s.given["record"]) ELSE s.record

\* The head of the node: what the answers given so far say of the target.
Taken(s, m) ==
    LET opened == Picked(s, m) /\ IdOf(s.given["record"]) # None
        named == s.given["record"] # None /\ m.type # "option"
        keys == CASE opened -> {}
                  [] ~opened /\ s.given["field"] # None -> {s.given["field"]}
                  [] OTHER -> s.keys
        redirected == s.derived /\ s.given["derived"] \in {"create", "update"}
    IN  [s EXCEPT
            !.settled = @ \/ (m.type = "option" /\ m.field \notin Fields),
            !.section =
                IF s.given["section"] # None THEN s.given["section"] ELSE @,
            !.record = IF opened THEN RecordOf(s, m) ELSE @,
            !.reference = IF named THEN s.given["record"] ELSE @,
            !.keys = IF redirected THEN {} ELSE keys,
            !.changes = [f \in Fields |-> IF f \in keys /\ s.given[f] # None
                                          THEN s.given[f] ELSE @[f]],
            !.resource = IF redirected THEN "edu" ELSE @,
            !.op = IF redirected THEN s.given["derived"] ELSE @,
            !.chosen = @ \/ s.given["field"] # None]

\* The answer to the question for an item of the section.
WithItem(s, m) ==
    IF m.type = "option" /\ m.field = "item"
    THEN [s EXCEPT !.resource = IF m.value \in Resources THEN m.value ELSE None,
                   !.keys = IF m.value \in Resources THEN {} ELSE {m.value}]
    ELSE s

\* _resolve_direct_field_update
DirectField(s, m) ==
    LET act == ActOf(m)
        changes == IF Structured(m) /\ m.field \in Direct
                   THEN [s.changes EXCEPT ![m.field] = s.given[m.field]]
                   ELSE s.changes
        d == [s EXCEPT !.op = "update", !.changes = changes]
    IN  \/ "degree" \in s.keys /\ Stored(Redirect(d))
        \/ /\ "degree" \notin s.keys
           /\ act = "edit" \/ changes["alias"] = None
           /\ Stored(AskValue(d, "alias"))
        \/ /\ "degree" \notin s.keys
           /\ act # "edit" /\ changes["alias"] # None
           /\ \E unlike \in SUBSET Direct :
                 LET differing == Differing(changes, unlike)
                     form == DirectForm(d, differing, {"finish"})
                 IN  \/ /\ Keys(differing) = {}
                        /\ Stored(DirectForm(d, Empty, {}))
                     \/ Keys(differing) # {} /\ act = "cancel" /\ Closed
                     \/ /\ Keys(differing) # {}
                        /\ act \notin Terminal \cup {"cancel"}
                        /\ Stored(form)
                     \/ /\ Keys(differing) # {}
                        /\ Ends(d, act, d.keys, differing, None, form)

\* The field whose answer goes into the changes: the one that was answered,
\* or else the only one of the resource that has been given a value.
Applied(s, m) ==
    LET supplied == {f \in FieldsOf[s.resource] : s.given[f] # None}
    IN  CASE Structured(m) /\ m.field \in FieldsOf[s.resource] -> {m.field}
          [] ~(Structured(m) /\ m.field \in FieldsOf[s.resource])
                /\ Cardinality(supplied) = 1 -> supplied
          [] OTHER -> {}

\* A resource: a new row, or one that is to be found first.
InResource(s, m, row) ==
    LET act == ActOf(m)
        d == [s EXCEPT
                !.op = IF s.op = "create" /\ s.resource = "contact"
                       THEN "update" ELSE @,
                !.keys = IF act = "continue" THEN {} ELSE @,
                !.changes = [f \in Fields |-> IF f \in Applied(s, m)
                                              THEN s.given[f] ELSE @[f]]]
        seeks == s.resource = "edu" /\ s.op # "create" /\ row = None
        candidates == Candidates(s.reference)
    IN  /\ s.resource = "contact" => d.op = "update"
        /\ d.keys \subseteq FieldsOf[s.resource]
        /\ d.op = "delete" => d.keys = {}
        /\ act # "edit"
        /\ \/ ~seeks /\ OnRecord(d, act, row)
           \/ /\ seeks /\ Cardinality(candidates) > 1
              /\ Stored(Ask(d, "record", candidates))
           \/ /\ seeks /\ Cardinality(candidates) = 1
              /\ \E found \in candidates :
                    OnRecord([d EXCEPT !.record = found], act, found)

\* The target is settled.
Locate(s, m, row) ==
    \/ s.section = None /\ Stored(AskSection(s))
    \/ /\ s.section = "profile"
       /\ LET t == WithItem(s, m)
              direct == t.keys \cap Direct
          IN  \/ /\ direct # {} /\ t.keys = direct /\ t.resource = None
                 /\ DirectField(t, m)
              \/ /\ direct = {} /\ t.resource = None
                 /\ Stored(Ask([t EXCEPT !.keys = {}], "item", ItemsFor(t.op)))
              \/ /\ direct = {} /\ t.resource # None
                 /\ InResource(t, m, row)

\* _merge_profile_target
WithResolution(s, r) ==
    [s EXCEPT !.section = IF r.section # None THEN r.section ELSE @,
              !.resource = IF r.resource # None THEN r.resource ELSE @,
              !.keys = IF r.keys # {} THEN r.keys ELSE @,
              !.reference = IF r.reference # None THEN r.reference ELSE @]

\* The resolver fails, finds several fields, or the target.
Resolve(s, m, row) ==
    \/ Stored(AskSection(s))
    \/ \E r \in Resolutions :
          LET t == WithResolution(s, r)
              several == r.unclear /\ Cardinality(t.keys) > 1
              among == IF t.resource = None THEN Direct
                                            ELSE FieldsOf[t.resource]
          IN  \/ several /\ Stored(Ask(t, "field", t.keys \cap among))
              \/ ~several /\ Locate([t EXCEPT !.settled = TRUE], m, row)

Node(s, m) ==
    LET t == Taken(s, m)
    IN  \/ t.settled /\ Locate(t, m, RecordOf(s, m))
        \/ ~t.settled /\ Resolve(t, m, RecordOf(s, m))

-----------------------------------------------------------------------------
(* Turns                                                                   *)

Message(type, field, value) == [type |-> type, field |-> field, value |-> value]

\* merge_clarification_node: the answer stays with what is given so far.
Give(s, m) ==
    IF m.field \in Slots THEN [s EXCEPT !.given[m.field] = m.value] ELSE s

Turn(s, m) ==
    /\ Node(s, m)
    /\ last' = [message |-> m, stored |-> TRUE]

Query ==
    /\ ~sess.open /\ card = NoCard
    /\ \E op \in Operations :
          Turn([NoSession EXCEPT !.op = op], Message("query", None, None))

\* An option of the question on display: option_select.
Choose ==
    /\ sess.open
    /\ \E v \in sess.offers :
          LET m == Message("option", sess.asked, v) IN Turn(Give(sess, m), m)

\* A text, which answers the question on display.
TextsFor(slot) ==
    CASE slot = "record" -> Texts
      [] slot \in Fields -> Values
      [] OTHER -> {Typed}

Say ==
    /\ sess.open
    /\ \E v \in TextsFor(sess.asked) :
          LET m == Message("text", sess.asked, v) IN Turn(Give(sess, m), m)

\* profile_field_edit: a field of the form, edited in place.
Edit ==
    /\ sess.open
    /\ \E f \in sess.form : \E v \in Values :
          LET m == Message("edit", f, v) IN Turn(Give(sess, m), m)

\* profile_edit_action: a button of the form; its schema has no "edit".
Act ==
    /\ sess.open /\ sess.asked = "action"
    /\ \E a \in sess.offers \ {"edit"} :
          Turn(sess, Message("action", "action", a))

\* The turn answers with an error, or a call fails: nothing is stored.
Stops ==
    /\ sess.open
    /\ last' = [last EXCEPT !.stored = FALSE]
    /\ UNCHANGED <<rows, sess, card>>

\* A new query, or "stop", gives the session or the card up (what the guard
\* asks before is left to ProfileEdit).
Leave ==
    /\ sess.open \/ card # NoCard
    /\ sess' = NoSession /\ card' = NoCard
    /\ UNCHANGED <<rows, last>>

\* _execute_profile_action: when it fails, the review comes back, without
\* collected_arguments.
Confirm ==
    /\ card # NoCard
    /\ card' = NoCard
    /\ sess' \in {NoSession,
                  [card.review EXCEPT !.given = NoSession.given]}
    /\ \/ UNCHANGED rows
       \/ card.op = "delete" /\ rows' = rows \ {card.record}
    /\ UNCHANGED last

\* Somebody else adds a row or deletes one; what changes in a row, or in the
\* fields of the profile, shows in Differing.
Elsewhere ==
    /\ \/ \E r \in rows : rows' = rows \ {r}
       \/ \E r \in Records \ rows : rows' = rows \cup {r}
    /\ UNCHANGED <<sess, card, last>>

Next ==
    \/ Query
    \/ Choose
    \/ Say
    \/ Edit
    \/ Act
    \/ Stops
    \/ Leave
    \/ Confirm
    \/ Elsewhere

Spec == Init /\ [][Next]_vars

-----------------------------------------------------------------------------
(* Properties                                                              *)

\* What the employee has changed on the form of one row never gets to
\* another: while edits, buttons and texts follow each other, forms and
\* reviews show the row of the form they were made on, and so does the card,
\* whatever rows come and go in Odoo (profile_record_id).  A choice from a
\* list is excepted: it looks for the record again.
DraftStaysWithRecord ==
    [][/\ sess.displayed # None
       /\ last'.stored /\ last'.message.type \in {"edit", "action", "text"}
       => /\ sess'.displayed \in {sess.displayed, None}
          /\ card' # card => card'.record = sess.displayed]_vars

\* An employee who confirms a change has seen it: the card shows every change
\* it makes (_create_profile_confirmation).  Two are excepted: an employee who
\* chose one of several fields, as the choice stays and narrows every later
\* review; and an answer that the review left out because the record had it,
\* and that is a change again since somebody else has changed the record.  It
\* is the only answer for the resource that is still among those given, or
\* none is, after a card that hid it came back.
CardShowsItsChanges ==
    card.op # "delete" /\ ~card.review.chosen
        => \A f \in Keys(card.changes) \ card.shown :
              /\ card.resource # None
              /\ {g \in FieldsOf[card.resource] : card.review.given[g] # None}
                    \subseteq {f}

\* A new row is sent off with everything it requires, by whatever way the
\* create was come to, and it goes to the collection (required_on_create).
CreateIsComplete ==
    card.op = "create" =>
        /\ card.resource = "edu"
        /\ Required \subseteq Keys(card.changes)
        /\ Keys(card.changes) \subseteq FieldsOf["edu"]

\* The button that cancels ends the session, whatever else it asks for at
\* that moment.  A field of the section of which no change is left, when the
\* record is read, is excepted: there the button shows the form again, or asks
\* for the value (_cancel_edit_session, _resolve_direct_field_update).
CancelEnds ==
    [][/\ last'.message = Message("action", "action", "cancel")
       /\ last'.stored /\ sess.open
       => \/ ~sess'.open
          \/ sess.resource = None /\ sess'.changes = Empty]_vars
=============================================================================
