------------------------- MODULE ProfileEdit_proofs -------------------------
(***************************************************************************)
(* Proofs about the profile edit session: for any number of turns, clicks, *)
(* values and changes of the record.                                       *)
(***************************************************************************)
EXTENDS ProfileEdit, TLAPS

-----------------------------------------------------------------------------
(* The inductive invariant                                                 *)

Datum == Values \cup Typed \cup {Nothing}

\* What holds of every draft that is stored, or about to be: the fields that
\* can be clicked are among those selected, a question is for a field that has
\* no value, a review is on display when it can be submitted, and a selection
\* of child was made from the list that is recorded with it.
PickedOK(d) ==
    d.picked # Nothing => d.set # "unset" /\ d.picked \in ListFor(d.set)

Shape(d) ==
    /\ d.keys = {} \/ d.shown \subseteq d.keys
    /\ d.current \in Fields
          => d.current \in d.keys /\ d.changes[d.current] = Nothing
    /\ "submit" \in d.offers => d.status = "REVIEWING" /\ d.displayed
    /\ PickedOK(d)

\* How the values given, which stay in collected_arguments, and the changes
\* are related, for the fields of F.
Agree(d, F) ==
    \A f \in F : d.collected[f] # Nothing /\ d.changes[f] # Nothing
                    => d.changes[f] = d.collected[f]

\* A value given that is not among the changes: child was cleared, or the
\* record has it, or had it.
Accounted(d, f) ==
    \/ f = "child" /\ d.collected["parent"] # Nothing /\ "child" \notin d.keys
    \/ odoo.version > 1
    \/ d.collected[f] = odoo.snapshot[f]

Tight(d, F) ==
    \A f \in F : d.collected[f] # Nothing /\ d.changes[f] = Nothing
                    => Accounted(d, f)

\* The only value given is one for parent, and it is no change: every turn
\* takes it for an answer.
Stray(d) == Keys(d.collected) = {"parent"} /\ d.changes["parent"] = Nothing

\* The fields a turn has just been given a value for.
Entered(t) == IF t.act # "none" THEN {} ELSE {t.answered} \cup t.draft.keys

\* It clears child, unless a review has put parent among the keys.
Taken(t) ==
    t.answered = "none" /\ "parent" \notin t.draft.keys /\ Stray(t.draft)

\* A draft with an answer, before the answer is merged.
Answered(t) ==
    /\ PickedOK(t.draft)
    /\ Agree(t.draft, Fields \ {t.answered})
    /\ Tight(t.draft, Fields \ Entered(t))
    /\ t.act # "none" => t.answered = "none"
    /\ t.answered \in Fields => t.draft.collected[t.answered] # Nothing
    /\ t.answered = "parent" => t.draft.keys = {} \/ "parent" \in t.draft.keys

\* A turn that resolves a new query.
Anew(t) ==
    /\ t.draft.revision = 0
    /\ t.draft.collected = Empty
    /\ t.draft.picked = Nothing
    /\ t.act = "none"
    /\ t.answered = "none"

Settled(d) == Agree(d, Fields) /\ Tight(d, Fields)

PlanOK(p) ==
    /\ p.status # "awaiting_clarification" => p.draft = NoDraft /\ ~p.form
    /\ p.card > 0 <=> p.status = "awaiting_confirmation"
    /\ p.card <= Len(cards)
    /\ ~p.form => /\ p.draft.revision <= conv.version
                  /\ p.draft.displayed => p.draft.revision > 0
    /\ p.then = "resolve" => p.draft = NoDraft /\ ~p.form
    /\ Shape(p.draft) /\ Settled(p.draft)

ConvOK ==
    /\ conv.draft.displayed => conv.draft.revision > 0
    /\ Shape(conv.draft) /\ Settled(conv.draft)

OdooOK == odoo.version = 0 => odoo.snapshot = Empty

CardsOK == \A i \in 1 .. Len(cards) : /\ Shape(cards[i].draft)
                                      /\ cards[i].click \in 1 .. Len(clicks)

ClicksOK ==
    /\ Len(clicks) <= MaxClicks
    /\ \A i \in 1 .. Len(clicks) :
          /\ clicks[i].revision <= conv.version
          /\ clicks[i].kind = "action" /\ clicks[i].action = "submit"
                => clicks[i].reviewing

\* What a card may hold, given the click it is made for.
AsReviewed(changes, collected, c) ==
    /\ c.reviewing
    /\ \A f \in Keys(changes) :
          \/ changes[f] = c.form[f]
          \/ /\ c.form[f] = Nothing
             /\ changes[f] = collected[f]
             /\ odoo.version > 1

TurnOK(t) ==
    /\ t.version <= conv.version
    /\ PlanOK(t.plan)
    /\ t.at = "drop" => t.card \in 1 .. Len(cards)
    /\ t.at \in {"resolve", "save", "insert"} =>
          t.draft.revision <= conv.version
    /\ t.at \in {"drop", "store"} /\ t.plan.then = "resolve" => Anew(t)
    /\ t.at = "resolve" => Answered(t)
    /\ t.at = "resolve" /\ t.act = "submit" =>
          /\ t.click \in 1 .. Len(clicks)
          /\ clicks[t.click].reviewing
          /\ clicks[t.click].form = t.draft.changes
    /\ t.at \in {"save", "insert"} =>
          /\ PickedOK(t.draft) /\ Settled(t.draft)
          /\ Fits(t.draft, Effective(t.draft.changes, t.snapshot))
    /\ t.at \in {"save", "verify"} => t.act = "save_draft"
    /\ t.at = "insert" =>
          /\ t.act = "submit"
          /\ t.click \in 1 .. Len(clicks)
          /\ AsReviewed(t.draft.changes, t.draft.collected, clicks[t.click])

\* The forms that are, were, or may still get on display, by revision.
View(d) == [revision |-> d.revision, form |-> d.changes]

Held == {conv.draft} \cup
        {turn[w].plan.draft : w \in {v \in Workers : ~turn[v].plan.form}}

Views == {View(d) : d \in {e \in Held : e.displayed}} \cup
         {[revision |-> clicks[i].revision, form |-> clicks[i].form] :
             i \in 1 .. Len(clicks)}

OneForm(S) == \A x, y \in S : x.revision = y.revision => x.form = y.form

\* Why the change of a field may be gone from what a turn stores.
Excused(t, f) ==
    \/ f = t.answered
    \/ f = "child" /\ t.answered = "parent"
    \/ f = "child" /\ Stray(conv.draft)
    \/ conv.draft.changes[f] = t.snapshot[f]

Kept(t, changes) ==
    \A f \in Keys(conv.draft.changes) : changes[f] # Nothing \/ Excused(t, f)

\* A turn that has loaded the row as it is.
Sees(t) ==
    t.version = conv.version /\ t.kind # "confirm" =>
        /\ t.at = "resolve" =>
              \/ conv.draft = NoDraft
              \/ /\ t.draft.changes = conv.draft.changes
                 /\ Taken(t) => Stray(conv.draft)
        /\ t.at = "drop" => conv.draft = NoDraft
        /\ t.at = "save" => Kept(t, t.draft.changes)
        /\ t.at = "store" =>
              \/ Kept(t, t.plan.draft.changes)
              \/ t.kind = "stop"
              \/ t.act \in {"cancel", "switch_discard"}
              \/ t.act \in {"submit", "save_draft"}
                    /\ t.plan.status # "awaiting_clarification"

ViewsOK ==
    /\ \A x \in Views : x.revision \in 0 .. conv.version
    /\ OneForm(Views)

CardsReviewed ==
    \A i \in 1 .. Len(cards) :
        AsReviewed(cards[i].changes, cards[i].draft.collected,
                   clicks[cards[i].click])

CardsFit == \A i \in 1 .. Len(cards) : Fits(cards[i].draft, cards[i].parent)

Turns == {turn[w] : w \in Workers}

ProfileIInv ==
    /\ TypeOK
    /\ OdooOK
    /\ ConvOK
    /\ ClicksOK
    /\ CardsOK
    /\ \A t \in Turns : TurnOK(t) /\ Sees(t)
    /\ ViewsOK
    /\ CardsReviewed
    /\ CardsFit

-----------------------------------------------------------------------------
(* The operators on drafts and plans                                       *)

USE DEF Datum

LEMMA EmptyIsDict == Empty \in Dict
BY DEF Empty, Dict

LEMMA NoDraftIsDraft == NoDraft \in Draft
BY EmptyIsDict, BoundsAssumption DEF NoDraft, Draft, Fields

LEMMA NoPlanIsPlan == NoPlan \in Plans
BY NoDraftIsDraft DEF NoPlan, Plans, ConversationStatuses

LEMMA IdleIsTurn == Idle \in Turn
BY NoDraftIsDraft, NoPlanIsPlan, EmptyIsDict, BoundsAssumption
DEF Idle, Turn

\* The value of parent that a form goes by is a value.
LEMMA EffectiveType ==
    ASSUME NEW changes \in Dict, NEW snapshot \in Dict
    PROVE  Effective(changes, snapshot) \in Datum
BY DEF Effective, Dict, Fields

\* What differs from the record is among the changes.
LEMMA DifferingIsDict ==
    ASSUME NEW changes \in Dict, NEW snapshot \in Dict
    PROVE  /\ Differing(changes, snapshot) \in Dict
           /\ \A f \in Fields :
                 \/ changes[f] = snapshot[f]
                       /\ Differing(changes, snapshot)[f] = Nothing
                 \/ changes[f] # snapshot[f]
                       /\ Differing(changes, snapshot)[f] = changes[f]
BY DEF Differing, Dict

\* A form that is put into the row has the type of a plan, and what later
\* turns rely on.
LEMMA FormIsPlan ==
    ASSUME NEW d \in Draft, NEW changes \in Dict, NEW snapshot \in Dict,
           NEW offers \in SUBSET EditActions
    PROVE  LET p == Form(d, changes, snapshot, offers)
           IN  /\ p \in Plans
               /\ p.status = "awaiting_clarification"
               /\ p.card = 0 /\ p.form /\ p.then = "end"
               /\ p.draft.status = "EDITING"
               /\ p.draft.current = "profile_edit_action"
               /\ p.draft.offers = offers
               /\ p.draft.displayed
               /\ p.draft.keys = {}
               /\ p.draft.changes = changes
               /\ p.draft.collected = d.collected
               /\ p.draft.picked = d.picked
               /\ p.draft.set = d.set
<1> DEFINE e == Shown(d, changes, snapshot, offers)
<1>2. /\ e \in Draft
      /\ e.status = "EDITING"
      /\ e.current = "profile_edit_action"
      /\ e.offers = offers
      /\ e.displayed = TRUE
      /\ e.keys = {}
      /\ e.changes = changes
      /\ e.collected = d.collected
      /\ e.picked = d.picked
      /\ e.set = d.set
  BY EffectiveType DEF Shown, Draft
<1> HIDE DEF e
<1>3. QED
  BY <1>2 DEF e, Form, Plan, Plans, ConversationStatuses

\* The review of a draft.
LEMMA ReviewIsDraft ==
    ASSUME NEW d \in Draft, NEW changes \in Dict, NEW keys \in SUBSET Fields
    PROVE  LET e == Review(d, changes, keys)
           IN  /\ e \in Draft
               /\ e.status = "REVIEWING"
               /\ e.current = "profile_edit_action"
               /\ e.displayed
               /\ e.shown = keys \cap Keys(changes)
               /\ e.keys = d.keys
               /\ e.changes = changes
               /\ e.collected = d.collected
               /\ e.picked = d.picked
               /\ e.set = d.set
<1>1. changes["parent"] \in Datum /\ Keys(changes) \subseteq Fields
  BY DEF Dict, Fields, Keys
<1> DEFINE offers == {"save_draft", "submit", "continue", "cancel"}
           shown == keys \cap Keys(changes)
           context == IF "parent" \in keys THEN changes["parent"] ELSE Nothing
<1>2. /\ offers \in SUBSET EditActions
      /\ shown \in SUBSET Fields
      /\ context \in Datum
  BY <1>1 DEF EditActions
<1>3. Review(d, changes, keys) =
        [d EXCEPT !.status = "REVIEWING", !.current = "profile_edit_action",
                  !.offers = offers, !.displayed = TRUE, !.shown = shown,
                  !.context = context, !.changes = changes]
  BY DEF Review
<1> HIDE DEF offers, shown, context
<1> DEFINE e == Review(d, changes, keys)
<1>4. e \in Draft
  BY <1>2, <1>3 DEF Draft
<1>5. /\ e.status = "REVIEWING"
      /\ e.current = "profile_edit_action"
      /\ e.displayed = TRUE
      /\ e.shown = shown
      /\ e.keys = d.keys
      /\ e.changes = changes
      /\ e.collected = d.collected
      /\ e.picked = d.picked
      /\ e.set = d.set
  BY <1>3 DEF Draft
<1>6. QED
  BY <1>4, <1>5 DEF shown

LEMMA SummaryIsPlan ==
    ASSUME NEW d \in Draft, NEW changes \in Dict, NEW keys \in SUBSET Fields
    PROVE  LET p == Summary(d, changes, keys)
           IN  /\ p \in Plans
               /\ p.status = "awaiting_clarification"
               /\ p.card = 0 /\ p.form /\ p.then = "end"
               /\ p.draft.status = "REVIEWING"
               /\ p.draft.current = "profile_edit_action"
               /\ p.draft.displayed
               /\ p.draft.shown = p.draft.keys
               /\ p.draft.keys = keys \cap Keys(changes)
               /\ p.draft.changes = changes
               /\ p.draft.collected = d.collected
               /\ p.draft.picked = d.picked
               /\ p.draft.set = d.set
<1> DEFINE e == Review(d, changes, keys)
           k == keys \cap Keys(changes)
<1>1. k \in SUBSET Fields
  OBVIOUS
<1>2. /\ e \in Draft
      /\ e.status = "REVIEWING"
      /\ e.current = "profile_edit_action"
      /\ e.displayed
      /\ e.shown = k
      /\ e.changes = changes
      /\ e.collected = d.collected
      /\ e.picked = d.picked
      /\ e.set = d.set
  BY ReviewIsDraft
<1>3. Summary(d, changes, keys) =
        [Plan("awaiting_clarification",
              [e EXCEPT !.keys = k, !.record = Nothing], 0, "end")
            EXCEPT !.form = TRUE]
  BY DEF Summary
<1> HIDE DEF e, k
<1>4. /\ [e EXCEPT !.keys = k, !.record = Nothing] \in Draft
      /\ [e EXCEPT !.keys = k, !.record = Nothing].shown = k
  BY <1>1, <1>2 DEF Draft
<1>5. QED
  <2> DEFINE g == [e EXCEPT !.keys = k, !.record = Nothing]
  <2>1. /\ g \in Draft
        /\ g.status = "REVIEWING"
        /\ g.current = "profile_edit_action"
        /\ g.displayed
        /\ g.shown = k
        /\ g.keys = k
        /\ g.changes = changes
        /\ g.collected = d.collected
        /\ g.picked = d.picked
        /\ g.set = d.set
    BY <1>2, <1>4 DEF Draft
  <2> HIDE DEF g
  <2>2. Summary(d, changes, keys) =
          [status |-> "awaiting_clarification", draft |-> g, card |-> 0,
           form |-> TRUE, then |-> "end"]
    BY <1>3 DEF g, Plan
  <2>3. QED
    BY <2>1, <2>2 DEF k, Plans, ConversationStatuses

\* A question for the value of a field.
LEMMA AskIsPlan ==
    ASSUME NEW d \in Draft, NEW changes \in Dict, NEW field \in Fields,
           NEW keys \in SUBSET Fields
    PROVE  LET p == Ask(d, changes, keys, field)
           IN  /\ p \in Plans
               /\ p.status = "awaiting_clarification"
               /\ p.card = 0 /\ ~p.form /\ p.then = "end"
               /\ p.draft.revision = d.revision
               /\ p.draft.current = field
               /\ p.draft.offers = {}
               /\ ~p.draft.displayed
               /\ p.draft.shown = {}
               /\ p.draft.keys = keys
               /\ p.draft.changes = changes
               /\ p.draft.collected = d.collected
               /\ p.draft.picked = d.picked
               /\ p.draft.set = d.set
BY DEF Ask, Plan, Plans, ConversationStatuses, Draft

\* A draft put aside for a query.
LEMMA GuardIsPlan ==
    ASSUME NEW d \in Draft
    PROVE  LET p == Guard(d)
           IN  /\ p \in Plans
               /\ p.status = "awaiting_clarification"
               /\ p.card = 0 /\ ~p.form /\ p.then = "end"
               /\ p.draft.revision = d.revision
               /\ p.draft.current = "profile_edit_action"
               /\ "submit" \notin p.draft.offers
               /\ p.draft.displayed = d.displayed
               /\ p.draft.shown = d.shown
               /\ p.draft.keys = d.keys
               /\ p.draft.changes = d.changes
               /\ p.draft.collected = Empty
               /\ p.draft.picked = d.picked
               /\ p.draft.set = d.set
BY EmptyIsDict
DEF Guard, Plan, Plans, ConversationStatuses, Draft, EditActions

LEMMA ClearIsPlan ==
    ASSUME NEW then \in {"end", "resolve"}
    PROVE  /\ Clear(then) \in Plans
           /\ Clear(then) = [status |-> "closed", draft |-> NoDraft,
                             card |-> 0, form |-> FALSE, then |-> then]
BY NoDraftIsDraft DEF Clear, Plan, Plans, ConversationStatuses

\* An answer that is merged.
LEMMA MergedIsDraft ==
    ASSUME NEW d \in Draft, NEW field \in Fields,
           NEW value \in Values \cup Typed
    PROVE  LET e == Merged(d, field, value)
           IN  /\ e \in Draft
               /\ e.status = d.status
               /\ e.revision = d.revision
               /\ e.current = "none"
               /\ e.offers = {}
               /\ e.context = d.context
               /\ e.keys = d.keys
               /\ e.changes = d.changes
               /\ e.picked = d.picked
               /\ e.set = d.set
               /\ e.collected \in Dict
               /\ e.collected[field] = value
               /\ \A f \in Fields \ {field} :
                     e.collected[f] = d.collected[f]
<1> DEFINE collected == [d.collected EXCEPT ![field] = value]
<1>1. /\ collected \in Dict
      /\ collected[field] = value
      /\ \A f \in Fields \ {field} : collected[f] = d.collected[f]
  BY DEF Draft, Dict
<1>2. Merged(d, field, value) =
        [d EXCEPT !.collected = collected, !.current = "none", !.offers = {}]
  BY DEF Merged
<1> HIDE DEF collected
<1> DEFINE e == Merged(d, field, value)
<1>3. e \in Draft
  BY <1>1, <1>2 DEF Draft
<1>4. /\ e.status = d.status
      /\ e.revision = d.revision
      /\ e.current = "none"
      /\ e.offers = {}
      /\ e.context = d.context
      /\ e.keys = d.keys
      /\ e.changes = d.changes
      /\ e.picked = d.picked
      /\ e.set = d.set
      /\ e.collected = collected
  BY <1>2 DEF Draft
<1>5. QED
  BY <1>1, <1>3, <1>4

LEMMA PickedIsDraft ==
    ASSUME NEW d \in Draft, NEW field \in Fields, NEW value \in Values
    PROVE  LET e == Picked(d, field, value)
           IN  /\ e \in Draft
               /\ e.revision = d.revision
               /\ e.keys = d.keys
               /\ e.changes = d.changes
               /\ e.collected = d.collected
               /\ field = "child" => e.picked = value /\ e.set = d.context
               /\ field # "child" => e.picked = d.picked /\ e.set = d.set
BY DEF Picked, Draft

\* Which value goes into the changes.
LEMMA AppliedIs ==
    ASSUME NEW t \in Turn
    PROVE  /\ Applied(t) \subseteq Fields
           /\ t.answered # "none" => Applied(t) = {t.answered}
           /\ \A f \in Fields :
                 t.answered = "none" /\ Keys(t.draft.collected) = {f}
                    => Applied(t) = {f}
           /\ \A f \in Applied(t) :
                 t.answered = "none" => Keys(t.draft.collected) = {f}
<1>1. t.draft.collected \in Dict /\ t.answered \in Fields \cup {"none"}
  BY DEF Turn, Draft
<1>2. Keys(t.draft.collected) \subseteq Fields
  BY DEF Keys
<1>3. QED
  BY <1>1, <1>2 DEF Applied

\* The answer is merged: afterwards every value given agrees with the changes
\* or is accounted for, and no change is lost but those that depend on the
\* answer, or on the value that is taken for one.
LEMMA MergingSettles ==
    ASSUME NEW t \in Turn, Answered(t)
    PROVE  LET d == Merging(t)
               c == t.draft
           IN  /\ d \in Draft
               /\ d.status = c.status
               /\ d.revision = c.revision
               /\ d.keys = c.keys
               /\ d.collected = c.collected
               /\ PickedOK(d)
               /\ Agree(d, Fields)
               /\ Tight(d, Fields)
               /\ \A f \in Fields : c.changes[f] # Nothing =>
                     \/ f = t.answered
                     \/ f = "child" /\ t.answered = "parent"
                     \/ f = "child" /\ Taken(t) /\ d.changes[f] = Nothing
                     \/ d.changes[f] = c.changes[f]
               /\ t.act # "none" =>
                     \A f \in Fields :
                        c.changes[f] = Nothing /\ d.changes[f] # Nothing
                           => /\ d.changes[f] = c.collected[f]
                              /\ \/ odoo.version > 1
                                 \/ c.collected[f] = odoo.snapshot[f]
<1> DEFINE c == t.draft
           before == WithCollected(c)
           applied == Applied(t)
           after == [f \in Fields |-> IF f \in applied /\ c.collected[f] # Nothing
                                      THEN c.collected[f] ELSE before[f]]
           previous == IF before["parent"] # Nothing THEN before["parent"]
                                                     ELSE c.record
           clears == after["parent"] \notin {before["parent"], previous}
           changes == [f \in Fields |-> IF clears /\ f = "child"
                                        THEN Nothing ELSE after[f]]
           d == Merging(t)
<1>1. /\ c \in Draft /\ c.collected \in Dict /\ c.changes \in Dict
      /\ c.keys \subseteq Fields
      /\ t.answered \in Fields \cup {"none"}
  BY DEF Turn, Draft
<1>2. \A f \in Fields :
         before[f] = IF f \in c.keys /\ c.collected[f] # Nothing
                     THEN c.collected[f] ELSE c.changes[f]
  BY DEF WithCollected
<1>3. before \in Dict /\ after \in Dict /\ changes \in Dict
  BY <1>1 DEF WithCollected, Dict
<1>4. d = IF clears THEN [c EXCEPT !.changes = changes, !.picked = Nothing,
                                   !.set = "unset"]
                    ELSE [c EXCEPT !.changes = changes]
  <2>1. CASE clears
    <3>1. [after EXCEPT !["child"] = Nothing] = changes
      BY <1>3, <2>1 DEF Fields, Dict
    <3>2. QED
      BY <2>1, <3>1 DEF Merging
  <2>2. CASE ~clears
    <3>1. after = changes
      BY <1>3, <2>2 DEF Dict
    <3>2. QED
      BY <2>2, <3>1 DEF Merging
  <2>3. QED
    BY <2>1, <2>2
<1>5. /\ d \in Draft
      /\ d.status = c.status
      /\ d.revision = c.revision
      /\ d.keys = c.keys
      /\ d.collected = c.collected
      /\ d.changes = changes
      /\ clears => d.picked = Nothing
      /\ ~clears => d.picked = c.picked /\ d.set = c.set
  <2> HIDE DEF changes, clears, c, d
  <2>1. CASE clears
    BY <1>1, <1>3, <1>4, <2>1 DEF Draft
  <2>2. CASE ~clears
    BY <1>1, <1>3, <1>4, <2>2 DEF Draft
  <2>3. QED
    BY <2>1, <2>2
<1>6. /\ applied \subseteq Fields
      /\ t.answered # "none" => applied = {t.answered}
      /\ \A f \in Fields :
            t.answered = "none" /\ Keys(c.collected) = {f} => applied = {f}
      /\ \A f \in applied : t.answered = "none" => Keys(c.collected) = {f}
  BY AppliedIs
<1>7. /\ PickedOK(c)
      /\ Agree(c, Fields \ {t.answered})
      /\ Tight(c, Fields \ Entered(t))
      /\ t.act # "none" => t.answered = "none" /\ Entered(t) = {}
      /\ t.act = "none" => Entered(t) = {t.answered} \cup c.keys
      /\ t.answered \in Fields => c.collected[t.answered] # Nothing
      /\ t.answered = "parent" => c.keys = {} \/ "parent" \in c.keys
  BY DEF Answered, Entered
<1>8. \A f \in Fields :
         after[f] = IF f \in applied /\ c.collected[f] # Nothing
                    THEN c.collected[f] ELSE before[f]
  OBVIOUS
<1>9. \A f \in Fields :
         changes[f] = IF clears /\ f = "child" THEN Nothing ELSE after[f]
  OBVIOUS
<1>10. clears => after["parent"] # before["parent"] /\ after["parent"] # previous
  OBVIOUS
<1>11. previous = IF before["parent"] # Nothing THEN before["parent"]
                                                ELSE c.record
  OBVIOUS
<1> HIDE DEF after, before, applied, changes, clears, previous, c, d
<1>12. \A f \in Fields : f \in Keys(c.collected) <=> c.collected[f] # Nothing
  BY DEF Keys
\* Only the answer clears child, and then child is not among the keys, or the
\* value that is taken for one.
<1>13. ASSUME clears
       PROVE  (t.answered = "parent" /\ c.keys = {}) \/ Taken(t)
  <2>1. "parent" \in Fields
    BY DEF Fields
  <2>2. /\ "parent" \in applied
        /\ c.collected["parent"] # Nothing
        /\ after["parent"] = c.collected["parent"]
        /\ "parent" \notin c.keys
    BY <1>2, <1>8, <1>10, <1>13, <2>1
  <2>3. before["parent"] = c.changes["parent"]
    BY <1>2, <2>1, <2>2
  <2>4. CASE t.answered # "none"
    BY <1>6, <1>7, <2>2, <2>4
  <2>5. CASE t.answered = "none"
    <3>1. Keys(c.collected) = {"parent"}
      BY <1>6, <2>2, <2>5
    <3>2. "parent" \in Fields \ {t.answered}
      BY <2>1, <2>5
    <3>3. c.changes["parent"] = Nothing
      <4> SUFFICES ASSUME c.changes["parent"] # Nothing PROVE FALSE
        OBVIOUS
      <4>1. c.changes["parent"] = c.collected["parent"]
        BY <1>7, <2>2, <3>2 DEF Agree
      <4>2. QED
        BY <1>10, <1>13, <2>2, <2>3, <4>1
    <3>4. QED
      BY <2>2, <2>5, <3>1, <3>3 DEF Taken, Stray, c
  <2>6. QED
    BY <2>4, <2>5
\* A value given goes into the changes when it is the answer or asked for.
<1>14. \A f \in Fields :
          c.collected[f] # Nothing /\ (f \in applied \/ f \in c.keys)
             => after[f] = c.collected[f]
  BY <1>2, <1>8
<1>15. \A f \in Fields :
          ~(c.collected[f] # Nothing /\ (f \in applied \/ f \in c.keys))
             => after[f] = c.changes[f]
  BY <1>2, <1>8
<1>16. t.answered \in Fields => t.answered \in applied
  BY <1>6 DEF Fields
<1>17. PickedOK(d)
  BY <1>5, <1>7 DEF PickedOK
<1>18. Agree(d, Fields)
  <2> SUFFICES ASSUME NEW f \in Fields, c.collected[f] # Nothing,
                      changes[f] # Nothing
               PROVE  changes[f] = c.collected[f]
    BY <1>5 DEF Agree
  <2>1. changes[f] = after[f]
    BY <1>9
  <2>2. CASE f \in applied \/ f \in c.keys
    BY <1>14, <2>1, <2>2
  <2>3. CASE ~(f \in applied \/ f \in c.keys)
    <3>1. f # t.answered
      BY <1>16, <2>3
    <3>2. after[f] = c.changes[f]
      BY <1>15, <2>3
    <3>3. QED
      BY <1>7, <2>1, <3>1, <3>2 DEF Agree
  <2>4. QED
    BY <2>2, <2>3
<1>19. Tight(d, Fields)
  <2> SUFFICES ASSUME NEW f \in Fields, c.collected[f] # Nothing,
                      changes[f] = Nothing
               PROVE  Accounted(d, f)
    BY <1>5 DEF Tight
  <2>1. CASE clears /\ f = "child"
    <3>1. t.answered = "parent" /\ c.keys = {}
      BY <1>12, <1>13, <2>1 DEF Taken, Stray, c
    <3>2. c.collected["parent"] # Nothing
      BY <1>7, <3>1 DEF Fields
    <3>3. QED
      BY <1>5, <2>1, <3>1, <3>2 DEF Accounted
  <2>2. CASE ~(clears /\ f = "child")
    <3>1. after[f] = Nothing
      BY <1>9, <2>2
    <3>2. f \notin applied /\ f \notin c.keys
      BY <1>14, <3>1
    <3>3. f # t.answered
      BY <1>16, <3>2
    <3>4. f \notin Entered(t)
      BY <3>2, <3>3 DEF Entered, c
    <3>5. c.changes[f] = Nothing
      BY <1>15, <3>1, <3>2
    <3>6. Accounted(c, f)
      BY <1>7, <3>4, <3>5 DEF Tight
    <3>7. QED
      BY <1>5, <3>6 DEF Accounted
  <2>3. QED
    BY <2>1, <2>2
<1>20. \A f \in Fields : c.changes[f] # Nothing =>
          \/ f = t.answered
          \/ f = "child" /\ t.answered = "parent"
          \/ f = "child" /\ Taken(t) /\ changes[f] = Nothing
          \/ changes[f] = c.changes[f]
  <2> SUFFICES ASSUME NEW f \in Fields, c.changes[f] # Nothing,
                      f # t.answered, ~(clears /\ f = "child")
               PROVE  changes[f] = c.changes[f]
    BY <1>9, <1>13
  <2>1. changes[f] = after[f]
    BY <1>9
  <2>2. c.collected[f] # Nothing => c.changes[f] = c.collected[f]
    BY <1>7 DEF Agree
  <2>3. QED
    BY <1>14, <1>15, <2>1, <2>2
<1>21. ASSUME t.act # "none", NEW f \in Fields, c.changes[f] = Nothing,
              changes[f] # Nothing
       PROVE  /\ changes[f] = c.collected[f]
              /\ odoo.version > 1 \/ c.collected[f] = odoo.snapshot[f]
  <2>1. changes[f] = after[f]
    BY <1>9, <1>21
  <2>2. /\ c.collected[f] # Nothing
        /\ f \in applied \/ f \in c.keys
        /\ changes[f] = c.collected[f]
    BY <1>14, <1>15, <1>21, <2>1
  <2>3. Accounted(c, f)
    BY <1>7, <1>21, <2>2 DEF Tight
  <2>4. ~(/\ f = "child" /\ c.collected["parent"] # Nothing
          /\ "child" \notin c.keys)
    <3> SUFFICES ASSUME f = "child", c.collected["parent"] # Nothing,
                        "child" \notin c.keys
                 PROVE  FALSE
      OBVIOUS
    <3>1. Keys(c.collected) = {"child"}
      BY <1>6, <1>7, <1>21, <2>2
    <3>2. QED
      BY <1>12, <3>1 DEF Fields
  <2>5. QED
    BY <2>2, <2>3, <2>4 DEF Accounted
<1>22. QED
  BY <1>5, <1>17, <1>18, <1>19, <1>20, <1>21 DEF c, d

\* A merged draft is settled, whichever of its fields stay selected.
LEMMA MergedSettles ==
    ASSUME NEW d \in Draft, NEW e \in Draft,
           Agree(d, Fields), Tight(d, Fields),
           e.collected = d.collected, e.changes = d.changes,
           "child" \in e.keys => "child" \in d.keys
    PROVE  Settled(e)
BY DEF Settled, Agree, Tight, Accounted

\* So is what is left of it when the values the record has are dropped.
LEMMA DifferingSettles ==
    ASSUME NEW d \in Draft, NEW e \in Draft, odoo.snapshot \in Dict,
           Agree(d, Fields), Tight(d, Fields),
           e.collected = d.collected,
           e.changes = Differing(d.changes, odoo.snapshot),
           "child" \in e.keys => \/ "child" \in d.keys
                                \/ e.changes["child"] # Nothing
    PROVE  Settled(e)
<1> DEFINE snapshot == odoo.snapshot
<1>1. d.changes \in Dict
  BY DEF Draft
<1>2. \A f \in Fields :
         \/ d.changes[f] = snapshot[f] /\ e.changes[f] = Nothing
         \/ d.changes[f] # snapshot[f] /\ e.changes[f] = d.changes[f]
  BY <1>1, DifferingIsDict
<1>3. Agree(e, Fields)
  BY <1>2 DEF Agree
<1>4. Tight(e, Fields)
  <2> SUFFICES ASSUME NEW f \in Fields, e.collected[f] # Nothing,
                      e.changes[f] = Nothing
               PROVE  Accounted(e, f)
    BY DEF Tight
  <2>1. CASE d.changes[f] = Nothing
    BY <2>1 DEF Tight, Accounted
  <2>2. CASE d.changes[f] # Nothing
    <3>1. d.changes[f] = snapshot[f]
      BY <1>2, <2>2
    <3>2. QED
      BY <2>2, <3>1 DEF Agree, Accounted
  <2>3. QED
    BY <2>1, <2>2
<1>5. QED
  BY <1>3, <1>4 DEF Settled

\* Nothing is given in a draft that starts anew.
LEMMA EmptySettles ==
    ASSUME NEW d, d.collected = Empty
    PROVE  Settled(d)
BY DEF Settled, Agree, Tight, Empty

LEMMA ClearPlanOK ==
    ASSUME TypeOK, NEW then \in {"end", "resolve"}
    PROVE  PlanOK(Clear(then))
<1>1. Settled(NoDraft)
  BY EmptySettles DEF NoDraft
<1>2. Shape(NoDraft)
  BY DEF NoDraft, Shape, PickedOK, Fields, Empty
<1>3. Len(cards) \in Nat /\ conv.version \in Nat
  BY BoundsAssumption DEF TypeOK
<1>4. NoDraft.displayed = FALSE /\ NoDraft.revision = 0
  BY DEF NoDraft
<1>5. PICK p : p = Clear(then)
  OBVIOUS
<1>6. /\ p.status = "closed" /\ p.draft = NoDraft
      /\ p.card = 0 /\ p.form = FALSE
  BY <1>5, ClearIsPlan
<1>7. PlanOK(p)
  BY <1>1, <1>2, <1>3, <1>4, <1>6 DEF PlanOK
<1>8. QED
  BY <1>5, <1>7

-----------------------------------------------------------------------------
(* What stays true while clicks, cards and versions are added              *)

\* What every step does to the row, the clicks, the cards and the record.
Grows ==
    /\ conv.version <= conv'.version
    /\ Len(clicks) <= Len(clicks')
    /\ \A i \in 1 .. Len(clicks) : clicks'[i] = clicks[i]
    /\ Len(cards) <= Len(cards')
    /\ odoo' = odoo \/ odoo'.version = odoo.version + 1

LEMMA TightStays ==
    ASSUME TypeOK, OdooOK, Grows, NEW d, NEW F \in SUBSET Fields, Tight(d, F)
    PROVE  Tight(d, F)'
<1> SUFFICES ASSUME NEW f \in F, d.collected[f] # Nothing,
                    d.changes[f] = Nothing
             PROVE  Accounted(d, f)'
  BY DEF Tight
<1>1. Accounted(d, f)
  BY DEF Tight
<1>2. odoo.version \in Nat
  BY DEF TypeOK
<1>3. odoo.version = 0 => odoo.snapshot[f] = Nothing
  BY DEF OdooOK, Empty
<1>4. QED
  BY <1>1, <1>2, <1>3 DEF Accounted, Grows

LEMMA SettledStays ==
    ASSUME TypeOK, OdooOK, Grows, NEW d, Settled(d)
    PROVE  Settled(d)'
BY TightStays DEF Settled, Agree

LEMMA PlanStays ==
    ASSUME TypeOK, TypeOK', OdooOK, Grows, NEW p \in Plans, PlanOK(p)
    PROVE  PlanOK(p)'
<1>1. Settled(p.draft)'
  BY SettledStays DEF PlanOK
<1>2. /\ Len(cards) \in Nat /\ Len(cards') \in Nat
      /\ conv.version \in Nat /\ conv'.version \in Nat
      /\ p.card \in Nat /\ p.draft.revision \in Nat
  BY BoundsAssumption DEF TypeOK, Plans, Draft
<1>3. QED
  BY <1>1, <1>2 DEF PlanOK, Grows, Shape, PickedOK, ListFor

LEMMA ReviewedStays ==
    ASSUME TypeOK, Grows, NEW changes, NEW collected, NEW c,
           AsReviewed(changes, collected, c)
    PROVE  AsReviewed(changes, collected, c)'
<1>1. odoo.version \in Nat
  BY DEF TypeOK
<1>2. odoo.version > 1 => odoo'.version > 1
  BY <1>1 DEF Grows
<1>3. QED
  BY <1>2 DEF AsReviewed

LEMMA TurnStays ==
    ASSUME TypeOK, TypeOK', OdooOK, Grows, NEW t \in Turn, TurnOK(t)
    PROVE  TurnOK(t)'
<1>1. /\ Len(cards) \in Nat /\ Len(cards') \in Nat
      /\ Len(clicks) \in Nat /\ Len(clicks') \in Nat
      /\ conv.version \in Nat /\ conv'.version \in Nat
      /\ t.version \in Nat /\ t.card \in Nat /\ t.draft.revision \in Nat
  <2>1. t.version \in Nat /\ t.card \in Nat /\ t.draft \in Draft
    BY DEF Turn
  <2>2. t.draft.revision \in Nat
    BY <2>1, BoundsAssumption DEF Draft
  <2>3. QED
    BY <2>1, <2>2, BoundsAssumption DEF TypeOK
<1>2. PlanOK(t.plan)'
  BY PlanStays DEF TurnOK, Turn
<1>3. t.at = "resolve" => Answered(t)'
  <2> SUFFICES ASSUME t.at = "resolve" PROVE Answered(t)'
    OBVIOUS
  <2>1. Tight(t.draft, Fields \ Entered(t))'
    BY TightStays DEF TurnOK, Answered
  <2>2. QED
    BY <2>1 DEF TurnOK, Answered, Agree, PickedOK
<1>4. t.at \in {"save", "insert"} => Settled(t.draft)'
  BY SettledStays DEF TurnOK
<1>5. ASSUME t.click \in 1 .. Len(clicks)
      PROVE  t.click \in 1 .. Len(clicks') /\ clicks'[t.click] = clicks[t.click]
  BY <1>1, <1>5 DEF Grows
<1>6. t.at = "insert" =>
         AsReviewed(t.draft.changes, t.draft.collected, clicks[t.click])'
  <2> SUFFICES ASSUME t.at = "insert"
               PROVE  AsReviewed(t.draft.changes, t.draft.collected,
                                 clicks[t.click])'
    OBVIOUS
  <2>1. PICK c : c = clicks[t.click]
    OBVIOUS
  <2>2. AsReviewed(t.draft.changes, t.draft.collected, c)
    BY <2>1 DEF TurnOK
  <2>3. AsReviewed(t.draft.changes, t.draft.collected, c)'
    BY <2>2, ReviewedStays
  <2>4. clicks'[t.click] = c
    BY <1>5, <2>1 DEF TurnOK
  <2>5. QED
    BY <2>3, <2>4 DEF AsReviewed
<1>7. QED
  BY <1>1, <1>2, <1>3, <1>4, <1>5, <1>6 DEF TurnOK, Grows, PickedOK, Fits

-----------------------------------------------------------------------------
(* Steps of a turn                                                         *)

\* A form that gets on display is one that was, or has a new revision.
LEMMA ViewsStay ==
    ASSUME ViewsOK, conv.version \in Nat, conv'.version \in Nat,
           conv.version <= conv'.version,
           NEW x, Views' \subseteq Views \cup {x},
           \/ x \in Views
           \/ x.revision \in (conv.version + 1) .. conv'.version
    PROVE  ViewsOK'
<1>1. \A y \in Views' : y.revision \in 0 .. conv'.version
  BY DEF ViewsOK
<1>2. OneForm(Views')
  BY DEF ViewsOK, OneForm
<1>3. QED
  BY <1>1, <1>2 DEF ViewsOK, OneForm

LEMMA HeldAfter ==
    ASSUME TypeOK, NEW w \in Workers, NEW r \in Turn,
           turn' = [turn EXCEPT ![w] = r]
    PROVE  Held' \subseteq Held \cup {conv'.draft} \cup
                     {d \in {r.plan.draft} : ~r.plan.form}
BY DEF Held, TypeOK

LEMMA TurnStep ==
    ASSUME ProfileIInv, NEW w \in Workers, NEW r \in Turn,
           turn' = [turn EXCEPT ![w] = r],
           UNCHANGED <<conv, clicks, cards, odoo>>,
           TurnOK(r), Sees(r),
           ~r.plan.form /\ r.plan.draft.displayed
              => View(r.plan.draft) \in Views
    PROVE  ProfileIInv'
<1>1. TypeOK'
  BY DEF ProfileIInv, TypeOK
<1>2. /\ turn'[w] = r
      /\ \A v \in Workers \ {w} : turn'[v] = turn[v]
      /\ \A v \in Workers : turn[v] \in Turn
  BY DEF ProfileIInv, TypeOK
<1>3. Grows
  <2>1. conv.version \in Nat /\ Len(clicks) \in Nat /\ Len(cards) \in Nat
    BY BoundsAssumption DEF ProfileIInv, TypeOK
  <2>2. QED
    BY <2>1 DEF Grows
<1>4. OdooOK' /\ ClicksOK' /\ CardsOK' /\ CardsFit'
  BY DEF ProfileIInv, OdooOK, ClicksOK, CardsOK, CardsFit, Shape, PickedOK,
         ListFor, Fits
<1>5. ConvOK'
  <2>1. Settled(conv.draft)'
    BY DEF ProfileIInv, ConvOK, Settled, Agree, Tight, Accounted
  <2>2. QED
    BY <2>1 DEF ProfileIInv, ConvOK, Shape, PickedOK, ListFor
<1>6. CardsReviewed'
  BY DEF ProfileIInv, CardsReviewed, AsReviewed
<1>8. Turns' \subseteq Turns \cup {r}
  BY <1>2 DEF Turns
<1>9. ASSUME NEW t \in Turns'
      PROVE  TurnOK(t)' /\ Sees(t)'
  <2>1. t \in Turn
    BY <1>2, <1>8 DEF Turns
  <2>2. TurnOK(t) /\ Sees(t)
    BY <1>8 DEF ProfileIInv
  <2>3. TurnOK(t)'
    BY <1>1, <1>3, <2>1, <2>2, TurnStays DEF ProfileIInv
  <2>4. QED
    BY <2>2, <2>3 DEF Sees, Kept, Excused, Taken, Stray
<1>10. ViewsOK'
  <2>1. PICK x : x = View(r.plan.draft)
    OBVIOUS
  <2>2. conv.draft \in Held
    BY DEF Held
  <2>3. Held' \subseteq Held \cup {d \in {r.plan.draft} : ~r.plan.form}
    BY <2>2, HeldAfter DEF ProfileIInv
  <2>4. CASE ~r.plan.form /\ r.plan.draft.displayed
    <3>1. Views' \subseteq Views \cup {x}
      BY <2>1, <2>3 DEF Views, View
    <3>2. QED
      BY <2>1, <2>4, <3>1, ViewsStay, BoundsAssumption DEF ProfileIInv, TypeOK
  <2>5. CASE ~(~r.plan.form /\ r.plan.draft.displayed)
    <3>1. Views' \subseteq Views
      BY <2>3, <2>5 DEF Views, View
    <3>2. QED
      BY <3>1 DEF ProfileIInv, ViewsOK, OneForm
  <2>6. QED
    BY <2>4, <2>5
<1>11. QED
  BY <1>1, <1>4, <1>5, <1>6, <1>9, <1>10 DEF ProfileIInv

LEMMA TurnIs ==
    ASSUME ProfileIInv, NEW w \in Workers
    PROVE  turn[w] \in Turn /\ TurnOK(turn[w]) /\ Sees(turn[w])
BY DEF ProfileIInv, TypeOK, Turns

LEMMA StoringIs ==
    ASSUME NEW t \in Turn, NEW plan \in Plans
    PROVE  LET r == Storing(t, plan)
           IN  /\ r \in Turn
               /\ r.at = "store"
               /\ r.kind = t.kind
               /\ r.version = t.version
               /\ r.act = t.act
               /\ r.answered = t.answered
               /\ r.snapshot = t.snapshot
               /\ r.plan = plan
               /\ plan.then = "resolve" => r.draft = t.draft
<1>1. PICK draft \in Draft : draft = IF plan.then = "resolve" THEN t.draft
                                                             ELSE NoDraft
  BY NoDraftIsDraft DEF Turn
<1>2. Storing(t, plan) = [t EXCEPT !.at = "store", !.plan = plan, !.card = 0,
                                   !.click = 0, !.draft = draft]
  BY <1>1 DEF Storing
<1>3. 0 \in Nat /\ 0 \in 0 .. MaxClicks
  BY BoundsAssumption
<1>4. PICK r : r = Storing(t, plan)
  OBVIOUS
<1>5. r \in Turn
  BY <1>2, <1>3, <1>4 DEF Turn
<1>6. /\ r.at = "store" /\ r.kind = t.kind /\ r.version = t.version
      /\ r.act = t.act /\ r.answered = t.answered
      /\ r.snapshot = t.snapshot /\ r.plan = plan /\ r.draft = draft
  BY <1>2, <1>4 DEF Turn
<1>7. QED
  BY <1>1, <1>4, <1>5, <1>6

\* A turn that goes on to store its plan.
LEMMA StoresStep ==
    ASSUME ProfileIInv, NEW w \in Workers, NEW r \in Turn,
           turn' = [turn EXCEPT ![w] = r],
           UNCHANGED <<conv, clicks, cards, odoo>>,
           r.at = "store", r.version <= conv.version, PlanOK(r.plan),
           r.plan.then = "resolve" => Anew(r),
           ~r.plan.form /\ r.plan.draft.displayed
              => View(r.plan.draft) \in Views,
           r.version = conv.version /\ r.kind # "confirm" =>
              \/ Kept(r, r.plan.draft.changes)
              \/ r.kind = "stop"
              \/ r.act \in {"cancel", "switch_discard"}
              \/ r.act \in {"submit", "save_draft"}
                    /\ r.plan.status # "awaiting_clarification"
    PROVE  ProfileIInv'
<1>1. TurnOK(r)
  BY DEF TurnOK
<1>2. Sees(r)
  BY DEF Sees
<1>3. QED
  BY <1>1, <1>2, TurnStep

\* The same, from the turn and its plan.
LEMMA StoringStep ==
    ASSUME ProfileIInv, NEW w \in Workers, NEW t \in Turn, NEW plan \in Plans,
           turn' = [turn EXCEPT ![w] = Storing(t, plan)],
           UNCHANGED <<conv, clicks, cards, odoo>>,
           t.version <= conv.version, PlanOK(plan),
           plan.then = "resolve" => Anew(t),
           ~plan.form /\ plan.draft.displayed => View(plan.draft) \in Views,
           t.version = conv.version /\ t.kind # "confirm" =>
              \/ Kept(t, plan.draft.changes)
              \/ t.kind = "stop"
              \/ t.act \in {"cancel", "switch_discard"}
              \/ t.act \in {"submit", "save_draft"}
                    /\ plan.status # "awaiting_clarification"
    PROVE  ProfileIInv'
<1>1. PICK r \in Turn : r = Storing(t, plan)
  BY StoringIs
<1>2. /\ r.at = "store" /\ r.kind = t.kind /\ r.version = t.version
      /\ r.act = t.act /\ r.answered = t.answered
      /\ r.snapshot = t.snapshot /\ r.plan = plan
  BY <1>1, StoringIs
<1>3. Kept(t, plan.draft.changes) => Kept(r, plan.draft.changes)
  BY <1>2 DEF Kept, Excused, Stray
<1>4. turn' = [turn EXCEPT ![w] = r]
  BY <1>1
<1>8. r.plan.then = "resolve" => Anew(r)
  <2>1. plan.then = "resolve" => r.draft = t.draft
    BY <1>1, StoringIs
  <2>2. QED
    BY <1>2, <2>1 DEF Anew
<1>5. /\ PlanOK(r.plan) /\ r.version <= conv.version
      /\ ~r.plan.form /\ r.plan.draft.displayed
            => View(r.plan.draft) \in Views
  BY <1>2
<1>6. r.version = conv.version /\ r.kind # "confirm" =>
         \/ Kept(r, r.plan.draft.changes)
         \/ r.kind = "stop"
         \/ r.act \in {"cancel", "switch_discard"}
         \/ r.act \in {"submit", "save_draft"}
               /\ r.plan.status # "awaiting_clarification"
  BY <1>2, <1>3
<1>7. QED
  BY <1>2, <1>4, <1>5, <1>6, <1>8, StoresStep

\* The turn of a request, with its copy of the row.
LEMMA LoadedIs ==
    ASSUME TypeOK, NEW r, r.kind \in {"query", "other", "stop", "text",
                                      "option", "edit", "action"},
           NEW click \in 0 .. MaxClicks, NEW draft \in Draft
    PROVE  LET t == [Loaded(r, click) EXCEPT !.draft = draft]
           IN  /\ t \in Turn
               /\ t.at = "idle"
               /\ t.kind = r.kind
               /\ t.version = conv.version
               /\ t.draft = draft
               /\ t.card = conv.card
               /\ t.act = "none"
               /\ t.answered = "none"
               /\ t.click = click
               /\ t.plan = NoPlan
<1>1. /\ conv.version \in Nat /\ conv.card \in Nat /\ conv.draft \in Draft
  BY BoundsAssumption DEF TypeOK
<1>2. [Loaded(r, click) EXCEPT !.draft = draft] =
        [Idle EXCEPT !.kind = r.kind, !.version = conv.version,
                     !.draft = draft, !.card = conv.card, !.click = click]
  BY IdleIsTurn DEF Loaded, Idle
<1>3. /\ Idle.at = "idle" /\ Idle.act = "none" /\ Idle.answered = "none"
      /\ Idle.plan = NoPlan
  BY DEF Idle
<1>4. QED
  BY <1>1, <1>2, <1>3, IdleIsTurn DEF Turn

\* The draft on display is one of the forms.
LEMMA ConvView == conv.draft.displayed => View(conv.draft) \in Views
BY DEF Views, Held

LEMMA NoPlanOK ==
    ASSUME TypeOK
    PROVE  PlanOK(NoPlan)
<1>1. NoPlan = Clear("end")
  BY ClearIsPlan DEF NoPlan
<1>2. QED
  BY <1>1, ClearPlanOK

\* The row and the draft it holds.
LEMMA ConvIs ==
    ASSUME ProfileIInv
    PROVE  /\ conv.draft \in Draft /\ conv.version \in Nat
           /\ conv.draft.revision \in 0 .. conv.version
           /\ conv.draft.displayed => conv.draft.revision > 0
           /\ Shape(conv.draft) /\ Settled(conv.draft)
           /\ conv.status # "awaiting_clarification" => conv.draft = NoDraft
           /\ Len(cards) \in Nat
<1>1. conv.draft \in Draft /\ conv.version \in Nat /\ Len(cards) \in Nat
  BY BoundsAssumption DEF ProfileIInv, TypeOK
<1>2. conv.draft.revision \in 0 .. conv.version
  BY <1>1, BoundsAssumption DEF ProfileIInv, TypeOK, Draft
<1>3. QED
  BY <1>1, <1>2 DEF ProfileIInv, TypeOK, ConvOK

\* The guard puts the draft aside as it is.
LEMMA GuardPlanOK ==
    ASSUME ProfileIInv
    PROVE  PlanOK(Guard(conv.draft))
<1>1. PICK p : p = Guard(conv.draft)
  OBVIOUS
<1>2. /\ p.status = "awaiting_clarification"
      /\ p.card = 0 /\ ~p.form /\ p.then = "end"
      /\ p.draft.revision = conv.draft.revision
      /\ p.draft.current = "profile_edit_action"
      /\ "submit" \notin p.draft.offers
      /\ p.draft.displayed = conv.draft.displayed
      /\ p.draft.shown = conv.draft.shown
      /\ p.draft.keys = conv.draft.keys
      /\ p.draft.changes = conv.draft.changes
      /\ p.draft.collected = Empty
      /\ p.draft.picked = conv.draft.picked
      /\ p.draft.set = conv.draft.set
  BY <1>1, GuardIsPlan, ConvIs
<1>3. Settled(p.draft)
  BY <1>2, EmptySettles
<1>4. Shape(p.draft)
  BY <1>2, ConvIs DEF Shape, PickedOK, Fields
<1>5. PlanOK(p)
  BY <1>2, <1>3, <1>4, ConvIs DEF PlanOK
<1>6. QED
  BY <1>1, <1>5

\* A new query puts the draft aside, drops what is open, or starts an edit.
LEMMA NewQueryStep ==
    ASSUME ProfileIInv, NEW w \in Workers, NEW click \in 0 .. MaxClicks,
           NEW q, q.kind \in {"query", "other", "stop", "text", "option",
                              "edit", "action"},
           q.kind = "query" => q.keys \in SUBSET Fields,
           Answering => q.kind \in {"query", "other"},
           NewQuery(w, q, click)
    PROVE  ProfileIInv'
<1>1. Fresh(q) \in Draft /\ Fresh(q).revision = 0
      /\ Fresh(q).collected = Empty /\ Fresh(q).picked = Nothing
  BY NoDraftIsDraft DEF Fresh, NoDraft, Draft
<1>2. PICK t : t = [Loaded(q, click) EXCEPT !.draft = Fresh(q)]
  OBVIOUS
<1>3. /\ t \in Turn
      /\ t.kind = q.kind /\ t.version = conv.version
      /\ t.draft = Fresh(q) /\ t.card = conv.card
      /\ t.act = "none" /\ t.answered = "none" /\ t.plan = NoPlan
  BY <1>1, <1>2, LoadedIs DEF ProfileIInv
<1>4. After(q) \in {"end", "resolve"}
  BY DEF After
<1>5. PICK clear \in Plans : clear = Clear(After(q)) /\ PlanOK(clear)
  BY <1>4, ClearIsPlan, ClearPlanOK DEF ProfileIInv
<1>6. clear.draft = NoDraft /\ ~clear.draft.displayed
  <2>1. clear.draft = NoDraft
    BY <1>4, <1>5, ClearIsPlan
  <2>2. NoDraft.displayed = FALSE
    BY DEF NoDraft
  <2>3. QED
    BY <2>1, <2>2
<1>12. t.version <= conv.version /\ Anew(t)
  BY <1>1, <1>3, ConvIs DEF Anew
<1>7. CASE Guarded(q) /\ Begin(w, Storing(t, Guard(conv.draft)))
  <2>1. PICK plan : plan = Guard(conv.draft)
    OBVIOUS
  <2>2. /\ plan \in Plans /\ PlanOK(plan)
        /\ plan.draft.changes = conv.draft.changes
        /\ plan.draft.revision = conv.draft.revision
        /\ plan.draft.displayed = conv.draft.displayed
    BY <2>1, ConvIs, GuardIsPlan, GuardPlanOK
  <2>3. /\ turn' = [turn EXCEPT ![w] = Storing(t, plan)]
        /\ UNCHANGED <<conv, clicks, cards, odoo>>
    BY <1>7, <2>1 DEF Begin
  <2>4. Kept(t, plan.draft.changes)
    BY <2>2 DEF Kept, Keys
  <2>5. plan.draft.displayed => View(plan.draft) \in Views
    BY <2>2, ConvView DEF View
  <2>6. QED
    BY <1>3, <1>12, <2>2, <2>3, <2>4, <2>5, StoringStep
<1>8. CASE Answering /\ ~Guarded(q) /\ Begin(w, Storing(t, clear))
  <2>1. /\ turn' = [turn EXCEPT ![w] = Storing(t, clear)]
        /\ UNCHANGED <<conv, clicks, cards, odoo>>
    BY <1>8 DEF Begin
  <2>2. Keys(conv.draft.changes) = {}
    BY <1>8 DEF Guarded
  <2>3. Kept(t, clear.draft.changes)
    BY <2>2 DEF Kept
  <2>4. QED
    BY <1>3, <1>5, <1>6, <1>12, <2>1, <2>3, StoringStep
<1>9. CASE /\ conv.status = "awaiting_confirmation"
           /\ Begin(w, [t EXCEPT !.at = "drop", !.plan = clear])
  <2>1. PICK r : r = [t EXCEPT !.at = "drop", !.plan = clear]
    OBVIOUS
  <2>2. /\ r \in Turn /\ r.at = "drop" /\ r.plan = clear
        /\ r.version = conv.version /\ r.card = conv.card
        /\ r.draft = t.draft /\ r.act = t.act /\ r.answered = t.answered
    BY <1>3, <1>5, <2>1 DEF Turn
  <2>3. turn' = [turn EXCEPT ![w] = r] /\ UNCHANGED <<conv, clicks, cards, odoo>>
    BY <1>9, <2>1 DEF Begin
  <2>4. conv.card \in 1 .. Len(cards)
    BY <1>9, ConvIs DEF ProfileIInv, TypeOK
  <2>5. TurnOK(r)
    BY <1>3, <1>5, <1>12, <2>2, <2>4 DEF TurnOK, Anew
  <2>6. conv.draft = NoDraft
    BY <1>9, ConvIs
  <2>7. Sees(r)
    BY <2>2, <2>6 DEF Sees
  <2>8. QED
    BY <1>6, <2>2, <2>3, <2>5, <2>7, TurnStep
<1>10. CASE /\ conv.status = "closed" /\ q.kind = "query"
            /\ Begin(w, [t EXCEPT !.at = "resolve"])
  <2>1. PICK r : r = [t EXCEPT !.at = "resolve"]
    OBVIOUS
  <2>2. /\ r \in Turn /\ r.at = "resolve" /\ r.plan = NoPlan
        /\ r.version = conv.version /\ r.draft = Fresh(q)
        /\ r.act = "none" /\ r.answered = "none"
    BY <1>3, <2>1 DEF Turn
  <2>3. turn' = [turn EXCEPT ![w] = r] /\ UNCHANGED <<conv, clicks, cards, odoo>>
    BY <1>10, <2>1 DEF Begin
  <2>4. Answered(r)
    BY <1>1, <2>2 DEF Answered, PickedOK, Agree, Tight, Keys,
                      Empty, Fields
  <2>5. TurnOK(r)
    BY <1>1, <2>2, <2>4, NoPlanOK, ConvIs DEF TurnOK, ProfileIInv
  <2>6. conv.draft = NoDraft
    BY <1>10, ConvIs
  <2>7. Sees(r)
    BY <2>2, <2>6 DEF Sees
  <2>8. ~r.plan.draft.displayed
    BY <2>2 DEF NoPlan, NoDraft
  <2>9. QED
    BY <2>2, <2>3, <2>5, <2>7, <2>8, TurnStep
<1>11. QED
  BY <1>2, <1>5, <1>7, <1>8, <1>9, <1>10 DEF NewQuery

\* A turn that has loaded the row goes on to resolve.
LEMMA ResolvingStep ==
    ASSUME ProfileIInv, NEW w \in Workers, NEW r \in Turn,
           turn' = [turn EXCEPT ![w] = r],
           UNCHANGED <<conv, clicks, cards, odoo>>,
           r.at = "resolve", r.plan = NoPlan, r.version = conv.version,
           r.draft.revision = conv.draft.revision,
           r.draft.changes = conv.draft.changes,
           \/ r.draft.collected = conv.draft.collected
           \/ r.answered # "none"
           \/ "parent" \in r.draft.keys
           \/ r.draft.collected["child"] # Nothing,
           Answered(r),
           r.act = "submit" => /\ r.click \in 1 .. Len(clicks)
                               /\ clicks[r.click].reviewing
                               /\ clicks[r.click].form = r.draft.changes
    PROVE  ProfileIInv'
<1>1. PlanOK(r.plan)
  BY NoPlanOK DEF ProfileIInv
<1>2. TurnOK(r)
  BY <1>1, ConvIs DEF TurnOK
<1>3. Sees(r)
  <2>1. ASSUME Taken(r) PROVE Stray(conv.draft)
    BY <2>1 DEF Taken, Stray, Keys, Fields
  <2>2. QED
    BY <2>1 DEF Sees
<1>4. ~r.plan.draft.displayed
  BY DEF NoPlan, NoDraft
<1>5. QED
  BY <1>2, <1>3, <1>4, TurnStep

\* An answer that is written into a settled draft.
LEMMA AnswerIsGiven ==
    ASSUME NEW d \in Draft, Settled(d), NEW field \in Fields,
           NEW value \in Values \cup Typed, NEW t \in Turn, PickedOK(t.draft),
           t.draft.collected[field] = value,
           \A f \in Fields \ {field} : t.draft.collected[f] = d.collected[f],
           t.draft.changes = d.changes,
           t.draft.keys = d.keys, t.act = "none",
           \/ field \in d.keys
           \/ t.answered = field /\ d.keys = {},
           \/ t.answered = field
           \/ t.answered = "none" /\ d.changes[field] = Nothing
    PROVE  Answered(t)
<1>1. value # Nothing
  BY NothingAssumption
<1>2. Agree(t.draft, Fields \ {t.answered})
  BY DEF Settled, Agree
<1>3. Tight(t.draft, Fields \ Entered(t))
  <2> SUFFICES ASSUME NEW f \in Fields \ Entered(t),
                      t.draft.collected[f] # Nothing, t.draft.changes[f] = Nothing
               PROVE  Accounted(t.draft, f)
    BY DEF Tight
  <2>1. f # field
    BY DEF Entered
  <2>2. Accounted(d, f)
    BY <2>1 DEF Settled, Tight
  <2>3. d.collected["parent"] # Nothing => t.draft.collected["parent"] # Nothing
    BY <1>1 DEF Fields
  <2>4. QED
    BY <2>1, <2>2, <2>3 DEF Accounted
<1>4. QED
  BY <1>1, <1>2, <1>3 DEF Answered, Fields

LEMMA MessageStep ==
    ASSUME ProfileIInv, NEW w \in Workers, Message(w)
    PROVE  ProfileIInv'
<1>1. PICK q \in Messages :
         LET t == Loaded(q, 0)
             d == conv.draft
         IN  \/ /\ q.kind \in {"query", "other"}
                /\ NewQuery(w, q, 0)
             \/ /\ q.kind = "stop"
                /\ conv.status # "closed"
                /\ Begin(w, Storing(t, Clear("end")))
             \/ /\ q.kind \in {"text", "option"}
                /\ conv.status = "awaiting_confirmation"
                /\ NewQuery(w, q, 0)
             \/ /\ q.kind = "text"
                /\ Answering
                /\ Begin(w, [t EXCEPT !.at = "resolve",
                      !.draft = IF d.current \in Fields
                                THEN Merged(d, d.current, q.value)
                                ELSE [d EXCEPT !.current = "none"]])
             \/ /\ q.kind = "option"
                /\ Answering
                /\ q.field = d.current
                /\ q.value \in OptionsOf(q.field, d.changes["parent"])
                /\ Begin(w, [t EXCEPT !.at = "resolve",
                                      !.answered = q.field,
                                      !.draft = Merged(d, q.field, q.value)])
  BY DEF Message
<1>2. /\ q.kind \in {"query", "other", "stop", "text", "option"}
      /\ q.kind = "query" => q.keys \in SUBSET Fields
      /\ q.kind = "text" => q.value \in Typed
      /\ q.kind = "option" => q.field \in Fields /\ q.value \in Values
  BY QueriesAssumption DEF Messages
<1>3. PICK d \in Draft : d = conv.draft
  BY ConvIs
<1>4. /\ Shape(d) /\ Settled(d) /\ PickedOK(d)
      /\ d.revision \in 0 .. conv.version
  BY <1>3, ConvIs DEF Shape
<1>5. PICK t : t = Loaded(q, 0)
  OBVIOUS
<1>6. /\ t \in Turn /\ t.kind = q.kind /\ t.version = conv.version
      /\ t.draft = d /\ t.act = "none" /\ t.answered = "none"
      /\ t.plan = NoPlan
  <2>1. 0 \in 0 .. MaxClicks
    BY BoundsAssumption
  <2>2. PICK u : u = [Loaded(q, 0) EXCEPT !.draft = d]
    OBVIOUS
  <2>3. /\ u \in Turn /\ u.kind = q.kind /\ u.version = conv.version
        /\ u.draft = d /\ u.act = "none" /\ u.answered = "none"
        /\ u.plan = NoPlan
    BY <1>2, <2>1, <2>2, LoadedIs DEF ProfileIInv
  <2>4. u = t
    BY <1>3, <1>5, <2>2 DEF Loaded, Idle
  <2>5. QED
    BY <2>3, <2>4
<1>7. CASE q.kind \in {"query", "other"} /\ NewQuery(w, q, 0)
  BY <1>2, <1>7, NewQueryStep, BoundsAssumption
<1>8. CASE q.kind = "stop" /\ Begin(w, Storing(t, Clear("end")))
  <2>1. PICK plan \in Plans : /\ plan = Clear("end") /\ PlanOK(plan)
                              /\ plan.draft = NoDraft
    BY ClearIsPlan, ClearPlanOK DEF ProfileIInv
  <2>2. plan.draft.displayed = FALSE /\ plan.then = "end"
    BY <2>1, ClearIsPlan DEF NoDraft
  <2>3. /\ turn' = [turn EXCEPT ![w] = Storing(t, plan)]
        /\ UNCHANGED <<conv, clicks, cards, odoo>>
    BY <1>8, <2>1 DEF Begin
  <2>4. t.version <= conv.version
    BY <1>6, ConvIs
  <2>5. t.kind = "stop"
    BY <1>6, <1>8
  <2>6. QED
    BY <1>6, <2>1, <2>2, <2>3, <2>4, <2>5, StoringStep
<1>9. CASE /\ conv.status = "awaiting_confirmation"
           /\ NewQuery(w, q, 0)
  BY <1>2, <1>9, NewQueryStep, BoundsAssumption DEF Answering
<1>10. CASE q.kind = "text" /\
            Begin(w, [t EXCEPT !.at = "resolve",
                      !.draft = IF d.current \in Fields
                                THEN Merged(d, d.current, q.value)
                                ELSE [d EXCEPT !.current = "none"]])
  <2>1. CASE d.current \in Fields
    <3>1. PICK e \in Draft : e = Merged(d, d.current, q.value)
      BY <1>2, <1>10, <2>1, MergedIsDraft
    <3>2. /\ e.revision = d.revision /\ e.keys = d.keys
          /\ e.changes = d.changes
          /\ e.picked = d.picked /\ e.set = d.set
          /\ e.collected[d.current] = q.value
          /\ \A f \in Fields \ {d.current} : e.collected[f] = d.collected[f]
      BY <1>2, <1>10, <2>1, <3>1, MergedIsDraft
    <3>3. PICK r : r = [t EXCEPT !.at = "resolve", !.draft = e]
      OBVIOUS
    <3>4. /\ r \in Turn /\ r.at = "resolve" /\ r.draft = e
          /\ r.version = conv.version /\ r.plan = NoPlan
          /\ r.act = "none" /\ r.answered = "none"
      BY <1>6, <3>3 DEF Turn
    <3>5. /\ turn' = [turn EXCEPT ![w] = r]
          /\ UNCHANGED <<conv, clicks, cards, odoo>>
      BY <1>10, <2>1, <3>1, <3>3 DEF Begin
    <3>6. PickedOK(r.draft)
      BY <1>4, <3>2, <3>4 DEF PickedOK
    <3>7. d.current \in d.keys /\ d.changes[d.current] = Nothing
      BY <1>4, <2>1 DEF Shape
    <3>8. Answered(r)
      <4>1. PICK field \in Fields : field = d.current
        BY <2>1
      <4>2. PICK value \in Typed : value = q.value
        BY <1>2, <1>10
      <4>3. /\ r.draft.collected[field] = value
            /\ \A f \in Fields \ {field} : r.draft.collected[f] = d.collected[f]
            /\ r.draft.changes = d.changes
            /\ r.draft.keys = d.keys /\ field \in d.keys
            /\ r.answered = "none" /\ d.changes[field] = Nothing
        BY <3>2, <3>4, <3>7, <4>1, <4>2
      <4>4. r \in Turn /\ r.act = "none" /\ value \in Values \cup Typed
        BY <3>4
      <4>5. QED
        BY <1>4, <3>6, <4>3, <4>4, AnswerIsGiven
    <3>9. "parent" \in r.draft.keys \/ r.draft.collected["child"] # Nothing
      <4>1. q.value # Nothing
        BY <1>2, <1>10, NothingAssumption
      <4>2. CASE d.current = "parent"
        BY <3>2, <3>4, <3>7, <4>2
      <4>3. CASE d.current = "child"
        BY <3>2, <3>4, <4>1, <4>3
      <4>4. QED
        BY <2>1, <4>2, <4>3 DEF Fields
    <3>10. QED
      BY <1>3, <3>2, <3>4, <3>5, <3>8, <3>9, ResolvingStep
  <2>2. CASE d.current \notin Fields
    <3>1. PICK e \in Draft : e = [d EXCEPT !.current = "none"]
      BY DEF Draft
    <3>2. /\ e.revision = d.revision /\ e.keys = d.keys
          /\ e.changes = d.changes
          /\ e.picked = d.picked /\ e.set = d.set
          /\ e.collected = d.collected
      BY <3>1 DEF Draft
    <3>3. PICK r : r = [t EXCEPT !.at = "resolve", !.draft = e]
      OBVIOUS
    <3>4. /\ r \in Turn /\ r.at = "resolve" /\ r.draft = e
          /\ r.version = conv.version /\ r.plan = NoPlan
          /\ r.act = "none" /\ r.answered = "none"
      BY <1>6, <3>3 DEF Turn
    <3>5. /\ turn' = [turn EXCEPT ![w] = r]
          /\ UNCHANGED <<conv, clicks, cards, odoo>>
      BY <1>10, <2>2, <3>1, <3>3 DEF Begin
    <3>6. Answered(r)
      BY <1>4, <3>2, <3>4
      DEF Answered, Settled, Agree, Tight, Accounted, PickedOK,
          Fields
    <3>7. QED
      BY <1>3, <3>2, <3>4, <3>5, <3>6, ResolvingStep
  <2>3. QED
    BY <2>1, <2>2
<1>11. CASE /\ q.kind = "option"
            /\ q.field = d.current
            /\ Begin(w, [t EXCEPT !.at = "resolve", !.answered = q.field,
                                  !.draft = Merged(d, q.field, q.value)])
  <2>1. PICK e \in Draft : e = Merged(d, q.field, q.value)
    BY <1>2, <1>11, MergedIsDraft
  <2>2. /\ e.revision = d.revision /\ e.keys = d.keys
        /\ e.changes = d.changes
        /\ e.picked = d.picked /\ e.set = d.set
        /\ e.collected[q.field] = q.value
        /\ \A f \in Fields \ {q.field} : e.collected[f] = d.collected[f]
    BY <1>2, <1>11, <2>1, MergedIsDraft
  <2>3. PICK r : r = [t EXCEPT !.at = "resolve", !.answered = q.field,
                               !.draft = e]
    OBVIOUS
  <2>4. /\ r \in Turn /\ r.at = "resolve" /\ r.draft = e
        /\ r.version = conv.version /\ r.plan = NoPlan
        /\ r.act = "none" /\ r.answered = q.field
    BY <1>2, <1>6, <1>11, <2>3 DEF Turn
  <2>5. /\ turn' = [turn EXCEPT ![w] = r]
        /\ UNCHANGED <<conv, clicks, cards, odoo>>
    BY <1>11, <2>1, <2>3 DEF Begin
  <2>6. PickedOK(r.draft)
    BY <1>4, <2>2, <2>4 DEF PickedOK
  <2>7. q.field \in d.keys
    BY <1>2, <1>4, <1>11 DEF Shape
  <2>8. Answered(r)
    <3>1. PICK field \in Fields : field = q.field
      BY <1>2, <1>11
    <3>2. PICK value \in Values : value = q.value
      BY <1>2, <1>11
    <3>3. /\ r.draft.collected[field] = value
          /\ \A f \in Fields \ {field} : r.draft.collected[f] = d.collected[f]
          /\ r.draft.changes = d.changes
          /\ r.draft.keys = d.keys /\ field \in d.keys
          /\ r.answered = field
      BY <2>2, <2>4, <2>7, <3>1, <3>2
    <3>4. r \in Turn /\ r.act = "none" /\ value \in Values \cup Typed
      BY <2>4
    <3>5. QED
      BY <1>4, <2>6, <3>3, <3>4, AnswerIsGiven
  <2>9. r.answered # "none"
    BY <1>2, <1>11, <2>4 DEF Fields
  <2>10. QED
    BY <1>3, <2>2, <2>4, <2>5, <2>8, <2>9, ResolvingStep
<1>12. QED
  BY <1>1, <1>3, <1>5, <1>7, <1>8, <1>9, <1>10, <1>11

LEMMA DeliverStep ==
    ASSUME ProfileIInv, NEW w \in Workers, Deliver(w)
    PROVE  ProfileIInv'
<1>1. PICK i \in 1 .. Len(clicks) :
         LET c == clicks[i]
             d == conv.draft
             t == Loaded(c, i)
         IN  \/ ~Answering /\ NewQuery(w, c, i)
             \/ /\ Answering
                /\ CurrentForm(c)
                /\ c.kind = "action"
                /\ c.action \in d.offers
                /\ Begin(w, [t EXCEPT !.at = "resolve", !.act = c.action,
                                      !.draft.current = "none",
                                      !.draft.offers = {}])
             \/ /\ Answering
                /\ CurrentForm(c)
                /\ c.kind = "edit"
                /\ c.field \in d.shown
                /\ c.value \in OptionsOf(c.field, d.context)
                /\ Begin(w, [t EXCEPT
                      !.at = "resolve",
                      !.answered = c.field,
                      !.draft = Picked(Merged(d, c.field, c.value),
                                       c.field, c.value)])
  BY DEF Deliver
<1>2. PICK c : c = clicks[i]
  OBVIOUS
<1>3. /\ c \in Clicks
      /\ i \in 0 .. MaxClicks
      /\ c.kind = "action" /\ c.action = "submit" => c.reviewing
  <2>1. clicks \in Seq(Clicks) /\ Len(clicks) \in Nat /\ MaxClicks \in Nat
    BY BoundsAssumption DEF ProfileIInv, TypeOK
  <2>2. c \in Clicks
    BY <1>2, <2>1
  <2>3. QED
    BY <1>2, <2>1, <2>2 DEF ProfileIInv, ClicksOK
<1>4. /\ c.kind \in {"edit", "action"}
      /\ c.kind = "action" => c.action \in EditActions
      /\ c.kind = "edit" => c.field \in Fields /\ c.value \in Values
  BY <1>3 DEF Clicks
<1>5. PICK d \in Draft : d = conv.draft
  BY ConvIs
<1>6. /\ Shape(d) /\ Settled(d) /\ PickedOK(d)
      /\ d.revision \in 0 .. conv.version
  BY <1>5, ConvIs DEF Shape
<1>7. PICK t : t = Loaded(c, i)
  OBVIOUS
<1>8. /\ t \in Turn /\ t.version = conv.version
      /\ t.draft = d /\ t.act = "none" /\ t.answered = "none"
      /\ t.click = i /\ t.plan = NoPlan
  <2>1. PICK u : u = [Loaded(c, i) EXCEPT !.draft = d]
    OBVIOUS
  <2>2. /\ u \in Turn /\ u.version = conv.version
        /\ u.draft = d /\ u.act = "none" /\ u.answered = "none"
        /\ u.click = i /\ u.plan = NoPlan
    BY <1>3, <1>4, <2>1, LoadedIs DEF ProfileIInv
  <2>3. u = t
    BY <1>5, <1>7, <2>1 DEF Loaded, Idle
  <2>4. QED
    BY <2>2, <2>3
<1>9. CASE ~Answering /\ NewQuery(w, c, i)
  <2>1. c.kind # "query" /\ ~Answering
    BY <1>4, <1>9
  <2>2. QED
    BY <1>3, <1>4, <1>9, <2>1, NewQueryStep
<1>10. CASE /\ CurrentForm(c)
            /\ c.kind = "action"
            /\ c.action \in d.offers
            /\ Begin(w, [t EXCEPT !.at = "resolve", !.act = c.action,
                                  !.draft.current = "none",
                                  !.draft.offers = {}])
  <2>1. PICK e \in Draft : e = [d EXCEPT !.current = "none", !.offers = {}]
    BY DEF Draft
  <2>2. /\ e.revision = d.revision /\ e.keys = d.keys
        /\ e.changes = d.changes
        /\ e.picked = d.picked /\ e.set = d.set
        /\ e.collected = d.collected
    BY <2>1 DEF Draft
  <2>3. PICK r : r = [t EXCEPT !.at = "resolve", !.act = c.action,
                               !.draft = e]
    OBVIOUS
  <2>4. /\ r \in Turn /\ r.at = "resolve" /\ r.draft = e
        /\ r.version = conv.version /\ r.plan = NoPlan
        /\ r.act = c.action /\ r.answered = "none" /\ r.click = i
    BY <1>4, <1>8, <1>10, <2>3 DEF Turn
  <2>5. [t EXCEPT !.at = "resolve", !.act = c.action,
                  !.draft.current = "none", !.draft.offers = {}] = r
    BY <1>8, <2>1, <2>3 DEF Turn
  <2>6. /\ turn' = [turn EXCEPT ![w] = r]
        /\ UNCHANGED <<conv, clicks, cards, odoo>>
    BY <1>10, <2>5 DEF Begin
  <2>7. Answered(r)
    BY <1>6, <2>2, <2>4
    DEF Answered, Settled, Agree, Tight, Accounted, PickedOK,
        Fields
  \* The form on display is the one the click was made on.
  <2>8. ASSUME r.act = "submit"
        PROVE  /\ r.click \in 1 .. Len(clicks)
               /\ clicks[r.click].reviewing
               /\ clicks[r.click].form = r.draft.changes
    <3>1. d.displayed
      BY <1>6, <1>10, <2>4, <2>8 DEF Shape
    <3>2. View(d) \in Views
      BY <1>5, <3>1, ConvView
    <3>3. [revision |-> c.revision, form |-> c.form] \in Views
      BY <1>2 DEF Views
    <3>4. c.revision = d.revision
      BY <1>5, <1>10 DEF CurrentForm
    <3>5. c.form = d.changes
      BY <3>2, <3>3, <3>4 DEF ProfileIInv, ViewsOK, OneForm, View
    <3>6. c.reviewing
      BY <1>3, <1>10, <2>4, <2>8
    <3>7. QED
      BY <1>2, <2>2, <2>4, <3>5, <3>6
  <2>9. QED
    BY <1>5, <2>2, <2>4, <2>6, <2>7, <2>8, ResolvingStep
<1>11. CASE /\ c.kind = "edit"
            /\ c.field \in d.shown
            /\ c.value \in OptionsOf(c.field, d.context)
            /\ Begin(w, [t EXCEPT
                  !.at = "resolve",
                  !.answered = c.field,
                  !.draft = Picked(Merged(d, c.field, c.value),
                                   c.field, c.value)])
  <2>1. PICK field \in Fields : field = c.field
    BY <1>4, <1>11
  <2>2. PICK value \in Values : value = c.value
    BY <1>4, <1>11
  <2>3. PICK m \in Draft : m = Merged(d, field, value)
    BY MergedIsDraft
  <2>4. /\ m.revision = d.revision /\ m.context = d.context
        /\ m.keys = d.keys /\ m.changes = d.changes
        /\ m.picked = d.picked /\ m.set = d.set
        /\ m.collected[field] = value
        /\ \A f \in Fields \ {field} : m.collected[f] = d.collected[f]
    BY <2>3, MergedIsDraft
  <2>5. PICK e \in Draft : e = Picked(m, field, value)
    BY PickedIsDraft
  <2>6. /\ e.revision = d.revision /\ e.keys = d.keys
        /\ e.changes = d.changes
        /\ e.collected = m.collected
        /\ field = "child" => e.picked = value /\ e.set = d.context
        /\ field # "child" => e.picked = d.picked /\ e.set = d.set
    BY <2>4, <2>5, PickedIsDraft
  <2>7. PICK r : r = [t EXCEPT !.at = "resolve", !.answered = field,
                               !.draft = e]
    OBVIOUS
  <2>8. /\ r \in Turn /\ r.at = "resolve" /\ r.draft = e
        /\ r.version = conv.version /\ r.plan = NoPlan
        /\ r.act = "none" /\ r.answered = field
    BY <1>8, <2>7 DEF Turn
  <2>9. /\ turn' = [turn EXCEPT ![w] = r]
        /\ UNCHANGED <<conv, clicks, cards, odoo>>
    BY <1>11, <2>1, <2>2, <2>3, <2>5, <2>7 DEF Begin
  <2>10. PickedOK(r.draft)
    <3>1. CASE field = "child"
      <4>1. value \in ListFor(d.context)
        BY <1>11, <2>1, <2>2, <3>1 DEF OptionsOf
      <4>2. d.context # "unset"
        BY UnsetAssumption DEF Draft
      <4>3. QED
        BY <2>6, <2>8, <3>1, <4>1, <4>2 DEF PickedOK
    <3>2. CASE field # "child"
      BY <1>6, <2>6, <2>8, <3>2 DEF PickedOK
    <3>3. QED
      BY <3>1, <3>2
  <2>11. d.keys = {} \/ field \in d.keys
    BY <1>6, <1>11, <2>1 DEF Shape
  <2>12. /\ r.draft.collected[field] = value
         /\ \A f \in Fields \ {field} : r.draft.collected[f] = d.collected[f]
         /\ r.draft.changes = d.changes
         /\ r.draft.keys = d.keys
         /\ \/ field \in d.keys
            \/ r.answered = field /\ d.keys = {}
    BY <2>4, <2>6, <2>8, <2>11
  <2>13. value \in Values \cup Typed
    OBVIOUS
  <2>14. Answered(r)
    BY <1>6, <2>8, <2>10, <2>12, <2>13, AnswerIsGiven
  <2>15. r.answered # "none"
    BY <2>8 DEF Fields
  <2>16. QED
    BY <1>5, <2>6, <2>8, <2>9, <2>14, <2>15, ResolvingStep
<1>12. QED
  BY <1>1, <1>2, <1>5, <1>7, <1>9, <1>10, <1>11

\* A plan that leaves nothing is stored.
LEMMA ClearsStep ==
    ASSUME ProfileIInv, NEW w \in Workers, NEW t \in Turn,
           turn' = [turn EXCEPT ![w] = Storing(t, Clear("end"))],
           UNCHANGED <<conv, clicks, cards, odoo>>,
           t.version <= conv.version,
           \/ t.kind \in {"stop", "confirm"}
           \/ t.act \in {"cancel", "switch_discard", "submit", "save_draft"}
    PROVE  ProfileIInv'
<1>1. PICK plan \in Plans : /\ plan = Clear("end") /\ PlanOK(plan)
                            /\ plan.draft = NoDraft /\ plan.status = "closed"
  BY ClearIsPlan, ClearPlanOK DEF ProfileIInv
<1>2. plan.draft.displayed = FALSE /\ plan.then = "end"
  BY <1>1, ClearIsPlan DEF NoDraft
<1>3. turn' = [turn EXCEPT ![w] = Storing(t, plan)]
  BY <1>1
<1>4. QED
  BY <1>1, <1>2, <1>3, StoringStep

LEMMA LeaveStep ==
    ASSUME ProfileIInv, NEW w \in Workers, Leave(w)
    PROVE  ProfileIInv'
<1>1. PICK t \in Turn : t = turn[w] /\ TurnOK(t)
  BY TurnIs
<1>2. t.version <= conv.version /\ t.act \in {"cancel", "switch_discard"}
  BY <1>1 DEF TurnOK, Leave
<1>3. /\ turn' = [turn EXCEPT ![w] = Storing(t, Clear("end"))]
      /\ UNCHANGED <<conv, clicks, cards, odoo>>
  BY <1>1 DEF Leave
<1>4. QED
  BY <1>2, <1>3, ClearsStep

LEMMA VerifyDraftStep ==
    ASSUME ProfileIInv, NEW w \in Workers, VerifyDraft(w)
    PROVE  ProfileIInv'
<1>1. PICK t \in Turn : t = turn[w] /\ TurnOK(t)
  BY TurnIs
<1>2. t.version <= conv.version /\ t.act = "save_draft"
  BY <1>1 DEF TurnOK, VerifyDraft, At
<1>3. /\ turn' = [turn EXCEPT ![w] = Storing(t, Clear("end"))]
      /\ UNCHANGED <<conv, clicks, cards, odoo>>
  BY <1>1 DEF VerifyDraft
<1>4. QED
  BY <1>2, <1>3, ClearsStep

LEMMA EndStep ==
    ASSUME ProfileIInv, NEW w \in Workers, End(w),
           UNCHANGED <<conv, clicks, cards, odoo>>
    PROVE  ProfileIInv'
<1>1. PICK r \in Turn : r = Idle
  BY IdleIsTurn
<1>2. r.at = "idle" /\ r.version = 0 /\ r.plan = NoPlan
  BY <1>1 DEF Idle
<1>3. TurnOK(r)
  BY <1>2, NoPlanOK, ConvIs DEF TurnOK, ProfileIInv
<1>4. Sees(r)
  BY <1>2 DEF Sees
<1>5. r.plan.draft.displayed = FALSE
  BY <1>2 DEF NoPlan, NoDraft
<1>6. turn' = [turn EXCEPT ![w] = r]
  BY <1>1 DEF End
<1>7. QED
  BY <1>3, <1>4, <1>5, <1>6, TurnStep

\* A turn that has resolved its answer stores a plan.
LEMMA ResolveStores ==
    ASSUME ProfileIInv, NEW w \in Workers, NEW t \in Turn,
           t = turn[w], t.at = "resolve", NEW plan \in Plans, PlanOK(plan),
           turn' = [turn EXCEPT ![w] = [Storing(t, plan)
                                           EXCEPT !.snapshot = odoo.snapshot]],
           UNCHANGED <<conv, clicks, cards, odoo>>,
           plan.then = "end", plan.form \/ ~plan.draft.displayed,
           \A f \in Fields :
              t.draft.changes[f] # Nothing /\ plan.draft.changes[f] = Nothing
                 => \/ f = t.answered
                    \/ f = "child" /\ t.answered = "parent"
                    \/ f = "child" /\ Taken(t)
                    \/ t.draft.changes[f] = odoo.snapshot[f]
    PROVE  ProfileIInv'
<1>1. TurnOK(t) /\ Sees(t)
  BY TurnIs
<1>2. odoo.snapshot \in Dict
  BY DEF ProfileIInv, TypeOK
<1>3. PICK u : u = [t EXCEPT !.snapshot = odoo.snapshot]
  OBVIOUS
<1>4. /\ u \in Turn /\ u.version = t.version /\ u.kind = t.kind
      /\ u.answered = t.answered /\ u.snapshot = odoo.snapshot
  BY <1>2, <1>3 DEF Turn
<1>5. [Storing(t, plan) EXCEPT !.snapshot = odoo.snapshot] = Storing(u, plan)
  <2>1. PICK x \in Draft :
           /\ x = IF plan.then = "resolve" THEN t.draft ELSE NoDraft
           /\ x = IF plan.then = "resolve" THEN u.draft ELSE NoDraft
    BY <1>3, NoDraftIsDraft DEF Turn
  <2>2. /\ Storing(t, plan) =
             [t EXCEPT !.at = "store", !.plan = plan, !.card = 0,
                       !.click = 0, !.draft = x]
        /\ Storing(u, plan) =
             [u EXCEPT !.at = "store", !.plan = plan, !.card = 0,
                       !.click = 0, !.draft = x]
    BY <2>1 DEF Storing
  <2>3. QED
    BY <1>2, <1>3, <2>2 DEF Turn
<1>6. turn' = [turn EXCEPT ![w] = Storing(u, plan)]
  BY <1>5
<1>7. u.version <= conv.version
  BY <1>1, <1>4 DEF TurnOK
<1>8. ASSUME u.version = conv.version, u.kind # "confirm"
      PROVE  Kept(u, plan.draft.changes)
  <2>1. \/ conv.draft = NoDraft
        \/ /\ t.draft.changes = conv.draft.changes
           /\ Taken(t) => Stray(conv.draft)
    BY <1>1, <1>4, <1>8 DEF Sees
  <2>2. CASE conv.draft = NoDraft
    BY <2>2 DEF Kept, Keys, NoDraft, Empty
  <2>3. CASE /\ t.draft.changes = conv.draft.changes
             /\ Taken(t) => Stray(conv.draft)
    BY <1>4, <2>3 DEF Kept, Keys, Excused
  <2>4. QED
    BY <2>1, <2>2, <2>3
<1>9. QED
  BY <1>4, <1>6, <1>7, <1>8, StoringStep

\* The form with the draft, and the form with what differs from the record.
LEMMA FormPlanOK ==
    ASSUME TypeOK, NEW d \in Draft, NEW changes \in Dict,
           NEW offers \in SUBSET (EditActions \ {"submit"}), PickedOK(d),
           NEW p, p = Form(d, changes, odoo.snapshot, offers),
           Settled(p.draft)
    PROVE  PlanOK(p)
<1>1. odoo.snapshot \in Dict /\ Len(cards) \in Nat
  BY DEF TypeOK
<1>2. /\ p.status = "awaiting_clarification"
      /\ p.card = 0 /\ p.form /\ p.then = "end"
      /\ p.draft.current = "profile_edit_action"
      /\ p.draft.offers = offers /\ p.draft.keys = {}
      /\ p.draft.picked = d.picked /\ p.draft.set = d.set
  BY <1>1, FormIsPlan
<1>3. Shape(p.draft)
  BY <1>2 DEF Shape, PickedOK, Fields
<1>4. QED
  BY <1>1, <1>2, <1>3 DEF PlanOK

\* The question for a field that has no value.
LEMMA AskPlanOK ==
    ASSUME TypeOK, NEW d \in Draft, NEW changes \in Dict,
           NEW field \in Fields, NEW p, NEW keys \in SUBSET Fields,
           p = Ask(d, changes, keys, field), changes = d.changes,
           PickedOK(d), Agree(d, Fields), Tight(d, Fields),
           keys \subseteq d.keys, field \in keys, changes[field] = Nothing,
           d.revision <= conv.version
    PROVE  /\ p \in Plans /\ PlanOK(p) /\ p.then = "end"
           /\ ~p.form /\ ~p.draft.displayed
           /\ p.draft.changes = changes
<1>1. /\ p \in Plans /\ p.status = "awaiting_clarification"
      /\ p.card = 0 /\ ~p.form /\ p.then = "end"
      /\ p.draft.revision = d.revision /\ p.draft.current = field
      /\ p.draft.offers = {} /\ ~p.draft.displayed /\ p.draft.shown = {}
      /\ p.draft.keys = keys /\ p.draft.changes = changes
      /\ p.draft.collected = d.collected
      /\ p.draft.picked = d.picked /\ p.draft.set = d.set
  BY AskIsPlan
<1>2. p.draft \in Draft
  BY <1>1 DEF Plans
<1>3. Settled(p.draft)
  BY <1>1, <1>2, MergedSettles
<1>4. Shape(p.draft)
  BY <1>1 DEF Shape, PickedOK
<1>5. Len(cards) \in Nat
  BY DEF TypeOK
<1>6. QED
  BY <1>1, <1>3, <1>4, <1>5 DEF PlanOK

LEMMA ResolveStep ==
    ASSUME ProfileIInv, NEW w \in Workers, Resolve(w)
    PROVE  ProfileIInv'
<1>1. PICK t \in Turn : t = turn[w] /\ TurnOK(t) /\ Sees(t)
  BY TurnIs
<1>2. PICK snapshot \in Dict : snapshot = odoo.snapshot
  BY DEF ProfileIInv, TypeOK
<1>3. t.at = "resolve" /\ Answered(t)
  BY <1>1 DEF Resolve, At, TurnOK
<1>4. PICK c \in Draft : c = t.draft
  BY DEF Turn
<1>5. PICK d \in Draft : d = Merging(t)
  BY <1>3, MergingSettles
<1>6. /\ d.revision = c.revision /\ d.keys = c.keys
      /\ d.collected = c.collected
      /\ PickedOK(d) /\ Agree(d, Fields) /\ Tight(d, Fields)
      /\ \A f \in Fields : c.changes[f] # Nothing =>
            \/ f = t.answered
            \/ f = "child" /\ t.answered = "parent"
            \/ f = "child" /\ Taken(t) /\ d.changes[f] = Nothing
            \/ d.changes[f] = c.changes[f]
      /\ t.act # "none" =>
            \A f \in Fields :
               c.changes[f] = Nothing /\ d.changes[f] # Nothing
                  => /\ d.changes[f] = c.collected[f]
                     /\ \/ odoo.version > 1
                        \/ c.collected[f] = odoo.snapshot[f]
  BY <1>3, <1>4, <1>5, MergingSettles
<1>7. d.changes \in Dict /\ d.keys \subseteq Fields
  BY DEF Draft
<1>8. PICK changes \in Dict : changes = Differing(d.changes, snapshot)
  BY <1>7, DifferingIsDict
<1>9. \A f \in Fields :
         \/ d.changes[f] = snapshot[f] /\ changes[f] = Nothing
         \/ d.changes[f] # snapshot[f] /\ changes[f] = d.changes[f]
  BY <1>7, <1>8, DifferingIsDict
<1>10. PICK keys \in SUBSET Fields :
          keys = IF t.act = "continue" THEN {} ELSE d.keys
  BY <1>7
<1>11. PICK fields \in SUBSET Fields :
          fields = IF keys = {} THEN Fields ELSE keys
  OBVIOUS
<1>12. keys \subseteq d.keys
  BY <1>10
\* What is dropped because the record has it is excused.
<1>13. \A f \in Fields :
          c.changes[f] # Nothing /\ changes[f] = Nothing
             => \/ f = t.answered
                \/ f = "child" /\ t.answered = "parent"
                \/ f = "child" /\ Taken(t)
                \/ c.changes[f] = snapshot[f]
  BY <1>6, <1>9
<1>14. PICK ready : ready = [d EXCEPT !.keys = keys, !.changes = changes,
                                      !.record = snapshot["parent"]]
  OBVIOUS
<1>15. /\ ready \in Draft /\ ready.revision = d.revision
       /\ ready.keys = keys /\ ready.changes = changes
       /\ ready.collected = d.collected
       /\ ready.picked = d.picked /\ ready.set = d.set
  <2>1. snapshot["parent"] \in Datum
    BY DEF Dict, Fields
  <2>2. QED
    BY <1>14, <2>1 DEF Draft
<1>16. PickedOK(ready) /\ Settled(ready)
  <2>1. PickedOK(ready)
    BY <1>6, <1>15 DEF PickedOK
  <2>2. odoo.snapshot \in Dict /\ "child" \in ready.keys => "child" \in d.keys
    BY <1>2, <1>12, <1>15
  <2>3. QED
    BY <1>2, <1>6, <1>8, <1>15, <2>1, <2>2, DifferingSettles
<1> DEFINE Stored(plan) ==
       /\ turn' = [turn EXCEPT ![w] = [Storing(t, plan)
                                          EXCEPT !.snapshot = snapshot]]
       /\ UNCHANGED <<conv, clicks, cards, odoo>>
    Gone(place) ==
       /\ turn' = [turn EXCEPT ![w].at = place, ![w].draft = ready,
                               ![w].snapshot = snapshot,
                               ![w].expected = odoo.version]
       /\ UNCHANGED <<conv, clicks, cards, odoo>>
<1>17. CASE Stored(Form(d, d.changes, snapshot, {"finish", "cancel"}))
  <2>1. PICK offers \in SUBSET (EditActions \ {"submit"}) :
           offers = {"finish", "cancel"}
    BY DEF EditActions
  <2>2. PICK p \in Plans : p = Form(d, d.changes, snapshot, offers)
    BY <1>7, FormIsPlan
  <2>3. /\ p.form /\ p.then = "end" /\ p.draft \in Draft
        /\ p.draft.keys = {} /\ p.draft.changes = d.changes
        /\ p.draft.collected = d.collected
    BY <1>7, <2>2, FormIsPlan DEF Plans
  <2>4. Settled(p.draft)
    BY <1>6, <2>3, MergedSettles
  <2>5. PlanOK(p)
    BY <1>2, <1>6, <1>7, <2>2, <2>4, FormPlanOK DEF ProfileIInv
  <2>6. /\ turn' = [turn EXCEPT ![w] = [Storing(t, p)
                                     EXCEPT !.snapshot = odoo.snapshot]]
        /\ UNCHANGED <<conv, clicks, cards, odoo>>
    BY <1>2, <1>17, <2>1, <2>2
  <2>7. \A f \in Fields :
           t.draft.changes[f] # Nothing /\ p.draft.changes[f] = Nothing
              => \/ f = t.answered
                 \/ f = "child" /\ t.answered = "parent"
                 \/ f = "child" /\ Taken(t)
                 \/ t.draft.changes[f] = odoo.snapshot[f]
    BY <1>2, <1>4, <1>6, <2>3
  <2>8. QED
    BY <1>1, <1>3, <2>3, <2>5, <2>6, <2>7, ResolveStores
<1>18. ASSUME NEW i \in 1 .. Len(Order), Order[i] \in keys,
              d.changes[Order[i]] = Nothing,
              Stored(Ask(d, d.changes, keys, Order[i]))
       PROVE  ProfileIInv'
  <2>1. PICK field \in Fields : field = Order[i] /\ field \in keys
    BY <1>18
  <2>2. PICK given \in Dict : given = d.changes
    BY <1>7
  <2>3. PICK p : p = Ask(d, given, keys, field)
    OBVIOUS
  <2>4. /\ d.revision <= conv.version
        /\ given[field] = Nothing
    BY <1>1, <1>3, <1>4, <1>6, <1>18, <2>1, <2>2 DEF TurnOK
  <2>5. /\ p \in Plans /\ PlanOK(p) /\ p.then = "end"
        /\ ~p.form /\ ~p.draft.displayed
        /\ p.draft.changes = d.changes
    <3>1. TypeOK
      BY DEF ProfileIInv
    <3>2. PickedOK(d) /\ Agree(d, Fields) /\ Tight(d, Fields)
      BY <1>6
    <3>3. /\ keys \subseteq d.keys /\ field \in keys /\ given[field] = Nothing
          /\ p = Ask(d, given, keys, field) /\ given = d.changes
          /\ d.revision <= conv.version
      BY <1>12, <2>1, <2>2, <2>3, <2>4
    <3>4. /\ p \in Plans /\ PlanOK(p) /\ p.then = "end"
          /\ ~p.form /\ ~p.draft.displayed
          /\ p.draft.changes = given
      BY <3>1, <3>2, <3>3, AskPlanOK
    <3>5. QED
      BY <3>3, <3>4
  <2>6. /\ turn' = [turn EXCEPT ![w] = [Storing(t, p)
                                     EXCEPT !.snapshot = odoo.snapshot]]
        /\ UNCHANGED <<conv, clicks, cards, odoo>>
    BY <1>2, <1>18, <2>1, <2>2, <2>3
  <2>7. \A f \in Fields :
           t.draft.changes[f] # Nothing /\ p.draft.changes[f] = Nothing
              => \/ f = t.answered
                 \/ f = "child" /\ t.answered = "parent"
                 \/ f = "child" /\ Taken(t)
                 \/ t.draft.changes[f] = odoo.snapshot[f]
    BY <1>2, <1>4, <1>6, <2>5
  <2>8. QED
    BY <1>1, <1>3, <2>5, <2>6, <2>7, ResolveStores
<1>19. ASSUME NEW offers \in SUBSET (EditActions \ {"submit"}),
              NEW left \in Dict, left = changes,
              Stored(Form(d, left, snapshot, offers))
       PROVE  ProfileIInv'
  <2>1. PICK p \in Plans : p = Form(d, left, snapshot, offers)
    BY FormIsPlan
  <2>2. /\ p.form /\ p.then = "end" /\ p.draft \in Draft
        /\ p.draft.keys = {} /\ p.draft.changes = changes
        /\ p.draft.collected = d.collected
    BY <1>19, <2>1, FormIsPlan DEF Plans
  <2>3. Settled(p.draft)
    BY <1>2, <1>6, <1>8, <2>2, DifferingSettles
  <2>4. PlanOK(p)
    BY <1>2, <1>6, <2>1, <2>3, FormPlanOK DEF ProfileIInv
  <2>5. /\ turn' = [turn EXCEPT ![w] = [Storing(t, p)
                                     EXCEPT !.snapshot = odoo.snapshot]]
        /\ UNCHANGED <<conv, clicks, cards, odoo>>
    BY <1>2, <1>19, <2>1, <2>2
  <2>6. \A f \in Fields :
           t.draft.changes[f] # Nothing /\ p.draft.changes[f] = Nothing
              => \/ f = t.answered
                 \/ f = "child" /\ t.answered = "parent"
                 \/ f = "child" /\ Taken(t)
                 \/ t.draft.changes[f] = odoo.snapshot[f]
    BY <1>2, <1>4, <1>13, <2>2
  <2>7. QED
    BY <1>1, <1>3, <2>2, <2>4, <2>5, <2>6, ResolveStores
<1>20. CASE Keys(changes) = {} /\
            Stored(Form(d, Empty, snapshot, {"continue", "cancel"}))
  <2>1. changes = Empty
    BY <1>20 DEF Keys, Empty, Dict
  <2>2. {"continue", "cancel"} \in SUBSET (EditActions \ {"submit"})
    BY DEF EditActions
  <2>3. QED
    BY <1>19, <1>20, <2>1, <2>2
<1>21. CASE Stored(Form(d, changes, snapshot, {"finish", "cancel"}))
  <2>1. {"finish", "cancel"} \in SUBSET (EditActions \ {"submit"})
    BY DEF EditActions
  <2>2. QED
    BY <1>19, <1>21, <2>1
<1>22. CASE Stored(Summary(ready, changes, fields))
  <2>1. PICK p \in Plans : p = Summary(ready, changes, fields)
    BY <1>15, SummaryIsPlan
  <2>2. /\ p.status = "awaiting_clarification"
        /\ p.card = 0 /\ p.form /\ p.then = "end" /\ p.draft \in Draft
        /\ p.draft.status = "REVIEWING"
        /\ p.draft.current = "profile_edit_action"
        /\ p.draft.displayed /\ p.draft.shown = p.draft.keys
        /\ p.draft.keys = fields \cap Keys(changes)
        /\ p.draft.changes = changes
        /\ p.draft.collected = d.collected
        /\ p.draft.picked = d.picked /\ p.draft.set = d.set
    BY <1>15, <2>1, SummaryIsPlan DEF Plans
  <2>3. "child" \in p.draft.keys => p.draft.changes["child"] # Nothing
    BY <2>2 DEF Keys
  <2>4. Settled(p.draft)
    BY <1>2, <1>6, <1>8, <2>2, <2>3, DifferingSettles
  <2>5. Shape(p.draft)
    BY <1>6, <2>2 DEF Shape, PickedOK, Fields
  <2>6. PlanOK(p)
    BY <2>2, <2>4, <2>5, ConvIs DEF PlanOK
  <2>7. /\ turn' = [turn EXCEPT ![w] = [Storing(t, p)
                                     EXCEPT !.snapshot = odoo.snapshot]]
        /\ UNCHANGED <<conv, clicks, cards, odoo>>
    BY <1>2, <1>22, <2>1, <2>2
  <2>8. \A f \in Fields :
           t.draft.changes[f] # Nothing /\ p.draft.changes[f] = Nothing
              => \/ f = t.answered
                 \/ f = "child" /\ t.answered = "parent"
                 \/ f = "child" /\ Taken(t)
                 \/ t.draft.changes[f] = odoo.snapshot[f]
    BY <1>2, <1>4, <1>13, <2>2
  <2>9. QED
    BY <1>1, <1>3, <2>2, <2>6, <2>7, <2>8, ResolveStores
\* The draft is sent off.
<1>23. ASSUME NEW place \in {"save", "insert"}, Gone(place),
              place = "save" => t.act = "save_draft",
              place = "insert" => t.act = "submit",
              ListsCurrent(d, fields, changes, snapshot)
       PROVE  ProfileIInv'
  <2>1. PICK r : r = [t EXCEPT !.at = place, !.draft = ready,
                               !.snapshot = snapshot, !.expected = odoo.version]
    OBVIOUS
  <2>2. odoo.version \in Nat
    BY DEF ProfileIInv, TypeOK
  <2>3. /\ r \in Turn /\ r.at = place /\ r.draft = ready
        /\ r.snapshot = snapshot /\ r.plan = t.plan /\ r.click = t.click
        /\ r.version = t.version /\ r.act = t.act /\ r.kind = t.kind
        /\ r.answered = t.answered
    BY <1>15, <1>23, <2>1, <2>2 DEF Turn
  <2>4. /\ turn' = [turn EXCEPT ![w] = r]
        /\ UNCHANGED <<conv, clicks, cards, odoo>>
    BY <1>1, <1>23, <2>1 DEF ProfileIInv, TypeOK
  <2>5. Fits(ready, Effective(changes, snapshot))
    <3> SUFFICES ASSUME keys # {} => "child" \in keys,
                        changes["child"] # Nothing,
                        changes["child"] = ready.picked
                 PROVE  ready.picked \in ListFor(Effective(changes, snapshot))
      BY <1>15 DEF Fits
    <3>1. "child" \in fields \cap Keys(changes)
      BY <1>11 DEF Fields, Keys
    <3>2. ready.set # "unset" /\ ready.picked \in ListFor(ready.set)
      BY <1>16 DEF PickedOK
    <3>3. ready.set = Effective(changes, snapshot)
      BY <1>15, <1>23, <3>1, <3>2 DEF ListsCurrent
    <3>4. QED
      BY <3>2, <3>3
  <2>6. ASSUME place = "insert"
        PROVE  /\ r.click \in 1 .. Len(clicks)
               /\ AsReviewed(changes, ready.collected, clicks[r.click])
    <3>1. PICK k : k = clicks[t.click]
      OBVIOUS
    <3>2. /\ t.click \in 1 .. Len(clicks) /\ t.act = "submit"
          /\ k.reviewing /\ k.form = c.changes
      BY <1>1, <1>3, <1>4, <1>23, <2>6, <3>1 DEF TurnOK
    <3>3. t.answered = "none"
      BY <1>3, <3>2 DEF Answered
    <3>4. ASSUME NEW f \in Keys(changes)
          PROVE  \/ changes[f] = k.form[f]
                 \/ /\ k.form[f] = Nothing
                    /\ changes[f] = ready.collected[f]
                    /\ odoo.version > 1
      <4>1. f \in Fields /\ changes[f] # Nothing /\ f # "none"
        BY DEF Keys, Fields
      <4>2. d.changes[f] # snapshot[f] /\ changes[f] = d.changes[f]
        BY <1>9, <4>1
      <4>3. CASE c.changes[f] # Nothing
        BY <1>6, <3>2, <3>3, <4>1, <4>2, <4>3
      <4>4. CASE c.changes[f] = Nothing
        BY <1>2, <1>6, <1>15, <3>2, <4>1, <4>2, <4>4
      <4>5. QED
        BY <4>3, <4>4
    <3>5. AsReviewed(changes, ready.collected, k)
      BY <3>2, <3>4 DEF AsReviewed
    <3>6. QED
      BY <2>3, <3>1, <3>2, <3>5
  <2>7. TurnOK(r)
    <3>1. PlanOK(r.plan) /\ r.version <= conv.version
      BY <1>1, <2>3 DEF TurnOK
    <3>2. r.draft.revision <= conv.version
      BY <1>1, <1>3, <1>4, <1>6, <1>15, <2>3 DEF TurnOK
    <3>3. PickedOK(r.draft) /\ Settled(r.draft)
      BY <1>16, <2>3
    <3>4. Fits(r.draft, Effective(r.draft.changes, r.snapshot))
      BY <1>15, <2>3, <2>5
    <3>5. r.at = "insert" =>
             /\ r.act = "submit"
             /\ r.click \in 1 .. Len(clicks)
             /\ AsReviewed(r.draft.changes, r.draft.collected, clicks[r.click])
      BY <1>15, <1>23, <2>3, <2>6
    <3>6. r.at = "save" => r.act = "save_draft"
      BY <1>23, <2>3
    <3>7. QED
      BY <2>3, <3>1, <3>2, <3>3, <3>4, <3>5, <3>6 DEF TurnOK
  <2>8. Sees(r)
    <3> SUFFICES ASSUME r.version = conv.version, r.kind # "confirm",
                        r.at = "save"
                 PROVE  Kept(r, changes)
      BY <1>15, <2>3 DEF Sees
    <3>1. \/ conv.draft = NoDraft
          \/ /\ c.changes = conv.draft.changes
             /\ Taken(t) => Stray(conv.draft)
      BY <1>1, <1>3, <1>4, <2>3 DEF Sees
    <3>2. CASE conv.draft = NoDraft
      BY <3>2 DEF Kept, Keys, NoDraft, Empty
    <3>3. CASE /\ c.changes = conv.draft.changes
               /\ Taken(t) => Stray(conv.draft)
      BY <1>13, <2>3, <3>3 DEF Kept, Keys, Excused
    <3>4. QED
      BY <3>1, <3>2, <3>3
  <2>9. ~r.plan.form /\ r.plan.draft.displayed => View(r.plan.draft) \in Views
    BY <1>1, <2>3 DEF Views, Held
  <2>10. QED
    BY <2>3, <2>4, <2>7, <2>8, <2>9, TurnStep
<1>24. QED
  <2>1. PICK missing : missing = {i \in 1 .. Len(Order) :
                                     /\ Order[i] \in keys
                                     /\ d.changes[Order[i]] = Nothing}
    OBVIOUS
  <2>2. \/ Stored(Form(d, d.changes, snapshot, {"finish", "cancel"}))
        \/ \E i \in missing : Stored(Ask(d, d.changes, keys, Order[i]))
        \/ /\ Keys(changes) = {}
           /\ Stored(Form(d, Empty, snapshot, {"continue", "cancel"}))
        \/ Stored(Form(d, changes, snapshot, {"finish", "cancel"}))
        \/ /\ ListsCurrent(d, fields, changes, snapshot)
           /\ \/ Stored(Summary(ready, changes, fields))
              \/ t.act = "submit" /\ Gone("insert")
              \/ t.act = "save_draft" /\ Gone("save")
    BY <1>1, <1>2, <1>5, <1>8, <1>10, <1>11, <1>14, <2>1 DEF Resolve
  <2> HIDE DEF Stored, Gone
  <2>3. QED
    BY <1>17, <1>18, <1>20, <1>21, <1>22, <1>23, <2>1, <2>2

-----------------------------------------------------------------------------
(* Steps that change the clicks, the cards or the record                   *)

\* What a step that adds to them leaves to show.
LEMMA GrowStep ==
    ASSUME ProfileIInv, TypeOK', Grows, conv' = conv,
           OdooOK', ClicksOK', CardsOK', CardsReviewed', CardsFit', ViewsOK',
           \A t \in Turns' \ Turns : TurnOK(t)' /\ Sees(t)'
    PROVE  ProfileIInv'
<1>1. ConvOK'
  <2>1. Settled(conv.draft)'
    <3>1. PICK d : d = conv.draft
      OBVIOUS
    <3>2. Settled(d)
      BY <3>1 DEF ProfileIInv, ConvOK
    <3>3. Settled(d)'
      BY <3>2, SettledStays DEF ProfileIInv
    <3>4. QED
      BY <3>1, <3>3 DEF Settled, Agree, Tight, Accounted
  <2>2. QED
    BY <2>1 DEF ProfileIInv, ConvOK, Shape, PickedOK, ListFor
<1>2. ASSUME NEW t \in Turns'
      PROVE  TurnOK(t)' /\ Sees(t)'
  <2>1. CASE t \in Turns
    <3>1. t \in Turn /\ TurnOK(t) /\ Sees(t)
      BY <2>1 DEF ProfileIInv, TypeOK, Turns
    <3>2. TurnOK(t)'
      BY <3>1, TurnStays DEF ProfileIInv
    <3>3. QED
      BY <3>1, <3>2 DEF Sees, Kept, Excused, Taken, Stray
  <2>2. QED
    BY <2>1
<1>3. QED
  BY <1>1, <1>2 DEF ProfileIInv

\* The same, when the step is one of a turn.
LEMMA TurnGrows ==
    ASSUME ProfileIInv, NEW w \in Workers, NEW r \in Turn,
           turn' = [turn EXCEPT ![w] = r], UNCHANGED <<conv, clicks>>,
           TypeOK', Grows, OdooOK', CardsOK', CardsReviewed', CardsFit',
           TurnOK(r)', Sees(r)',
           ~r.plan.form /\ r.plan.draft.displayed
              => View(r.plan.draft) \in Views
    PROVE  ProfileIInv'
<1>1. ClicksOK'
  BY DEF ProfileIInv, ClicksOK
<1>2. ViewsOK'
  <2>1. PICK x : x = View(r.plan.draft)
    OBVIOUS
  <2>2. conv.draft \in Held
    BY DEF Held
  <2>3. Held' \subseteq Held \cup {d \in {r.plan.draft} : ~r.plan.form}
    BY <2>2, HeldAfter DEF ProfileIInv
  <2>4. Views' \subseteq Views
    BY <2>3 DEF Views, View
  <2>5. QED
    BY <2>4 DEF ProfileIInv, ViewsOK, OneForm
<1>3. \A t \in Turns' \ Turns : t = r
  BY DEF ProfileIInv, TypeOK, Turns
<1>4. QED
  BY <1>1, <1>2, <1>3, GrowStep

LEMMA ClickStep ==
    ASSUME ProfileIInv, Click
    PROVE  ProfileIInv'
<1>1. PICK d \in Draft : d = conv.draft
  BY ConvIs
<1>2. /\ Shape(d) /\ conv.version \in Nat
      /\ d.displayed /\ d.revision \in 1 .. conv.version
      /\ conv.version <= MaxVersion /\ Len(clicks) < MaxClicks
  BY <1>1, ConvIs, BoundsAssumption DEF Click, ProfileIInv, TypeOK
<1>3. /\ d.revision \in 1 .. MaxVersion /\ d.changes \in Dict
      /\ d.shown \subseteq Fields /\ d.offers \subseteq EditActions
  BY <1>2, BoundsAssumption DEF Draft
<1>4. PICK c : /\ clicks' = Append(clicks, c)
               /\ UNCHANGED <<conv, cards, odoo, turn>>
               /\ \/ \E f \in d.shown : \E v \in OptionsOf(f, d.context) :
                        c = [kind |-> "edit", field |-> f, value |-> v,
                             revision |-> d.revision, form |-> d.changes,
                             reviewing |-> d.status = "REVIEWING"]
                  \/ \E a \in d.offers :
                        c = [kind |-> "action", action |-> a,
                             revision |-> d.revision, form |-> d.changes,
                             reviewing |-> d.status = "REVIEWING"]
  BY <1>1 DEF Click
<1>5. /\ c \in Clicks
      /\ c.revision = d.revision /\ c.form = d.changes
      /\ c.kind = "action" /\ c.action = "submit" => c.reviewing
  <2>1. PICK reviewing \in BOOLEAN : reviewing = (d.status = "REVIEWING")
    OBVIOUS
  <2>2. CASE \E f \in d.shown : \E v \in OptionsOf(f, d.context) :
                c = [kind |-> "edit", field |-> f, value |-> v,
                     revision |-> d.revision, form |-> d.changes,
                     reviewing |-> d.status = "REVIEWING"]
    <3>1. PICK f \in Fields, v \in Values :
             c = [kind |-> "edit", field |-> f, value |-> v,
                  revision |-> d.revision, form |-> d.changes,
                  reviewing |-> reviewing]
      BY <1>3, <2>1, <2>2 DEF OptionsOf, ListFor
    <3>2. QED
      BY <1>3, <3>1 DEF Clicks
  <2>3. CASE \E a \in d.offers :
                c = [kind |-> "action", action |-> a,
                     revision |-> d.revision, form |-> d.changes,
                     reviewing |-> d.status = "REVIEWING"]
    <3>1. PICK a \in d.offers :
             c = [kind |-> "action", action |-> a,
                  revision |-> d.revision, form |-> d.changes,
                  reviewing |-> reviewing]
      BY <2>1, <2>3
    <3>2. a = "submit" => reviewing = TRUE
      BY <1>2, <2>1, <3>1 DEF Shape
    <3>3. QED
      BY <1>3, <3>1, <3>2 DEF Clicks
  <2>4. QED
    BY <1>4, <2>2, <2>3
<1>6. clicks \in Seq(Clicks) /\ Len(clicks) \in Nat
  BY DEF ProfileIInv, TypeOK
<1>7. /\ clicks' \in Seq(Clicks) /\ Len(clicks') = Len(clicks) + 1
      /\ \A i \in 1 .. Len(clicks) : clicks'[i] = clicks[i]
      /\ clicks'[Len(clicks) + 1] = c
  BY <1>4, <1>5, <1>6
<1>8. \A i \in 1 .. Len(clicks') : i \in 1 .. Len(clicks) \/ i = Len(clicks) + 1
  BY <1>6, <1>7
<1>9. TypeOK'
  BY <1>4, <1>7 DEF ProfileIInv, TypeOK
<1>10. Grows
  BY <1>2, <1>4, <1>6, <1>7, ConvIs DEF Grows
<1>11. ClicksOK'
  <2>1. Len(clicks') <= MaxClicks
    BY <1>2, <1>6, <1>7, BoundsAssumption
  <2>2. ASSUME NEW i \in 1 .. Len(clicks')
        PROVE  /\ clicks'[i].revision <= conv'.version
               /\ clicks'[i].kind = "action" /\ clicks'[i].action = "submit"
                     => clicks'[i].reviewing
    <3>1. CASE i \in 1 .. Len(clicks)
      BY <1>4, <1>7, <3>1 DEF ProfileIInv, ClicksOK
    <3>2. CASE i = Len(clicks) + 1
      BY <1>2, <1>4, <1>5, <1>7, <3>2
    <3>3. QED
      BY <1>8, <3>1, <3>2
  <2>3. QED
    BY <2>1, <2>2 DEF ClicksOK
<1>12. CardsOK' /\ CardsFit'
  BY <1>4, <1>6, <1>7
  DEF ProfileIInv, CardsOK, CardsFit, Shape, PickedOK, ListFor, Fits
<1>13. CardsReviewed'
  <2>1. \A i \in 1 .. Len(cards) : clicks'[cards[i].click] = clicks[cards[i].click]
    BY <1>7 DEF ProfileIInv, CardsOK
  <2>2. ASSUME NEW i \in 1 .. Len(cards)
        PROVE  AsReviewed(cards[i].changes, cards[i].draft.collected,
                          clicks[cards[i].click])'
    <3>1. PICK k : k = clicks[cards[i].click]
      OBVIOUS
    <3>2. AsReviewed(cards[i].changes, cards[i].draft.collected, k)
      BY <3>1 DEF ProfileIInv, CardsReviewed
    <3>3. clicks'[cards'[i].click] = k /\ cards' = cards /\ odoo' = odoo
      BY <1>4, <2>1, <3>1
    <3>4. QED
      BY <3>2, <3>3 DEF AsReviewed
  <2>3. QED
    BY <1>4, <2>2 DEF CardsReviewed
<1>14. ViewsOK'
  <2>1. PICK x : x = View(d)
    OBVIOUS
  <2>2. x \in Views
    BY <1>1, <1>2, <2>1, ConvView
  <2>3. Held' = Held
    BY <1>4 DEF Held
  <2>4. [revision |-> c.revision, form |-> c.form] = x
    BY <1>5, <2>1 DEF View
  <2>5. Views' \subseteq Views \cup {x}
    BY <1>4, <1>7, <1>8, <2>3, <2>4 DEF Views, View
  <2>6. QED
    BY <1>2, <1>4, <2>2, <2>5, ViewsStay DEF ProfileIInv
<1>15. Turns' = Turns
  BY <1>4 DEF Turns
<1>16. OdooOK'
  BY <1>4 DEF ProfileIInv, OdooOK
<1>17. QED
  BY <1>4, <1>9, <1>10, <1>11, <1>12, <1>13, <1>14, <1>15, <1>16, GrowStep

\* The cards stay as reviewed while the record changes.
LEMMA OdooChanges ==
    ASSUME ProfileIInv, odoo'.version = odoo.version + 1, odoo'.snapshot \in Dict,
           UNCHANGED <<conv, clicks, cards>>, turn' \in [Workers -> Turn]
    PROVE  /\ TypeOK' /\ Grows /\ OdooOK' /\ ClicksOK' /\ CardsOK'
           /\ CardsReviewed' /\ CardsFit'
<1>1. odoo.version \in Nat /\ Len(clicks) \in Nat /\ Len(cards) \in Nat
  BY DEF ProfileIInv, TypeOK
<1>2. TypeOK'
  BY <1>1 DEF ProfileIInv, TypeOK
<1>3. Grows
  BY <1>1, ConvIs DEF Grows
<1>4. OdooOK'
  BY <1>1 DEF OdooOK
<1>5. ClicksOK' /\ CardsOK' /\ CardsFit'
  BY DEF ProfileIInv, ClicksOK, CardsOK, CardsFit, Shape, PickedOK,
         ListFor, Fits
<1>6. CardsReviewed'
  BY <1>1 DEF ProfileIInv, CardsReviewed, AsReviewed
<1>7. QED
  BY <1>2, <1>3, <1>4, <1>5, <1>6

LEMMA ElsewhereStep ==
    ASSUME ProfileIInv, Elsewhere
    PROVE  ProfileIInv'
<1>1. /\ odoo'.version = odoo.version + 1 /\ odoo'.snapshot \in Dict
      /\ UNCHANGED <<conv, clicks, cards, turn>>
  BY DEF Elsewhere, Dict, ListFor, Fields
<1>2. turn' \in [Workers -> Turn]
  BY <1>1 DEF ProfileIInv, TypeOK
<1>3. Turns' = Turns /\ Views' = Views
  BY <1>1 DEF Turns, Views, Held
<1>4. ViewsOK'
  BY <1>1, <1>3 DEF ProfileIInv, ViewsOK, OneForm
<1>5. QED
  BY <1>1, <1>2, <1>3, <1>4, OdooChanges, GrowStep

\* What holds of the cards holds of them when one is decided.
LEMMA CardEnds ==
    ASSUME ProfileIInv, NEW k \in 1 .. Len(cards),
           NEW status \in {"pending", "cancelled", "ended"},
           cards' = [cards EXCEPT ![k].status = status],
           UNCHANGED <<conv, clicks, odoo>>, turn' \in [Workers -> Turn]
    PROVE  /\ TypeOK' /\ Grows /\ OdooOK' /\ CardsOK'
           /\ CardsReviewed' /\ CardsFit'
<1>1. cards \in Seq(Cards) /\ Len(cards) \in Nat
  BY DEF ProfileIInv, TypeOK
<1>2. PICK c \in Cards : /\ c = [cards[k] EXCEPT !.status = status]
                         /\ c.click = cards[k].click
                         /\ c.changes = cards[k].changes
                         /\ c.parent = cards[k].parent
                         /\ c.draft = cards[k].draft
  <2>1. PICK e \in Cards : e = cards[k]
    BY <1>1
  <2>2. PICK c : c = [e EXCEPT !.status = status]
    OBVIOUS
  <2>3. c \in Cards /\ c.click = e.click /\ c.changes = e.changes
        /\ c.parent = e.parent /\ c.draft = e.draft
    BY <2>2 DEF Cards
  <2>4. QED
    BY <2>1, <2>2, <2>3
<1>3. cards' = [cards EXCEPT ![k] = c]
  BY <1>2
<1>4. /\ cards' \in Seq(Cards) /\ Len(cards') = Len(cards)
      /\ cards'[k] = c
      /\ \A i \in 1 .. Len(cards) : i # k => cards'[i] = cards[i]
  BY <1>1, <1>3
<1>5. \A i \in 1 .. Len(cards) : /\ cards'[i].click = cards[i].click
                                 /\ cards'[i].changes = cards[i].changes
                                 /\ cards'[i].parent = cards[i].parent
                                 /\ cards'[i].draft = cards[i].draft
  BY <1>2, <1>4
<1>6. TypeOK'
  BY <1>4 DEF ProfileIInv, TypeOK
<1>7. Len(clicks) \in Nat
  BY DEF ProfileIInv, TypeOK
<1>8. Grows /\ OdooOK'
  BY <1>1, <1>4, <1>7, ConvIs DEF Grows, ProfileIInv, OdooOK
<1>9. CardsOK'
  BY <1>4, <1>5 DEF ProfileIInv, CardsOK
<1>10. CardsFit'
  BY <1>4, <1>5 DEF ProfileIInv, CardsFit, Fits, ListFor
<1>11. CardsReviewed'
  BY <1>4, <1>5 DEF ProfileIInv, CardsReviewed, AsReviewed
<1>12. QED
  BY <1>6, <1>8, <1>9, <1>10, <1>11

\* A turn that stores, when only the cards or the record have changed: what
\* it has to show of its plan is about the new state.
LEMMA StoredIs ==
    ASSUME ProfileIInv, NEW t \in Turn, NEW plan \in Plans,
           conv' = conv, t.version <= conv.version, PlanOK(plan)',
           plan.then = "resolve" => Anew(t),
           t.version = conv.version /\ t.kind # "confirm" =>
              \/ Kept(t, plan.draft.changes)
              \/ t.kind = "stop"
              \/ t.act \in {"cancel", "switch_discard"}
              \/ t.act \in {"submit", "save_draft"}
                    /\ plan.status # "awaiting_clarification"
    PROVE  TurnOK(Storing(t, plan))' /\ Sees(Storing(t, plan))'
<1>1. PICK r \in Turn : r = Storing(t, plan)
  BY StoringIs
<1>2. /\ r.at = "store" /\ r.kind = t.kind /\ r.version = t.version
      /\ r.act = t.act /\ r.answered = t.answered
      /\ r.snapshot = t.snapshot /\ r.plan = plan
      /\ plan.then = "resolve" => r.draft = t.draft
  BY <1>1, StoringIs
<1>3. Kept(t, plan.draft.changes) => Kept(r, plan.draft.changes)'
  BY <1>2 DEF Kept, Excused, Stray
<1>4. r.plan.then = "resolve" => Anew(r)
  BY <1>2 DEF Anew
<1>5. TurnOK(r)'
  BY <1>2, <1>4 DEF TurnOK, Anew
<1>6. Sees(r)'
  BY <1>2, <1>3 DEF Sees
<1>7. QED
  BY <1>1, <1>5, <1>6

LEMMA DropCardStep ==
    ASSUME ProfileIInv, NEW w \in Workers, DropCard(w)
    PROVE  ProfileIInv'
<1>1. PICK t \in Turn : t = turn[w] /\ TurnOK(t) /\ Sees(t)
  BY TurnIs
<1>2. PICK k \in 1 .. Len(cards) : k = t.card
  BY <1>1 DEF DropCard, At, TurnOK
<1>3. /\ t.at = "drop" /\ UNCHANGED <<conv, clicks, odoo>>
      /\ turn' = [turn EXCEPT ![w] = Storing(t, t.plan)]
      /\ \/ cards' = [cards EXCEPT ![k].status = "cancelled"]
         \/ cards' = cards
  BY <1>1, <1>2 DEF DropCard, At
<1>4. PICK status \in {"pending", "cancelled", "ended"} :
         cards' = [cards EXCEPT ![k].status = status]
  <2>1. CASE cards' = [cards EXCEPT ![k].status = "cancelled"]
    BY <2>1
  <2>2. CASE cards' = cards
    <3>1. cards[k] \in Cards /\ cards \in Seq(Cards)
      BY DEF ProfileIInv, TypeOK
    <3>2. cards[k].status \in {"pending", "cancelled", "ended"}
      BY <3>1 DEF Cards
    <3>3. [cards[k] EXCEPT !.status = cards[k].status] = cards[k]
      BY <3>1 DEF Cards
    <3>4. cards = [cards EXCEPT ![k].status = cards[k].status]
      BY <3>1, <3>3
    <3>5. QED
      BY <2>2, <3>2, <3>4
  <2>3. QED
    BY <1>3, <2>1, <2>2
<1>5. PICK plan \in Plans : plan = t.plan
  BY DEF Turn
<1>6. PICK r \in Turn : r = Storing(t, plan) /\ r.plan = plan
  BY StoringIs
<1>7. turn' = [turn EXCEPT ![w] = r]
  BY <1>3, <1>5, <1>6
<1>8. turn' \in [Workers -> Turn]
  BY <1>7 DEF ProfileIInv, TypeOK
<1>9. /\ TypeOK' /\ Grows /\ OdooOK' /\ CardsOK'
      /\ CardsReviewed' /\ CardsFit'
  BY <1>3, <1>4, <1>8, CardEnds
<1>10. PlanOK(plan)'
  BY <1>1, <1>5, <1>9, PlanStays DEF TurnOK, ProfileIInv
<1>11. t.version = conv.version /\ t.kind # "confirm"
          => Kept(t, plan.draft.changes)
  <2> SUFFICES ASSUME t.version = conv.version, t.kind # "confirm"
               PROVE  Kept(t, plan.draft.changes)
    OBVIOUS
  <2>1. conv.draft = NoDraft
    BY <1>1, <1>3 DEF Sees
  <2>2. QED
    BY <2>1 DEF Kept, Keys, NoDraft, Empty
<1>12. plan.then = "resolve" => Anew(t)
  BY <1>1, <1>3, <1>5 DEF TurnOK
<1>13. TurnOK(Storing(t, plan))' /\ Sees(Storing(t, plan))'
  BY <1>1, <1>3, <1>10, <1>11, <1>12, StoredIs DEF TurnOK
<1>14. TurnOK(r)' /\ Sees(r)'
  BY <1>6, <1>13
<1>15. ~plan.form /\ plan.draft.displayed => View(plan.draft) \in Views
  BY <1>1, <1>5 DEF Views, Held
<1>16. QED
  BY <1>3, <1>6, <1>7, <1>9, <1>14, <1>15, TurnGrows

LEMMA ConfirmStep ==
    ASSUME ProfileIInv, NEW w \in Workers, Confirm(w)
    PROVE  ProfileIInv'
<1>1. PICK t : t = [Idle EXCEPT !.kind = "confirm", !.version = conv.version]
  OBVIOUS
<1>2. /\ t \in Turn /\ t.kind = "confirm" /\ t.version = conv.version
      /\ t.at = "idle"
  BY <1>1, IdleIsTurn, ConvIs DEF Turn, Idle
<1> DEFINE Decided(k, plan) ==
       LET again == [cards[k].draft EXCEPT !.collected = Empty]
           review == [Plan("awaiting_clarification", again, 0, "end")
                         EXCEPT !.form = TRUE]
       IN  /\ cards' = [cards EXCEPT ![k].status = "ended"]
           /\ plan \in {Clear("end"), review}
           /\ turn' = [turn EXCEPT ![w] = Storing(t, plan)]
           /\ UNCHANGED <<conv, clicks, odoo>>
<1>13. PICK k \in 1 .. Len(cards) : \E plan : Decided(k, plan)
  BY <1>1 DEF Confirm
<1>3. PICK plan : Decided(k, plan)
  BY <1>13
<1>4. /\ plan \in Plans /\ plan.then = "end" /\ PlanOK(plan)
      /\ plan.form \/ ~plan.draft.displayed
  <2>1. CASE plan = Clear("end")
    <3>1. PlanOK(plan)
      BY <2>1, ClearPlanOK DEF ProfileIInv
    <3>2. plan \in Plans /\ plan.then = "end" /\ plan.draft = NoDraft
      BY <2>1, ClearIsPlan
    <3>3. NoDraft.displayed = FALSE
      BY DEF NoDraft
    <3>4. QED
      BY <3>1, <3>2, <3>3
  <2>2. CASE plan # Clear("end")
    <3>1. PICK d : d = cards[k].draft
      OBVIOUS
    <3>2. d \in Draft /\ Shape(d)
      <4>1. cards[k] \in Cards
        BY DEF ProfileIInv, TypeOK
      <4>2. QED
        BY <3>1, <4>1 DEF Cards, ProfileIInv, CardsOK
    <3>3. PICK again : again = [d EXCEPT !.collected = Empty]
      OBVIOUS
    <3>4. again \in Draft
      BY <3>2, <3>3, EmptyIsDict DEF Draft
    <3>5. /\ again.keys = d.keys /\ again.shown = d.shown
          /\ again.current = d.current /\ again.changes = d.changes
          /\ again.offers = d.offers /\ again.status = d.status
          /\ again.displayed = d.displayed
          /\ again.picked = d.picked /\ again.set = d.set
          /\ again.collected = Empty
      BY <3>2, <3>3 DEF Draft
    <3>6. Shape(again) /\ Settled(again)
      BY <3>2, <3>5, EmptySettles DEF Shape, PickedOK
    <3>7. plan = [status |-> "awaiting_clarification", draft |-> again,
                  card |-> 0, form |-> TRUE, then |-> "end"]
      BY <1>3, <2>2, <3>1, <3>3 DEF Plan
    <3>8. /\ plan \in Plans /\ plan.then = "end" /\ plan.form = TRUE
          /\ plan.status = "awaiting_clarification" /\ plan.card = 0
          /\ plan.draft = again
      BY <3>4, <3>7 DEF Plans, ConversationStatuses
    <3>9. PlanOK(plan)
      BY <3>6, <3>8, ConvIs DEF PlanOK
    <3>10. QED
      BY <3>8, <3>9
  <2>3. QED
    BY <2>1, <2>2
<1>5. PICK r \in Turn : r = Storing(t, plan) /\ r.plan = plan
  BY <1>2, <1>4, StoringIs
<1>6. turn' = [turn EXCEPT ![w] = r]
  BY <1>3, <1>5
<1>7. turn' \in [Workers -> Turn]
  BY <1>6 DEF ProfileIInv, TypeOK
<1>8. /\ TypeOK' /\ Grows /\ OdooOK' /\ CardsOK'
      /\ CardsReviewed' /\ CardsFit'
  BY <1>3, <1>7, CardEnds
<1>9. PlanOK(plan)'
  BY <1>4, <1>8, PlanStays DEF ProfileIInv
<1>10. TurnOK(Storing(t, plan))' /\ Sees(Storing(t, plan))'
  BY <1>2, <1>3, <1>4, <1>9, StoredIs, ConvIs
<1>11. TurnOK(r)' /\ Sees(r)'
  BY <1>5, <1>10
<1>12. QED
  BY <1>3, <1>4, <1>5, <1>6, <1>8, <1>11, TurnGrows

LEMMA SaveDraftStep ==
    ASSUME ProfileIInv, NEW w \in Workers, SaveDraft(w)
    PROVE  ProfileIInv'
<1>1. PICK t \in Turn : t = turn[w] /\ TurnOK(t) /\ Sees(t)
  BY TurnIs
<1>2. PICK d \in Draft : d = t.draft
  BY DEF Turn
<1>3. /\ t.at = "save" /\ UNCHANGED <<conv, clicks, cards>>
      /\ PickedOK(d) /\ Settled(d) /\ t.version <= conv.version
  BY <1>1, <1>2 DEF SaveDraft, At, TurnOK
<1>4. d.changes \in Dict /\ odoo.snapshot \in Dict /\ odoo.version \in Nat
      /\ t.snapshot \in Dict
  BY DEF Draft, ProfileIInv, TypeOK, Turn
<1>5. CASE /\ odoo' = [snapshot |-> [f \in Fields |->
                                       IF d.changes[f] # Nothing
                                       THEN d.changes[f]
                                       ELSE odoo.snapshot[f]],
                       version  |-> odoo.version + 1]
           /\ turn' = [turn EXCEPT ![w].at = "verify"]
  <2>1. odoo'.version = odoo.version + 1 /\ odoo'.snapshot \in Dict
    BY <1>4, <1>5 DEF Dict
  <2>2. PICK r : r = [t EXCEPT !.at = "verify"]
    OBVIOUS
  <2>3. /\ r \in Turn /\ r.at = "verify" /\ r.version = t.version
        /\ r.plan = t.plan /\ r.act = t.act
    BY <2>2 DEF Turn
  <2>4. turn' = [turn EXCEPT ![w] = r]
    BY <1>1, <1>5, <2>2
  <2>5. turn' \in [Workers -> Turn]
    BY <2>3, <2>4 DEF ProfileIInv, TypeOK
  <2>6. /\ TypeOK' /\ Grows /\ OdooOK' /\ CardsOK'
        /\ CardsReviewed' /\ CardsFit'
    BY <1>3, <2>1, <2>5, OdooChanges
  <2>7. PICK plan \in Plans : plan = t.plan
    BY DEF Turn
  <2>8. PlanOK(plan)'
    BY <1>1, <2>6, <2>7, PlanStays DEF TurnOK, ProfileIInv
  <2>9. TurnOK(r)'
    <3>1. PlanOK(r.plan)'
      BY <2>3, <2>7, <2>8
    <3>2. t.act = "save_draft"
      BY <1>1, <1>3 DEF TurnOK
    <3>3. QED
      BY <1>3, <2>3, <3>1, <3>2 DEF TurnOK
  <2>10. Sees(r)'
    BY <2>3 DEF Sees
  <2>11. ~r.plan.form /\ r.plan.draft.displayed => View(r.plan.draft) \in Views
    BY <1>1, <2>3 DEF Views, Held
  <2>12. QED
    BY <1>3, <2>3, <2>4, <2>6, <2>9, <2>10, <2>11, TurnGrows
<1>6. CASE /\ turn' = [turn EXCEPT ![w] =
                Storing(t, Form(d, d.changes, t.snapshot,
                                {"finish", "cancel"}))]
           /\ UNCHANGED odoo
  <2>1. PICK offers \in SUBSET (EditActions \ {"submit"}) :
           offers = {"finish", "cancel"}
    BY DEF EditActions
  <2>2. PICK p \in Plans : p = Form(d, d.changes, t.snapshot, offers)
    BY <1>4, FormIsPlan
  <2>3. /\ p.status = "awaiting_clarification"
        /\ p.card = 0 /\ p.form /\ p.then = "end"
        /\ p.draft.current = "profile_edit_action"
        /\ p.draft.offers = offers /\ p.draft.keys = {}
        /\ p.draft.changes = d.changes
        /\ p.draft.collected = d.collected
        /\ p.draft.picked = d.picked /\ p.draft.set = d.set
    BY <1>4, <2>2, FormIsPlan
  <2>4. Shape(p.draft)
    BY <1>3, <2>3 DEF Shape, PickedOK, Fields
  <2>5. Settled(p.draft)
    BY <1>3, <2>3 DEF Settled, Agree, Tight, Accounted
  <2>6. PlanOK(p)
    BY <2>3, <2>4, <2>5, ConvIs DEF PlanOK
  <2>7. t.version = conv.version /\ t.kind # "confirm"
           => Kept(t, p.draft.changes)
    BY <1>1, <1>2, <1>3, <2>3 DEF Sees
  <2>8. /\ turn' = [turn EXCEPT ![w] = Storing(t, p)]
        /\ UNCHANGED <<conv, clicks, cards, odoo>>
    BY <1>3, <1>6, <2>1, <2>2
  <2>9. QED
    BY <1>3, <2>3, <2>6, <2>7, <2>8, StoringStep
<1>7. QED
  BY <1>1, <1>2, <1>5, <1>6 DEF SaveDraft

LEMMA InsertCardStep ==
    ASSUME ProfileIInv, NEW w \in Workers, InsertCard(w)
    PROVE  ProfileIInv'
<1>1. PICK t \in Turn : t = turn[w] /\ TurnOK(t)
  BY TurnIs
<1>2. PICK d \in Draft : d = t.draft
  BY DEF Turn
<1>3. t.at = "insert"
  BY <1>1 DEF InsertCard, At
<1>4. /\ Shape(Review(d, d.changes, d.keys)) /\ t.version <= conv.version
      /\ Fits(d, Effective(d.changes, t.snapshot)) /\ t.act = "submit"
      /\ t.click \in 1 .. Len(clicks)
      /\ AsReviewed(d.changes, d.collected, clicks[t.click])
  <2>1. /\ PickedOK(d) /\ t.version <= conv.version
        /\ Fits(d, Effective(d.changes, t.snapshot)) /\ t.act = "submit"
        /\ t.click \in 1 .. Len(clicks)
        /\ AsReviewed(d.changes, d.collected, clicks[t.click])
    BY <1>1, <1>2, <1>3 DEF TurnOK
  <2>2. d.changes \in Dict /\ d.keys \in SUBSET Fields
    BY DEF Draft
  <2>3. PICK e : e = Review(d, d.changes, d.keys)
    OBVIOUS
  <2>4. /\ e.status = "REVIEWING" /\ e.displayed
        /\ e.current = "profile_edit_action"
        /\ e.shown = d.keys \cap Keys(d.changes) /\ e.keys = d.keys
        /\ e.picked = d.picked /\ e.set = d.set
    BY <2>2, <2>3, ReviewIsDraft
  <2>5. Shape(e)
    BY <2>1, <2>4 DEF Shape, PickedOK, Fields
  <2>6. QED
    BY <2>1, <2>3, <2>5
<1>5. PICK c : c = [click   |-> t.click,
                    status  |-> "pending",
                    changes |-> d.changes,
                    parent  |-> Effective(d.changes, t.snapshot),
                    draft   |-> Review(d, d.changes, d.keys)]
  OBVIOUS
<1>6. /\ c \in Cards
      /\ c.click = t.click /\ c.changes = d.changes
      /\ c.parent = Effective(d.changes, t.snapshot)
      /\ Shape(c.draft)
      /\ c.draft.keys = d.keys /\ c.draft.changes = d.changes
      /\ c.draft.collected = d.collected /\ c.draft.picked = d.picked
  <2>1. d.changes \in Dict /\ d.keys \in SUBSET Fields /\ t.snapshot \in Dict
    BY DEF Draft, Turn
  <2>2. PICK e \in Draft : e = Review(d, d.changes, d.keys)
    BY <2>1, ReviewIsDraft
  <2>3. /\ e.keys = d.keys /\ e.changes = d.changes
        /\ e.collected = d.collected /\ e.picked = d.picked
    BY <2>1, <2>2, ReviewIsDraft
  <2>4. PICK p \in Datum : p = Effective(d.changes, t.snapshot)
    BY <2>1, EffectiveType
  <2>5. Len(clicks) \in Nat /\ Len(clicks) <= MaxClicks
    BY DEF ProfileIInv, TypeOK, ClicksOK
  <2>6. t.click \in 1 .. MaxClicks
    BY <1>4, <2>5, BoundsAssumption
  <2>7. c \in Cards
    BY <1>5, <2>1, <2>2, <2>4, <2>6 DEF Cards
  <2>8. QED
    BY <1>4, <1>5, <2>2, <2>3, <2>7
<1>7. cards \in Seq(Cards) /\ Len(cards) \in Nat
  BY DEF ProfileIInv, TypeOK
<1>8. cards' = Append(cards, c)
  BY <1>1, <1>2, <1>5 DEF InsertCard
<1>9. /\ cards' \in Seq(Cards) /\ Len(cards') = Len(cards) + 1
      /\ \A i \in 1 .. Len(cards) : cards'[i] = cards[i]
      /\ cards'[Len(cards) + 1] = c
  BY <1>6, <1>7, <1>8
<1>10. \A i \in 1 .. Len(cards') : i \in 1 .. Len(cards) \/ i = Len(cards) + 1
  BY <1>7, <1>9
<1>11. PICK plan : plan = Plan("awaiting_confirmation", NoDraft,
                               Len(cards) + 1, "end")
  OBVIOUS
<1>12. /\ plan \in Plans /\ plan.status = "awaiting_confirmation"
       /\ plan.draft = NoDraft /\ plan.card = Len(cards) + 1
       /\ plan.form = FALSE /\ plan.then = "end"
  BY <1>7, <1>11, NoDraftIsDraft DEF Plan, Plans, ConversationStatuses
<1>13. PICK r \in Turn : r = Storing(t, plan) /\ r.plan = plan
  BY <1>12, StoringIs
<1>14. /\ turn' = [turn EXCEPT ![w] = r]
       /\ UNCHANGED <<conv, clicks, odoo>>
  BY <1>1, <1>11, <1>13 DEF InsertCard
<1>15. TypeOK'
  <2>1. turn' \in [Workers -> Turn]
    BY <1>14 DEF ProfileIInv, TypeOK
  <2>2. conv.card \in 0 .. Len(cards')
    BY <1>7, <1>9 DEF ProfileIInv, TypeOK
  <2>3. QED
    BY <1>9, <1>14, <2>1, <2>2 DEF ProfileIInv, TypeOK
<1>16. Grows /\ OdooOK'
  <2>1. Len(clicks) \in Nat
    BY DEF ProfileIInv, TypeOK
  <2>2. QED
    BY <1>7, <1>9, <1>14, <2>1, ConvIs DEF Grows, ProfileIInv, OdooOK
<1>17. CardsOK'
  <2> SUFFICES ASSUME NEW i \in 1 .. Len(cards')
               PROVE  /\ Shape(cards'[i].draft)
                      /\ cards'[i].click \in 1 .. Len(clicks')
    BY DEF CardsOK
  <2>1. CASE i \in 1 .. Len(cards)
    BY <1>9, <1>14, <2>1 DEF ProfileIInv, CardsOK
  <2>2. CASE i = Len(cards) + 1
    BY <1>4, <1>6, <1>9, <1>14, <2>2
  <2>3. QED
    BY <1>10, <2>1, <2>2
<1>18. CardsFit'
  <2> SUFFICES ASSUME NEW i \in 1 .. Len(cards')
               PROVE  Fits(cards'[i].draft, cards'[i].parent)
    BY DEF CardsFit
  <2>1. CASE i \in 1 .. Len(cards)
    BY <1>9, <2>1 DEF ProfileIInv, CardsFit
  <2>2. CASE i = Len(cards) + 1
    <3>1. Fits(c.draft, c.parent)
      BY <1>4, <1>6 DEF Fits
    <3>2. QED
      BY <1>9, <2>2, <3>1
  <2>3. QED
    BY <1>10, <2>1, <2>2
<1>19. CardsReviewed'
  <2>1. ASSUME NEW i \in 1 .. Len(cards')
        PROVE  AsReviewed(cards[i].changes, cards[i].draft.collected,
                          clicks[cards[i].click])'
    <3>1. CASE i \in 1 .. Len(cards)
      BY <1>9, <1>14, <3>1 DEF ProfileIInv, CardsReviewed, AsReviewed
    <3>2. CASE i = Len(cards) + 1
      <4>1. PICK k : k = clicks[t.click]
        OBVIOUS
      <4>2. AsReviewed(d.changes, d.collected, k)
        BY <1>4, <4>1
      <4>3. /\ cards'[i].changes = d.changes
            /\ cards'[i].draft.collected = d.collected
            /\ clicks'[cards'[i].click] = k
        BY <1>6, <1>9, <1>14, <3>2, <4>1
      <4>4. QED
        BY <1>14, <4>2, <4>3 DEF AsReviewed
    <3>3. QED
      BY <1>10, <3>1, <3>2
  <2>2. QED
    BY <2>1 DEF CardsReviewed
<1>20. PlanOK(plan)'
  <2>1. Settled(NoDraft)'
    <3>1. Settled(NoDraft)
      BY EmptySettles DEF NoDraft
    <3>2. QED
      BY <1>15, <1>16, <3>1, SettledStays DEF ProfileIInv
  <2>2. Shape(NoDraft)
    BY DEF NoDraft, Shape, PickedOK, Fields, Empty
  <2>3. NoDraft.displayed = FALSE /\ NoDraft.revision = 0
    BY DEF NoDraft
  <2>4. PlanOK(plan)'
    BY <1>7, <1>9, <1>12, <1>14, <2>1, <2>2, <2>3, ConvIs DEF PlanOK
  <2>5. QED
    BY <2>4
<1>21. TurnOK(Storing(t, plan))' /\ Sees(Storing(t, plan))'
  BY <1>4, <1>12, <1>14, <1>20, StoredIs
<1>22. TurnOK(r)' /\ Sees(r)'
  BY <1>13, <1>21
<1>23. ~(~plan.form /\ plan.draft.displayed)
  BY <1>12 DEF NoDraft
<1>24. QED
  BY <1>13, <1>14, <1>15, <1>16, <1>17, <1>18, <1>19, <1>22, <1>23, TurnGrows

-----------------------------------------------------------------------------
(* The end of a turn, and the theorems                                     *)

LEMMA StoreStep ==
    ASSUME ProfileIInv, NEW w \in Workers, Store(w)
    PROVE  ProfileIInv'
<1>1. PICK t \in Turn : t = turn[w] /\ TurnOK(t)
  BY TurnIs
<1>2. PICK plan \in Plans : plan = t.plan
  BY DEF Turn
<1>3. /\ t.at = "store" /\ PlanOK(plan)
      /\ plan.then = "resolve" => Anew(t)
  BY <1>1, <1>2 DEF Store, At, TurnOK
<1>4. PICK version \in Nat : version = conv.version + 1
  BY ConvIs
<1>5. /\ version \in 0 .. MaxVersion /\ conv.version < version
      /\ conv.version \in Nat
  BY <1>4, ConvIs, BoundsAssumption DEF Store
<1>6. /\ plan.draft \in Draft /\ plan.card \in Nat
      /\ plan.status \in ConversationStatuses /\ plan.form \in BOOLEAN
  BY DEF Plans
<1>7. PICK d : d = IF plan.form THEN [plan.draft EXCEPT !.revision = version]
                                ELSE plan.draft
  OBVIOUS
<1>8. /\ d \in Draft
      /\ d.revision = IF plan.form THEN version ELSE plan.draft.revision
      /\ d.keys = plan.draft.keys /\ d.shown = plan.draft.shown
      /\ d.current = plan.draft.current /\ d.changes = plan.draft.changes
      /\ d.offers = plan.draft.offers /\ d.status = plan.draft.status
      /\ d.displayed = plan.draft.displayed
      /\ d.collected = plan.draft.collected
      /\ d.picked = plan.draft.picked /\ d.set = plan.draft.set
  <2>1. CASE plan.form
    <3>1. d = [plan.draft EXCEPT !.revision = version]
      BY <1>7, <2>1
    <3>2. d \in Draft
      BY <1>5, <1>6, <3>1 DEF Draft
    <3>3. QED
      BY <1>6, <2>1, <3>1, <3>2 DEF Draft
  <2>2. CASE ~plan.form
    BY <1>6, <1>7, <2>2
  <2>3. QED
    BY <2>1, <2>2
<1>9. /\ conv'.status = plan.status /\ conv'.version = version
      /\ conv'.draft = d /\ conv'.card = plan.card
      /\ UNCHANGED <<clicks, cards, odoo>>
  BY <1>1, <1>2, <1>4, <1>7 DEF Store
<1>10. PICK r : /\ turn' = [turn EXCEPT ![w] = r]
                /\ \/ r = Idle
                   \/ /\ plan.then = "resolve"
                      /\ r = [t EXCEPT !.at = "resolve", !.version = version,
                                       !.plan = NoPlan]
  <2>1. CASE turn' = [turn EXCEPT ![w] = Idle]
    BY <2>1
  <2>2. CASE /\ plan.then = "resolve"
             /\ turn' = [turn EXCEPT ![w].at = "resolve",
                                     ![w].version = version,
                                     ![w].plan = NoPlan]
    <3>1. turn' = [turn EXCEPT ![w] = [t EXCEPT !.at = "resolve",
                                                !.version = version,
                                                !.plan = NoPlan]]
      BY <1>1, <2>2 DEF ProfileIInv, TypeOK
    <3>2. QED
      BY <2>2, <3>1
  <2>3. QED
    BY <1>1, <1>2, <1>4, <2>1, <2>2 DEF Store, End
<1>11. /\ r \in Turn /\ r.at \in {"idle", "resolve"} /\ r.plan = NoPlan
       /\ r.version \in {0, version}
       /\ r.at = "resolve" => Anew(r)
       /\ r.at = "resolve" => plan.then = "resolve"
  <2>1. CASE r = Idle
    BY <2>1, IdleIsTurn DEF Idle
  <2>2. CASE /\ plan.then = "resolve"
             /\ r = [t EXCEPT !.at = "resolve", !.version = version,
                              !.plan = NoPlan]
    <3>1. /\ r \in Turn /\ r.at = "resolve" /\ r.plan = NoPlan
          /\ r.version = version /\ r.draft = t.draft /\ r.act = t.act
          /\ r.answered = t.answered
      BY <1>5, <2>2, NoPlanIsPlan DEF Turn
    <3>2. Anew(r)
      BY <1>3, <2>2, <3>1 DEF Anew
    <3>3. QED
      BY <2>2, <3>1, <3>2
  <2>3. QED
    BY <1>10, <2>1, <2>2
<1>12. /\ d.revision \in 0 .. version
       /\ d.displayed => d.revision > 0
       /\ Shape(d) /\ Settled(d)
  <2>1. d.revision \in Nat
    BY <1>8, BoundsAssumption DEF Draft
  <2>2. d.revision \in 0 .. version /\ (d.displayed => d.revision > 0)
    BY <1>3, <1>4, <1>5, <1>8, <2>1 DEF PlanOK
  <2>3. Shape(d)
    BY <1>3, <1>8 DEF PlanOK, Shape, PickedOK
  <2>4. Settled(d)
    BY <1>3, <1>8 DEF PlanOK, Settled, Agree, Tight, Accounted
  <2>5. QED
    BY <2>2, <2>3, <2>4
<1>13. TypeOK'
  <2>1. turn' \in [Workers -> Turn]
    BY <1>10, <1>11 DEF ProfileIInv, TypeOK
  <2>2. /\ plan.card \in 0 .. Len(cards)
        /\ plan.card > 0 <=> plan.status = "awaiting_confirmation"
    BY <1>3, <1>6, ConvIs DEF PlanOK
  <2>3. plan.status # "awaiting_clarification" => d = NoDraft
    BY <1>3, <1>7 DEF PlanOK
  <2>4. /\ conv'.version \in 0 .. MaxVersion
        /\ conv'.draft.revision <= conv'.version
    BY <1>5, <1>9, <1>12
  <2>5. QED
    BY <1>6, <1>8, <1>9, <2>1, <2>2, <2>3, <2>4 DEF ProfileIInv, TypeOK
<1>14. Grows
  <2>1. Len(clicks) \in Nat /\ Len(cards) \in Nat
    BY DEF ProfileIInv, TypeOK
  <2>2. QED
    BY <1>5, <1>9, <2>1 DEF Grows
<1>15. OdooOK' /\ CardsFit'
  BY <1>9 DEF ProfileIInv, OdooOK, CardsFit, Fits
<1>16. CardsOK'
  BY <1>9 DEF ProfileIInv, CardsOK
<1>17. CardsReviewed'
  BY <1>9 DEF ProfileIInv, CardsReviewed, AsReviewed
<1>18. ClicksOK'
  <2>1. ASSUME NEW i \in 1 .. Len(clicks)
        PROVE  clicks[i].revision <= version
    <3>1. clicks[i] \in Clicks /\ clicks[i].revision <= conv.version
      BY DEF ProfileIInv, TypeOK, ClicksOK
    <3>2. clicks[i].revision \in Nat
      BY <3>1, BoundsAssumption DEF Clicks
    <3>3. QED
      BY <1>5, <3>1, <3>2
  <2>2. QED
    BY <1>9, <2>1 DEF ProfileIInv, ClicksOK
<1>19. ConvOK'
  <2>1. Settled(d)'
    BY <1>9, <1>12, <1>13, <1>14, SettledStays DEF ProfileIInv
  <2>2. Settled(conv.draft)'
    BY <1>9, <2>1 DEF Settled, Agree, Tight, Accounted
  <2>3. QED
    BY <1>9, <1>12, <2>2 DEF ConvOK
<1>20. ViewsOK'
  <2>1. PICK x : x = View(d)
    OBVIOUS
  <2>2. r.plan.draft.displayed = FALSE
    BY <1>11 DEF NoPlan, NoDraft
  <2>3. Held' \subseteq Held \cup {d} \cup {e \in {r.plan.draft} : ~r.plan.form}
    BY <1>9, <1>10, <1>11, HeldAfter DEF ProfileIInv
  <2>4. CASE d.displayed
    <3>1. Views' \subseteq Views \cup {x}
      BY <1>9, <2>1, <2>2, <2>3 DEF Views, View
    <3>2. CASE plan.form
      <4>1. x.revision = version
        BY <1>8, <2>1, <3>2 DEF View
      <4>2. QED
        BY <1>4, <1>5, <1>9, <3>1, <4>1, ViewsStay DEF ProfileIInv
    <3>3. CASE ~plan.form
      <4>1. x = View(plan.draft) /\ plan.draft.displayed
        BY <1>8, <2>1, <2>4, <3>3 DEF View
      <4>2. x \in Views
        BY <1>1, <1>2, <3>3, <4>1 DEF Views, Held
      <4>3. QED
        BY <1>5, <1>9, <3>1, <4>2, ViewsStay DEF ProfileIInv
    <3>4. QED
      BY <3>2, <3>3
  <2>5. CASE ~d.displayed
    <3>1. Views' \subseteq Views
      BY <1>9, <2>2, <2>3, <2>5 DEF Views, View
    <3>2. \A y \in Views' : y.revision \in 0 .. version
      BY <1>5, <3>1 DEF ProfileIInv, ViewsOK
    <3>3. QED
      BY <1>9, <3>1, <3>2 DEF ProfileIInv, ViewsOK, OneForm
  <2>6. QED
    BY <2>4, <2>5
<1>21. TurnOK(r)'
  <2>1. PlanOK(NoPlan)'
    <3>1. PlanOK(NoPlan)
      BY NoPlanOK DEF ProfileIInv
    <3>2. QED
      BY <1>13, <1>14, <3>1, NoPlanIsPlan, PlanStays DEF ProfileIInv
  <2>2. PlanOK(r.plan)'
    BY <1>11, <2>1
  <2>3. r.at = "resolve" => Answered(r)'
    BY <1>11 DEF Anew, Answered, PickedOK, Agree, Tight, Keys,
                 Empty, Fields
  <2>4. r.at = "resolve" => r.draft.revision = 0 /\ r.act = "none"
    BY <1>11 DEF Anew
  <2>5. QED
    BY <1>4, <1>5, <1>9, <1>11, <2>2, <2>3, <2>4 DEF TurnOK
<1>22. Sees(r)'
  <2>1. r.at = "resolve" => d = NoDraft
    BY <1>3, <1>7, <1>11 DEF PlanOK
  <2>2. QED
    BY <1>9, <1>11, <2>1 DEF Sees
<1>23. ASSUME NEW u \in Turns'
       PROVE  TurnOK(u)' /\ Sees(u)'
  <2>1. u \in Turns \cup {r}
    BY <1>10 DEF ProfileIInv, TypeOK, Turns
  <2>2. CASE u = r
    BY <1>21, <1>22, <2>2
  <2>3. CASE u \in Turns
    <3>1. u \in Turn /\ TurnOK(u)
      BY <2>3 DEF ProfileIInv, TypeOK, Turns
    <3>2. TurnOK(u)'
      BY <1>13, <1>14, <3>1, TurnStays DEF ProfileIInv
    <3>3. u.version <= conv.version /\ u.version \in Nat
      BY <3>1 DEF TurnOK, Turn
    <3>4. u.version # conv'.version
      BY <1>4, <1>5, <1>9, <3>3
    <3>5. QED
      BY <3>2, <3>4 DEF Sees
  <2>4. QED
    BY <2>1, <2>2, <2>3
<1>24. QED
  BY <1>13, <1>15, <1>16, <1>17, <1>18, <1>19, <1>20, <1>23 DEF ProfileIInv

LEMMA InitEstablishes ==
    ASSUME Init
    PROVE  ProfileIInv
<1>1. /\ conv.status = "closed" /\ conv.version = 0
      /\ conv.draft = NoDraft /\ conv.card = 0
      /\ clicks = <<>> /\ cards = <<>>
      /\ odoo.snapshot = Empty /\ odoo.version = 0
      /\ turn = [w \in Workers |-> Idle]
  BY DEF Init
<1>2. /\ NoDraft.revision = 0 /\ NoDraft.displayed = FALSE
      /\ NoDraft.collected = Empty
  BY DEF NoDraft
<1>3. TypeOK
  BY <1>1, <1>2, NoDraftIsDraft, EmptyIsDict, IdleIsTurn, BoundsAssumption
  DEF TypeOK, ConversationStatuses
<1>4. OdooOK /\ CardsOK /\ CardsReviewed /\ CardsFit
  BY <1>1 DEF OdooOK, CardsOK, CardsReviewed, CardsFit
<1>5. ClicksOK
  BY <1>1, BoundsAssumption DEF ClicksOK
<1>6. ConvOK
  <2>1. Shape(NoDraft)
    BY DEF NoDraft, Shape, PickedOK, Fields, Empty
  <2>2. Settled(NoDraft)
    BY <1>2, EmptySettles
  <2>3. QED
    BY <1>1, <1>2, <2>1, <2>2 DEF ConvOK
<1>7. ASSUME NEW t \in Turns
      PROVE  TurnOK(t) /\ Sees(t)
  <2>1. t = Idle
    BY <1>1 DEF Turns
  <2>2. t.at = "idle" /\ t.version = 0 /\ t.plan = NoPlan
    BY <2>1 DEF Idle
  <2>3. PlanOK(t.plan)
    BY <1>3, <2>2, NoPlanOK
  <2>4. QED
    BY <1>1, <2>2, <2>3 DEF TurnOK, Sees
<1>8. ViewsOK
  <2>1. Views = {}
    <3>1. \A w \in Workers : turn[w].plan.draft = NoDraft
      BY <1>1 DEF Idle, NoPlan
    <3>2. \A d \in Held : ~d.displayed
      BY <1>1, <1>2, <3>1 DEF Held
    <3>3. QED
      BY <1>1, <3>2 DEF Views
  <2>2. QED
    BY <2>1 DEF ViewsOK, OneForm
<1>9. QED
  BY <1>3, <1>4, <1>5, <1>6, <1>7, <1>8 DEF ProfileIInv

LEMMA StutterStep ==
    ASSUME ProfileIInv, UNCHANGED vars
    PROVE  ProfileIInv'
<1>1. /\ conv' = conv /\ clicks' = clicks /\ cards' = cards
      /\ odoo' = odoo /\ turn' = turn
  BY DEF vars
<1>2. TypeOK' /\ OdooOK' /\ ClicksOK' /\ CardsOK' /\ CardsFit'
  BY <1>1
  DEF ProfileIInv, TypeOK, OdooOK, ClicksOK, CardsOK, CardsFit
<1>3. CardsReviewed'
  BY <1>1 DEF ProfileIInv, CardsReviewed, AsReviewed
<1>4. Turns' = Turns /\ Views' = Views
  BY <1>1 DEF Turns, Views, Held
<1>5. ViewsOK'
  BY <1>1, <1>4 DEF ProfileIInv, ViewsOK
<1>6. Len(clicks) \in Nat /\ Len(cards) \in Nat
  BY DEF ProfileIInv, TypeOK
<1>7. Grows
  BY <1>1, <1>6, ConvIs DEF Grows
<1>8. QED
  BY <1>1, <1>2, <1>3, <1>4, <1>5, <1>7, GrowStep

LEMMA ProfileInvariance == Spec => []ProfileIInv
<1>1. Init => ProfileIInv
  BY InitEstablishes
<1>2. ProfileIInv /\ [Next]_vars => ProfileIInv'
  <2> SUFFICES ASSUME ProfileIInv, [Next]_vars
               PROVE  ProfileIInv'
    OBVIOUS
  <2>1. CASE Click
    BY <2>1, ClickStep
  <2>2. CASE Elsewhere
    BY <2>2, ElsewhereStep
  <2>3. ASSUME NEW w \in Workers, Message(w) PROVE ProfileIInv'
    BY <2>3, MessageStep
  <2>4. ASSUME NEW w \in Workers, Deliver(w) PROVE ProfileIInv'
    BY <2>4, DeliverStep
  <2>5. ASSUME NEW w \in Workers, Leave(w) PROVE ProfileIInv'
    BY <2>5, LeaveStep
  <2>6. ASSUME NEW w \in Workers, Resolve(w) PROVE ProfileIInv'
    BY <2>6, ResolveStep
  <2>7. ASSUME NEW w \in Workers, SaveDraft(w) PROVE ProfileIInv'
    BY <2>7, SaveDraftStep
  <2>8. ASSUME NEW w \in Workers, VerifyDraft(w) PROVE ProfileIInv'
    BY <2>8, VerifyDraftStep
  <2>9. ASSUME NEW w \in Workers, InsertCard(w) PROVE ProfileIInv'
    BY <2>9, InsertCardStep
  <2>10. ASSUME NEW w \in Workers, DropCard(w) PROVE ProfileIInv'
    BY <2>10, DropCardStep
  <2>11. ASSUME NEW w \in Workers, Store(w) PROVE ProfileIInv'
    BY <2>11, StoreStep
  <2>12. ASSUME NEW w \in Workers, Confirm(w) PROVE ProfileIInv'
    BY <2>12, ConfirmStep
  <2>13. ASSUME NEW w \in Workers, Stop(w) PROVE ProfileIInv'
    BY <2>13, EndStep DEF Stop, Stops
  <2>14. CASE UNCHANGED vars
    BY <2>14, StutterStep
  <2>15. QED
    BY <2>1, <2>2, <2>3, <2>4, <2>5, <2>6, <2>7, <2>8, <2>9, <2>10, <2>11,
       <2>12, <2>13, <2>14 DEF Next
<1>3. QED
  BY <1>1, <1>2, PTL DEF Spec

\* Every state is well typed: the row's draft is one whenever it awaits an
\* answer, its card one of those in the table, however the turns interleave.
THEOREM ProfileTypeCorrect == Spec => []TypeOK
<1>1. ProfileIInv => TypeOK
  BY DEF ProfileIInv
<1>2. QED
  BY <1>1, ProfileInvariance, PTL

\* A revision names one form (profile_form_revision): what an employee clicked
\* on is what the row holds when the revisions agree.
THEOREM RevisionsNameForms == Spec => []RevisionNamesOneForm
<1>1. ProfileIInv => RevisionNamesOneForm
  <2> SUFFICES ASSUME ProfileIInv, NEW i \in 1 .. Len(clicks),
                      NEW j \in 1 .. Len(clicks),
                      clicks[i].revision = clicks[j].revision
               PROVE  clicks[i].form = clicks[j].form
    BY DEF RevisionNamesOneForm
  <2>1. /\ [revision |-> clicks[i].revision, form |-> clicks[i].form] \in Views
        /\ [revision |-> clicks[j].revision, form |-> clicks[j].form] \in Views
    BY DEF Views
  <2>2. QED
    BY <2>1 DEF ProfileIInv, ViewsOK, OneForm
<1>2. QED
  BY <1>1, ProfileInvariance, PTL

\* A card holds what the employee saw in the review that was submitted, but
\* for the one value that is applied again (_create_profile_confirmation).
THEOREM CardsAreAsReviewed == Spec => []CardIsAsReviewed
<1>1. ProfileIInv => CardIsAsReviewed
  BY DEF ProfileIInv, CardsReviewed, AsReviewed, CardIsAsReviewed
<1>2. QED
  BY <1>1, ProfileInvariance, PTL

\* A reviewed value of child is sent off only with the parent whose list it is
\* from (_clear_invalid_dependents, _validate_current_option_sets).
THEOREM ChildrenFitParents == Spec => []ChildFitsParent
<1>1. ProfileIInv => ChildFitsParent
  <2> SUFFICES ASSUME ProfileIInv PROVE ChildFitsParent
    OBVIOUS
  <2>1. \A i \in 1 .. Len(cards) : Fits(cards[i].draft, cards[i].parent)
    BY DEF ProfileIInv, CardsFit
  <2>2. ASSUME NEW w \in Workers, At(w, "save")
        PROVE  Fits(turn[w].draft, Effective(turn[w].draft.changes,
                                             turn[w].snapshot))
    <3>1. TurnOK(turn[w])
      BY TurnIs
    <3>2. QED
      BY <2>2, <3>1 DEF TurnOK, At
  <2>3. QED
    BY <2>1, <2>2 DEF ChildFitsParent
<1>2. QED
  BY <1>1, ProfileInvariance, PTL

\* Only the end of a turn changes the row, and that of its own turn.
LEMMA OnlyStoreWrites ==
    ASSUME TypeOK, [Next]_vars, conv' # conv, NEW w \in Workers,
           turn'[w] # turn[w]
    PROVE  Store(w)
<1>1. turn \in [Workers -> Turn]
  BY DEF TypeOK
<1>2. \A v \in Workers : \A q, click : NewQuery(v, q, click) => conv' = conv
  BY DEF NewQuery, Begin
<1>3. ASSUME NEW v \in Workers
      PROVE  /\ Message(v) => conv' = conv
             /\ Deliver(v) => conv' = conv
             /\ Leave(v) \/ Resolve(v) \/ SaveDraft(v) => conv' = conv
             /\ VerifyDraft(v) \/ InsertCard(v) => conv' = conv
             /\ DropCard(v) \/ Confirm(v) \/ Stop(v) => conv' = conv
  <2>1. Message(v) => conv' = conv
    BY <1>2 DEF Message, Begin
  <2>2. Deliver(v) => conv' = conv
    BY <1>2 DEF Deliver, Begin
  <2>3. Leave(v) \/ Resolve(v) \/ SaveDraft(v) => conv' = conv
    BY DEF Leave, Resolve, SaveDraft
  <2>4. VerifyDraft(v) \/ InsertCard(v) => conv' = conv
    BY DEF VerifyDraft, InsertCard
  <2>5. DropCard(v) \/ Confirm(v) \/ Stop(v) => conv' = conv
    BY DEF DropCard, Confirm, Stop, Stops
  <2>6. QED
    BY <2>1, <2>2, <2>3, <2>4, <2>5
<1>4. PICK v \in Workers : Store(v)
  BY <1>3 DEF Next, Click, Elsewhere, vars
<1>5. \A u \in Workers : u # v => turn'[u] = turn[u]
  BY <1>1, <1>4 DEF Store, End
<1>6. QED
  BY <1>4, <1>5

\* A change leaves the draft on purpose (guards_profile_draft,
\* resolve_profile_write_node): a turn that has seen it drops it only when
\* told to, when it sent it off, when the record has the value or when parent
\* was answered, or seems to be, because an earlier answer for it is the only
\* one still collected and is no change.
THEOREM DraftsLeaveOnPurpose == Spec => DraftLeavesOnPurpose
<1> DEFINE Purpose(w) ==
       LET t == turn[w]
       IN  Stores(w) /\ t.version = conv.version /\ t.kind # "confirm"
           => \A f \in Keys(conv.draft.changes) :
                 \/ conv'.draft.changes[f] # Nothing
                 \/ t.kind = "stop"
                 \/ t.act \in {"cancel", "switch_discard"}
                 \/ t.act \in {"submit", "save_draft"}
                       /\ conv'.status # "awaiting_clarification"
                 \/ conv.draft.changes[f] = t.snapshot[f]
                 \/ f = t.answered
                 \/ f = "child" /\ t.answered = "parent"
                 \/ /\ f = "child"
                    /\ conv.draft.changes["parent"] = Nothing
                    /\ Keys(conv.draft.collected) = {"parent"}
<1>1. ProfileIInv /\ [Next]_vars => \A w \in Workers : Purpose(w)
  <2> SUFFICES ASSUME ProfileIInv, [Next]_vars, NEW w \in Workers,
                      Stores(w), turn[w].version = conv.version,
                      turn[w].kind # "confirm",
                      NEW f \in Keys(conv.draft.changes)
               PROVE  \/ conv'.draft.changes[f] # Nothing
                      \/ turn[w].kind = "stop"
                      \/ turn[w].act \in {"cancel", "switch_discard"}
                      \/ turn[w].act \in {"submit", "save_draft"}
                            /\ conv'.status # "awaiting_clarification"
                      \/ conv.draft.changes[f] = turn[w].snapshot[f]
                      \/ f = turn[w].answered
                      \/ f = "child" /\ turn[w].answered = "parent"
                      \/ f = "child" /\ Stray(conv.draft)
    BY DEF Stray
  <2>1. PICK t \in Turn : t = turn[w] /\ Sees(t)
    BY TurnIs
  <2>2. Store(w) /\ t.at = "store"
    BY <2>1, OnlyStoreWrites DEF ProfileIInv, Stores, At
  <2>3. PICK plan \in Plans : plan = t.plan
    BY DEF Turn
  <2>4. /\ conv'.status = plan.status
        /\ conv'.draft.changes = plan.draft.changes
    <3>1. plan.draft \in Draft
      BY DEF Plans
    <3>2. /\ conv'.status = plan.status
          /\ conv'.draft = IF plan.form
                           THEN [plan.draft EXCEPT !.revision = conv.version + 1]
                           ELSE plan.draft
      BY <2>1, <2>2, <2>3 DEF Store
    <3>3. QED
      BY <3>1, <3>2 DEF Draft
  <2>5. \/ Kept(t, plan.draft.changes)
        \/ t.kind = "stop"
        \/ t.act \in {"cancel", "switch_discard"}
        \/ t.act \in {"submit", "save_draft"}
              /\ plan.status # "awaiting_clarification"
    BY <2>1, <2>2, <2>3 DEF Sees
  <2>6. QED
    BY <2>1, <2>4, <2>5 DEF Kept, Excused
<1>2. QED
  BY <1>1, ProfileInvariance, PTL DEF Spec, DraftLeavesOnPurpose

=============================================================================
