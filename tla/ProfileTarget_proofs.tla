------------------------ MODULE ProfileTarget_proofs ------------------------
(***************************************************************************)
(* Profile edits for any rows, texts and resolutions, and for any values   *)
(* the record takes: a card shows what it changes but for one answer that  *)
(* the record had in between, a new row is complete, a draft stays with    *)
(* its row, and the button that cancels ends the session or leaves no      *)
(* change in it.                                                           *)
(*                                                                         *)
(* Answers stay among what is given and are read again in every turn, so   *)
(* the proof has to say of each what it can still do.  SessOK says it of   *)
(* the session that is stored, and of the one a card brings back; Ready    *)
(* says it of the session when a turn has taken its answer.                *)
(***************************************************************************)
EXTENDS ProfileTarget, FiniteSetTheorems, TLAPS

\* The fields that the target can have changes of.
Place(s) == IF s.resource = None THEN {"alias"} ELSE FieldsOf[s.resource]

\* The fields of a resource whose answers are still among what is given.
Known(s) == {g \in FieldsOf[s.resource] : s.given[g] # None}

\* A change that the selected fields leave out is the only answer known.
HidesOne(s) == \A f \in Keys(s.changes) \ s.keys : Known(s) \subseteq {f}

\* Each answer is one to its question.
GivenOK(s) ==
    /\ s.given["section"] \in {"profile", Typed, None}
    /\ s.given["field"] \in Fields \cup {Typed, None}
    /\ s.given["record"] \in Named
    /\ s.given["derived"] \in {"create", "update", Typed, None}
    /\ \A f \in Fields : s.given[f] \in Values \cup {None}

\* So is each option on offer.
OffersOK(s) ==
    /\ s.asked = "section" => s.offers \subseteq {"profile"}
    /\ s.asked = "field" => s.offers \subseteq Fields
    /\ s.asked = "field" /\ "alias" \in s.offers => s.resource = None
    /\ s.asked = "record" => s.offers \subseteq Records /\ s.resource = "edu"
    /\ s.asked = "derived" => s.offers \subseteq {"create", "update"}
    /\ s.asked \in Fields => s.offers \subseteq Values
    /\ s.asked = "item" => s.offers \subseteq Direct \cup Resources
    /\ s.asked = "action" => s.offers \subseteq Actions

\* Nothing has been said but what the edit is about.
Fresh(s) ==
    /\ s.changes = Empty /\ ~s.derived /\ s.record = None
    /\ s.given["record"] = None
    /\ \A f \in Fields : s.given[f] = None

\* The section and one of several fields are asked for before all else.
Early(s) ==
    /\ s.asked # None
    /\ ~s.settled \/ s.section = None => s.asked \in {"section", "field"}
    /\ s.asked \in {"section", "field"}
         => Fresh(s) /\ s.form = {} /\ s.displayed = None
    /\ ~s.settled => s.given["field"] \notin Fields

\* What is given and changed fits the target.
Fits(s) ==
    /\ Keys(s.changes) \subseteq Place(s)
    /\ \A f \in Fields : s.given[f] # None => f = "alias" \/ f \in Place(s)
    /\ s.given["field"] = "alias" => s.resource = None
    /\ s.given["derived"] \in {"create", "update"}
         => s.derived /\ s.resource = "edu" /\ s.op = s.given["derived"]
    /\ s.record # None \/ s.given["record"] # None => s.resource = "edu"

\* So does what is on display.
Shows(s) ==
    /\ s.form \subseteq Place(s)
    /\ s.asked \in Fields => s.asked \in Place(s)
    /\ s.resource # None /\ s.asked \in Fields => s.asked \in s.keys
    /\ s.resource # None /\ s.keys # {} => s.form \subseteq s.keys
    /\ s.asked \in {"item", "derived"} =>
         s.changes = Empty /\ s.given["field"] # "alias" /\ s.resource = None
    /\ s.asked = "item" => s.given["field"] # "degree" /\ s.keys = {}
    /\ s.form # {} => s.asked = "action"
    /\ s.asked = "derived" => s.keys = {"degree"} /\ s.derived
    /\ s.asked = "action" /\ s.resource = "edu" /\ s.op # "create"
         => s.record # None
    /\ s.displayed # None => s.resource # None /\ s.record = s.displayed

\* A field of the section keeps being the one that is edited.
OfField(s) ==
    s.resource = None /\ s.settled =>
        /\ s.keys \in {{}, {"alias"}, {"degree"}}
        /\ s.changes # Empty \/ s.asked = "action" =>
             s.keys = {"alias"} /\ s.given["field"] \in {None, "alias"}
        /\ s.asked \in Fields =>
             s.keys = {"alias"} /\ s.given["field"] # "degree"

\* Where an edit of a resource may be finished, all of its fields are reviewed.
\* Where it may be sent off, what the review leaves out is the only answer
\* known, unless the employee was made to choose one of several.
OfResource(s) ==
    /\ s.resource # None /\ s.settled => s.keys \subseteq FieldsOf[s.resource]
    /\ s.resource = "contact" /\ s.settled => s.op = "update"
    /\ ~s.chosen => s.given["field"] = None
    /\ s.resource # None /\ s.asked = "action" /\ "finish" \in s.offers
         => s.keys = {}
    /\ s.resource # None /\ s.asked = "action" /\ "submit" \in s.offers =>
         (~s.chosen /\ s.op = "update" /\ s.keys # {} => HidesOne(s))

SessOK(s) ==
    /\ s \in Session /\ s.open
    /\ GivenOK(s) /\ OffersOK(s) /\ Early(s) /\ Fits(s) /\ Shows(s)
    /\ OfField(s) /\ OfResource(s)

\* A card, and the review it brings back when it fails.
CardOK(c) ==
    /\ c \in Cards /\ SessOK(c.review)
    /\ c.op # "delete" /\ ~c.review.chosen =>
         \A f \in Keys(c.changes) \ c.shown :
            /\ c.resource # None
            /\ {g \in FieldsOf[c.resource] : c.review.given[g] # None}
                  \subseteq {f}
    /\ c.op = "create" =>
         /\ c.resource = "edu"
         /\ Required \subseteq Keys(c.changes)
         /\ Keys(c.changes) \subseteq FieldsOf["edu"]

Cancel == Message("action", "action", "cancel")

\* A cancellation that left the session open left no change in it.
CancelOK ==
    last.message = Cancel /\ last.stored =>
        /\ card = NoCard
        /\ sess.open => sess.resource = None /\ sess.changes = Empty

TargetIInv ==
    /\ TypeOK
    /\ sess.open => SessOK(sess)
    /\ ~sess.open => sess = NoSession
    /\ card # NoCard => CardOK(card)
    /\ CancelOK

\* What a turn comes to that is about the row.
Outcome(row) ==
    /\ rows' = rows
    /\ \/ sess' = NoSession /\ card' = card
       \/ SessOK(sess') /\ sess'.displayed \in {row, None} /\ card' = card
       \/ sess' = NoSession /\ CardOK(card') /\ card'.record = row

-----------------------------------------------------------------------------
(* The session that is stored                                              *)

\* The constants that are no words.
LEMMA Distinct ==
    /\ None # Typed /\ None \notin Words /\ Typed \notin Words
    /\ None \notin Fields /\ Typed \notin Fields
    /\ None \notin Values /\ None \notin Resources /\ None \notin Operations
    /\ Typed \notin Operations /\ None # "profile" /\ Typed # "profile"
    /\ None \notin Records /\ None \notin Texts
    /\ None # "contact" /\ None # "edu" /\ None # "create" /\ None # "update"
    /\ None # "alias" /\ None # "degree" /\ Typed # "alias"
    /\ None \notin Questions /\ None \notin Actions
<1>1. /\ Fields \subseteq Words /\ Values \subseteq Words
      /\ Resources \subseteq Words /\ Operations \subseteq Words
      /\ Questions \subseteq Words /\ Actions \subseteq Words
      /\ {"profile", "contact", "edu", "create", "update", "alias", "degree"}
           \subseteq Words
  BY DEF Words, Operations, Resources, Fields, Direct, Values
<1>2. None # Typed /\ None \notin Words /\ Typed \notin Words
        /\ None \notin Records /\ None \notin Texts
  BY NoneAssumption
<1> QED BY <1>1, <1>2

LEMMA FieldSets ==
    /\ FieldsOf["contact"] = {"phone"} /\ FieldsOf["edu"] = {"name", "place"}
    /\ Fields = {"alias", "degree", "phone", "name", "place"}
    /\ Direct = {"alias", "degree"} /\ Resources = {"contact", "edu"}
    /\ \A r \in Resources : FieldsOf[r] \subseteq Fields \ Direct
    /\ Fields \subseteq Slots /\ Slots \subseteq Questions
BY DEF FieldsOf, Fields, Direct, Resources, Slots, Questions

LEMMA GivenStays ==
    ASSUME NEW s, NEW a, GivenOK(s), a.given = s.given
    PROVE  GivenOK(a)
BY DEF GivenOK

LEMMA AskIs ==
    ASSUME NEW s \in Session, NEW slot \in Questions,
           NEW offers \in SUBSET (Resources \cup Fields \cup Records \cup Values
                            \cup Actions \cup {"profile", "create", "update"})
    PROVE  LET a == Ask(s, slot, offers)
           IN  /\ a \in Session
               /\ a.open /\ a.asked = slot /\ a.offers = offers /\ a.form = {}
               /\ a.op = s.op /\ a.settled = s.settled /\ a.section = s.section
               /\ a.resource = s.resource /\ a.keys = s.keys
               /\ a.reference = s.reference /\ a.record = s.record
               /\ a.changes = s.changes /\ a.derived = s.derived
               /\ a.given = s.given /\ a.displayed = None
               /\ a.chosen = s.chosen
BY DEF Ask, Session

LEMMA EmptyIs ==
    /\ Empty \in Dict /\ Keys(Empty) = {}
    /\ \A c \in Dict : Keys(c) = {} => c = Empty
BY Distinct DEF Empty, Dict, Keys

LEMMA DifferingIs ==
    ASSUME NEW c \in Dict, NEW fields \in SUBSET Fields
    PROVE  /\ Differing(c, fields) \in Dict
           /\ Keys(Differing(c, fields)) = Keys(c) \cap fields
BY Distinct DEF Differing, Dict, Keys

\* What is known of a session whose target is settled.
Settled(t) ==
    /\ t \in Session /\ t.settled /\ t.section = "profile"
    /\ GivenOK(t) /\ Fits(t)
    /\ ~t.chosen => t.given["field"] = None

LEMMA SectionKeeps ==
    ASSUME NEW t \in Session, GivenOK(t), Fits(t), Fresh(t),
           t.settled \/ t.given["field"] \notin Fields,
           ~t.chosen => t.given["field"] = None
    PROVE  SessOK(AskSection(t)) /\ AskSection(t).displayed = None
<1> DEFINE b == [t EXCEPT !.section = None, !.resource = None, !.keys = {},
                          !.reference = None, !.changes = Empty]
           a == Ask(b, "section", {"profile"})
<1>1. /\ b \in Session /\ b.settled = t.settled /\ b.section = None
      /\ b.resource = None /\ b.keys = {} /\ b.changes = Empty
      /\ b.derived = t.derived /\ b.given = t.given /\ b.record = t.record
      /\ b.chosen = t.chosen /\ b.op = t.op
  BY EmptyIs DEF Session, Named
<1>2. "section" \in Questions
  BY DEF Questions, Slots
<1> HIDE DEF b
<1>3. /\ a \in Session /\ a.open /\ a.asked = "section"
      /\ a.offers = {"profile"} /\ a.form = {} /\ a.settled = t.settled
      /\ a.section = None /\ a.resource = None /\ a.keys = {}
      /\ a.changes = Empty /\ a.derived = t.derived /\ a.given = t.given
      /\ a.record = t.record /\ a.displayed = None /\ a.chosen = t.chosen
      /\ a.op = t.op
  BY <1>1, <1>2, AskIs
<1>4. AskSection(t) = a
  BY DEF AskSection, b
<1> HIDE DEF a
<1>5. a.given["field"] \in Fields => a.settled
  BY <1>3
<1>6. Keys(a.changes) = {}
  BY <1>3, EmptyIs
<1>7. "section" \notin Fields
  BY FieldSets
<1>8. GivenOK(a) /\ OffersOK(a) /\ Early(a)
  <2>1. GivenOK(a)
    BY <1>3, GivenStays
  <2>2. OffersOK(a)
    BY <1>3, <1>5, <1>7, FieldSets DEF OffersOK
  <2>3. Early(a)
    BY <1>2, <1>3, <1>5, <1>7, Distinct DEF Early, Fresh
  <2> QED BY <2>1, <2>2, <2>3
<1>9. Fits(a) /\ Shows(a)
  BY <1>3, <1>6, <1>7, Distinct DEF Fits, Shows, Fresh
<1>10. OfField(a) /\ OfResource(a)
  BY <1>3, <1>6, <1>7, Distinct DEF OfField, OfResource
<1> QED BY <1>3, <1>4, <1>8, <1>9, <1>10 DEF SessOK

LEMMA FieldAskedKeeps ==
    ASSUME NEW t \in Session, GivenOK(t), Fits(t), Fresh(t), ~t.settled,
           t.given["field"] \notin Fields,
           ~t.chosen => t.given["field"] = None,
           NEW among, among = IF t.resource = None THEN Direct
                                                   ELSE FieldsOf[t.resource]
    PROVE  LET a == Ask(t, "field", t.keys \cap among)
           IN  SessOK(a) /\ a.displayed = None
<1> DEFINE a == Ask(t, "field", t.keys \cap among)
<1>1. t.resource \in Resources \cup {None}
  BY DEF Session
<1>2. /\ t.keys \cap among \subseteq Fields
      /\ "alias" \in t.keys \cap among => t.resource = None
  BY <1>1, FieldSets
<1>3. "field" \in Questions /\ "field" \notin Fields
  BY FieldSets DEF Questions, Slots
<1>4. /\ a \in Session /\ a.open /\ a.asked = "field"
      /\ a.offers = t.keys \cap among /\ a.form = {} /\ a.settled = t.settled
      /\ a.section = t.section /\ a.resource = t.resource /\ a.keys = t.keys
      /\ a.changes = Empty /\ a.derived = t.derived /\ a.given = t.given
      /\ a.record = t.record /\ a.displayed = None /\ a.chosen = t.chosen
      /\ a.op = t.op
  BY <1>2, <1>3, AskIs DEF Fresh
<1> HIDE DEF a
<1>5. Keys(a.changes) = {}
  BY <1>4, EmptyIs
<1>6. GivenOK(a) /\ OffersOK(a) /\ Early(a)
  <2>1. GivenOK(a)
    BY <1>4, GivenStays
  <2>2. OffersOK(a)
    BY <1>2, <1>3, <1>4, FieldSets DEF OffersOK
  <2>3. Early(a)
    BY <1>2, <1>3, <1>4, Distinct DEF Early, Fresh
  <2> QED BY <2>1, <2>2, <2>3
<1>7. Fits(a) /\ Shows(a)
  BY <1>3, <1>4, <1>5, Distinct DEF Fits, Shows, Fresh, Place
<1>8. OfField(a) /\ OfResource(a)
  BY <1>3, <1>4, <1>5, Distinct DEF OfField, OfResource
<1>9. Ask(t, "field", t.keys \cap among) = a
  BY DEF a
<1> QED BY <1>4, <1>6, <1>7, <1>8, <1>9 DEF SessOK

LEMMA ItemAskedKeeps ==
    ASSUME NEW t, Settled(t), t.resource = None, t.changes = Empty,
           t.given["field"] \notin Direct
    PROVE  LET a == Ask([t EXCEPT !.keys = {}], "item", ItemsFor(t.op))
           IN  SessOK(a) /\ a.displayed = None
<1> DEFINE b == [t EXCEPT !.keys = {}]
           a == Ask(b, "item", ItemsFor(t.op))
<1>1. /\ b \in Session /\ b.settled /\ b.section = "profile"
      /\ b.resource = None /\ b.keys = {} /\ b.changes = Empty
      /\ b.derived = t.derived /\ b.given = t.given /\ b.record = t.record
      /\ b.chosen = t.chosen /\ b.op = t.op
  BY DEF Session, Settled
<1>2. /\ "item" \in Questions /\ "item" \notin Fields
      /\ ItemsFor(t.op) \subseteq Direct \cup Resources
      /\ Direct \subseteq Fields
  BY FieldSets DEF Questions, Slots, ItemsFor
<1> HIDE DEF b
<1>3. /\ a \in Session /\ a.open /\ a.asked = "item"
      /\ a.offers = ItemsFor(t.op) /\ a.form = {} /\ a.settled
      /\ a.section = "profile" /\ a.resource = None /\ a.keys = {}
      /\ a.changes = Empty /\ a.derived = t.derived /\ a.given = t.given
      /\ a.record = t.record /\ a.displayed = None /\ a.chosen = t.chosen
      /\ a.op = t.op
  BY <1>1, <1>2, AskIs
<1>4. Ask([t EXCEPT !.keys = {}], "item", ItemsFor(t.op)) = a
  BY DEF b
<1> HIDE DEF a
<1>5. Keys(a.changes) = {}
  BY <1>3, EmptyIs
<1>6. GivenOK(a) /\ OffersOK(a) /\ Early(a)
  <2>1. GivenOK(a)
    BY <1>3, GivenStays DEF Settled
  <2>2. OffersOK(a)
    BY <1>2, <1>3, FieldSets DEF OffersOK
  <2>3. Early(a)
    BY <1>2, <1>3, Distinct DEF Early, Settled
  <2> QED BY <2>1, <2>2, <2>3
<1>7. Fits(a) /\ Shows(a)
  BY <1>2, <1>3, <1>5, Distinct, FieldSets DEF Fits, Shows, Place, Settled
<1>8. OfField(a) /\ OfResource(a)
  BY <1>2, <1>3, <1>5, Distinct DEF OfField, OfResource, Settled
<1> QED BY <1>3, <1>4, <1>6, <1>7, <1>8 DEF SessOK

-----------------------------------------------------------------------------
(* A field of the section                                                  *)

\* What is known when a field of the section is edited.
OnField(d) ==
    /\ Settled(d) /\ d.resource = None /\ d.keys = {"alias"}
    /\ d.given["field"] # "degree"
    /\ d.changes # Empty => d.given["field"] \in {None, "alias"}

LEMMA RedirectKeeps ==
    ASSUME NEW t, Settled(t), t.resource = None, t.changes = Empty,
           t.given["field"] # "alias"
    PROVE  SessOK(Redirect(t)) /\ Redirect(t).displayed = None
<1> DEFINE b == [t EXCEPT !.derived = TRUE, !.op = "update", !.resource = None,
                          !.keys = {"degree"}, !.reference = None]
           a == Ask(b, "derived", {"create", "update"})
<1>1. /\ b \in Session /\ b.settled /\ b.section = "profile"
      /\ b.resource = None /\ b.keys = {"degree"} /\ b.changes = Empty
      /\ b.derived /\ b.given = t.given /\ b.record = t.record
      /\ b.chosen = t.chosen /\ b.op = "update"
  <2>1. "degree" \in Fields /\ "update" \in Operations /\ None \in Named
    BY FieldSets DEF Operations, Named
  <2>2. t \in Session /\ t.settled /\ t.section = "profile"
    BY DEF Settled
  <2>3. /\ b.settled /\ b.section = "profile" /\ b.resource = None
        /\ b.keys = {"degree"} /\ b.changes = Empty /\ b.derived
        /\ b.given = t.given /\ b.record = t.record
        /\ b.chosen = t.chosen /\ b.op = "update"
    BY <2>2 DEF Session
  <2>4. {"degree"} \in SUBSET (Fields \cup {Typed}) /\ None \in Resources \cup {None}
    BY <2>1
  <2>5. b \in Session
    BY <2>1, <2>2, <2>4 DEF Session
  <2> QED BY <2>3, <2>5
<1>2. "derived" \in Questions /\ "derived" \notin Fields
  BY FieldSets DEF Questions, Slots
<1> HIDE DEF b
<1>3. /\ a \in Session /\ a.open /\ a.asked = "derived"
      /\ a.offers = {"create", "update"} /\ a.form = {} /\ a.settled
      /\ a.section = "profile" /\ a.resource = None /\ a.keys = {"degree"}
      /\ a.changes = Empty /\ a.derived /\ a.given = t.given
      /\ a.record = t.record /\ a.displayed = None /\ a.chosen = t.chosen
      /\ a.op = "update"
  BY <1>1, <1>2, AskIs
<1>4. Redirect(t) = a
  BY DEF Redirect, b
<1> HIDE DEF a
<1>5. Keys(a.changes) = {}
  BY <1>3, EmptyIs
<1>6. GivenOK(a) /\ OffersOK(a) /\ Early(a)
  <2>1. GivenOK(a)
    BY <1>3, GivenStays DEF Settled
  <2>2. OffersOK(a)
    BY <1>2, <1>3, FieldSets DEF OffersOK
  <2>3. Early(a)
    BY <1>2, <1>3, Distinct DEF Early
  <2> QED BY <2>1, <2>2, <2>3
<1>7. Fits(a) /\ Shows(a)
  <2>1. Fits(a)
    BY <1>3, <1>5, Distinct DEF Fits, Place, Settled
  <2>2. Shows(a)
    BY <1>2, <1>3, Distinct DEF Shows
  <2> QED BY <2>1, <2>2
<1>8. OfField(a) /\ OfResource(a)
  BY <1>2, <1>3, <1>5, Distinct DEF OfField, OfResource, Settled
<1> QED BY <1>3, <1>4, <1>6, <1>7, <1>8 DEF SessOK

LEMMA AskAliasKeeps ==
    ASSUME NEW d, OnField(d)
    PROVE  SessOK(AskValue(d, "alias")) /\ AskValue(d, "alias").displayed = None
<1> DEFINE a == AskValue(d, "alias")
<1>1. d \in Session /\ Settled(d)
  BY DEF OnField, Settled
<1>2. /\ "alias" \in Questions /\ "alias" \in Fields /\ "alias" \in Listed
      /\ "alias" \notin {"section", "field", "record", "derived", "item", "action"}
  BY FieldSets DEF Listed
<1>3. /\ a \in Session /\ a.open /\ a.asked = "alias"
      /\ a.offers = Values /\ a.form = {} /\ a.settled
      /\ a.section = "profile" /\ a.resource = None /\ a.keys = {"alias"}
      /\ a.changes = d.changes /\ a.derived = d.derived /\ a.given = d.given
      /\ a.record = d.record /\ a.displayed = None /\ a.chosen = d.chosen
      /\ a.op = d.op
  <2>1. AskValue(d, "alias") = Ask(d, "alias", Values)
    BY <1>2 DEF AskValue
  <2> QED BY <1>1, <1>2, <2>1, AskIs DEF OnField, Settled
<1> HIDE DEF a
<1>6. GivenOK(a) /\ OffersOK(a) /\ Early(a)
  <2>1. GivenOK(a)
    BY <1>1, <1>3, GivenStays DEF Settled
  <2>2. OffersOK(a)
    BY <1>2, <1>3 DEF OffersOK
  <2>3. Early(a)
    BY <1>2, <1>3, Distinct DEF Early
  <2> QED BY <2>1, <2>2, <2>3
<1>7. Fits(a) /\ Shows(a)
  <2>1. Fits(a)
    BY <1>1, <1>3, Distinct DEF Fits, Place, Settled, OnField
  <2>2. Shows(a)
    BY <1>2, <1>3, Distinct DEF Shows, Place
  <2> QED BY <2>1, <2>2
<1>8. OfField(a) /\ OfResource(a)
  <2>1. a.changes # Empty => a.given["field"] \in {None, "alias"}
    BY <1>3 DEF OnField
  <2>2. a.given["field"] # "degree" /\ (~a.chosen => a.given["field"] = None)
    BY <1>3 DEF OnField, Settled
  <2> QED BY <1>2, <1>3, <2>1, <2>2, Distinct DEF OfField, OfResource
<1> QED BY <1>3, <1>6, <1>7, <1>8 DEF SessOK, a

\* What the forms and reviews have in common that a field of the section has.
LEMMA FieldDisplayKeeps ==
    ASSUME NEW d, OnField(d), d.given["field"] \in {None, "alias"},
           NEW a \in Session, a.open, a.asked = "action",
           a.offers \subseteq Actions, a.form \subseteq {"alias"}, a.settled,
           a.section = "profile", a.resource = None, a.keys = {"alias"},
           Keys(a.changes) \subseteq {"alias"}, a.given = d.given,
           a.derived = d.derived, a.record = None, a.displayed = None,
           a.chosen = d.chosen, a.op = d.op
    PROVE  SessOK(a)
<1>1. "action" \in Questions /\ "action" \notin Fields
  BY FieldSets DEF Questions
<1>2. GivenOK(a) /\ OffersOK(a) /\ Early(a)
  <2>1. GivenOK(a)
    BY GivenStays DEF OnField, Settled
  <2> QED BY <1>1, <2>1, Distinct DEF OffersOK, Early
<1>3. Fits(a)
  <2>1. a.given["derived"] \notin {"create", "update"}
          /\ a.given["record"] = None
    BY Distinct DEF OnField, Settled, Fits
  <2>2. \A f \in Fields : a.given[f] # None => f = "alias"
    BY DEF OnField, Settled, Fits, Place
  <2> QED BY <2>1, <2>2 DEF Fits, Place
<1>4. Shows(a)
  BY <1>1, Distinct DEF Shows, Place
<1>5. OfField(a) /\ OfResource(a)
  <2>1. ~a.chosen => a.given["field"] = None
    BY DEF OnField, Settled
  <2> QED BY <1>1, <2>1, Distinct DEF OfField, OfResource
<1> QED BY <1>2, <1>3, <1>4, <1>5 DEF SessOK

\* A draft that comes back invalid names no row, which changes nothing else.
LEMMA ReferenceStays ==
    ASSUME NEW s, SessOK(s)
    PROVE  LET a == [s EXCEPT !.reference = None]
           IN  SessOK(a) /\ a.displayed = s.displayed
<1> DEFINE a == [s EXCEPT !.reference = None]
<1>1. s \in Session
  BY DEF SessOK
<1>2. /\ a.open = s.open /\ a.asked = s.asked /\ a.offers = s.offers
      /\ a.form = s.form /\ a.op = s.op /\ a.settled = s.settled
      /\ a.section = s.section /\ a.resource = s.resource /\ a.keys = s.keys
      /\ a.record = s.record /\ a.changes = s.changes
      /\ a.derived = s.derived /\ a.given = s.given
      /\ a.displayed = s.displayed /\ a.chosen = s.chosen
  BY <1>1 DEF Session
<1>3. a \in Session
  BY <1>1 DEF Session, Named
<1> HIDE DEF a
<1>4. GivenOK(a) /\ OffersOK(a) /\ Early(a)
  BY <1>2 DEF SessOK, GivenOK, OffersOK, Early, Fresh
<1>5. Fits(a) /\ Shows(a)
  BY <1>2 DEF SessOK, Fits, Shows, Place
<1>6. OfField(a) /\ OfResource(a)
  BY <1>2 DEF SessOK, OfField, OfResource, HidesOne, Known
<1> QED BY <1>2, <1>3, <1>4, <1>5, <1>6 DEF SessOK, a

\* Nor does a review that comes back without what was given.
LEMMA GivenLost ==
    ASSUME NEW s, SessOK(s)
    PROVE  SessOK([s EXCEPT !.given = NoSession.given])
<1> DEFINE a == [s EXCEPT !.given = NoSession.given]
<1>1. s \in Session
  BY DEF SessOK
<1>2. /\ \A x \in Slots : NoSession.given[x] = None
      /\ NoSession.given \in [Slots -> Fields \cup Named \cup Values
                                \cup {Typed, "profile", "create", "update"}]
  BY DEF NoSession, Named
<1>3. /\ {"section", "field", "record", "derived"} \subseteq Slots
      /\ Fields \subseteq Slots
  BY FieldSets DEF Slots
<1>4. /\ a.open = s.open /\ a.asked = s.asked /\ a.offers = s.offers
      /\ a.form = s.form /\ a.op = s.op /\ a.settled = s.settled
      /\ a.section = s.section /\ a.resource = s.resource /\ a.keys = s.keys
      /\ a.record = s.record /\ a.changes = s.changes
      /\ a.derived = s.derived /\ a.displayed = s.displayed
      /\ a.chosen = s.chosen /\ a.given = NoSession.given /\ a \in Session
  BY <1>1, <1>2 DEF Session
<1> HIDE DEF a
<1>5. /\ a.given["section"] = None /\ a.given["field"] = None
      /\ a.given["record"] = None /\ a.given["derived"] = None
      /\ \A f \in Fields : a.given[f] = None
  BY <1>2, <1>3, <1>4
<1>6. GivenOK(a) /\ OffersOK(a) /\ Early(a)
  <2>1. GivenOK(a)
    BY <1>5 DEF GivenOK, Named
  <2>2. OffersOK(a)
    BY <1>4 DEF SessOK, OffersOK
  <2>3. Early(a)
    BY <1>4, <1>5, Distinct DEF SessOK, Early, Fresh
  <2> QED BY <2>1, <2>2, <2>3
<1>7. Fits(a) /\ Shows(a)
  <2>1. Fits(a)
    BY <1>4, <1>5, Distinct DEF SessOK, Fits, Place
  <2>2. Shows(a)
    BY <1>4, <1>5, Distinct DEF SessOK, Shows, Place
  <2> QED BY <2>1, <2>2
<1>8. OfField(a) /\ OfResource(a)
  <2>1. OfField(a)
    BY <1>4, <1>5, Distinct DEF SessOK, OfField
  <2>2. a.resource # None => Known(a) = {}
    <3>1. a.resource # None => FieldsOf[a.resource] \subseteq Fields
      BY <1>4, FieldSets DEF Session
    <3> QED BY <1>5, <3>1 DEF Known
  <2>3. OfResource(a)
    BY <1>4, <1>5, <2>2 DEF SessOK, OfResource, HidesOne
  <2> QED BY <2>1, <2>3
<1> QED BY <1>4, <1>6, <1>7, <1>8 DEF SessOK, a

LEMMA DirectFormKeeps ==
    ASSUME NEW d, OnField(d), d.given["field"] \in {None, "alias"},
           NEW c \in Dict, Keys(c) \subseteq {"alias"}, d.record = None,
           NEW offers \in SUBSET Actions
    PROVE  LET a == DirectForm(d, c, offers)
           IN  SessOK(a) /\ a.displayed = None
<1> DEFINE b == [d EXCEPT !.changes = c]
           o == offers \cup {"edit", "cancel"}
           q == Ask(b, "action", o)
           a == [q EXCEPT !.form = d.keys]
<1>1. d \in Session /\ d.settled /\ d.section = "profile" /\ d.resource = None
        /\ d.keys = {"alias"}
  BY DEF OnField, Settled
<1>2. /\ b \in Session /\ b.settled /\ b.section = "profile"
      /\ b.resource = None /\ b.keys = {"alias"} /\ b.changes = c
      /\ b.derived = d.derived /\ b.given = d.given /\ b.record = None
      /\ b.chosen = d.chosen /\ b.op = d.op
  BY <1>1 DEF Session
<1>3. "action" \in Questions /\ o \subseteq Actions /\ {"alias"} \subseteq Fields
  BY FieldSets DEF Questions, Actions
<1> HIDE DEF b, o
<1>4. /\ q \in Session /\ q.open /\ q.asked = "action" /\ q.offers = o
      /\ q.settled /\ q.section = "profile" /\ q.resource = None
      /\ q.keys = {"alias"} /\ q.changes = c /\ q.derived = d.derived
      /\ q.given = d.given /\ q.record = None /\ q.displayed = None
      /\ q.chosen = d.chosen /\ q.op = d.op
  BY <1>2, <1>3, AskIs
<1> HIDE DEF q
<1>5. /\ a \in Session /\ a.open /\ a.asked = "action" /\ a.offers = o
      /\ a.settled /\ a.section = "profile" /\ a.resource = None
      /\ a.keys = {"alias"} /\ a.changes = c /\ a.derived = d.derived
      /\ a.given = d.given /\ a.record = None /\ a.displayed = None
      /\ a.chosen = d.chosen /\ a.op = d.op /\ a.form = {"alias"}
  BY <1>1, <1>3, <1>4 DEF Session
<1>6. DirectForm(d, c, offers) = a
  BY DEF DirectForm, b, o, q
<1> HIDE DEF a
<1>7. SessOK(a)
  BY <1>3, <1>5, FieldDisplayKeeps
<1> QED BY <1>5, <1>6, <1>7

LEMMA FieldSummaryKeeps ==
    ASSUME NEW d, OnField(d), d.given["field"] \in {None, "alias"},
           NEW c \in Dict, Keys(c) = {"alias"}
    PROVE  LET a == Summary(d, {"alias"}, c, None)
           IN  SessOK(a) /\ a.displayed = None
<1> DEFINE b == [d EXCEPT !.changes = c, !.keys = {"alias"}, !.record = None,
                          !.reference = None]
           q == Ask(b, "action", Reviewing)
           a == [q EXCEPT !.form = {"alias"}, !.displayed = None]
<1>1. d \in Session /\ d.settled /\ d.section = "profile" /\ d.resource = None
        /\ d.keys = {"alias"}
  BY DEF OnField, Settled
<1>2. {"alias"} \in SUBSET (Fields \cup {Typed}) /\ None \in Named
        /\ {"alias"} \in SUBSET Fields
  BY FieldSets DEF Named
<1>3. /\ b \in Session /\ b.settled /\ b.section = "profile"
      /\ b.resource = None /\ b.keys = {"alias"} /\ b.changes = c
      /\ b.derived = d.derived /\ b.given = d.given /\ b.record = None
      /\ b.chosen = d.chosen /\ b.op = d.op
  BY <1>1, <1>2 DEF Session
<1>4. "action" \in Questions /\ Reviewing \subseteq Actions
  BY DEF Questions, Actions, Reviewing
<1> HIDE DEF b
<1>5. /\ q \in Session /\ q.open /\ q.asked = "action" /\ q.offers = Reviewing
      /\ q.settled /\ q.section = "profile" /\ q.resource = None
      /\ q.keys = {"alias"} /\ q.changes = c /\ q.derived = d.derived
      /\ q.given = d.given /\ q.record = None /\ q.displayed = None
      /\ q.chosen = d.chosen /\ q.op = d.op
  BY <1>3, <1>4, AskIs
<1> HIDE DEF q
<1>6. /\ a \in Session /\ a.open /\ a.asked = "action" /\ a.offers = Reviewing
      /\ a.settled /\ a.section = "profile" /\ a.resource = None
      /\ a.keys = {"alias"} /\ a.changes = c /\ a.derived = d.derived
      /\ a.given = d.given /\ a.record = None /\ a.displayed = None
      /\ a.chosen = d.chosen /\ a.op = d.op /\ a.form = {"alias"}
  BY <1>2, <1>5 DEF Session
<1>7. Summary(d, {"alias"}, c, None) = a
  BY DEF Summary, b, q
<1> HIDE DEF a
<1>8. SessOK(a)
  BY <1>4, <1>6, FieldDisplayKeeps
<1> QED BY <1>6, <1>7, <1>8

LEMMA FieldCardKeeps ==
    ASSUME NEW d, OnField(d), d.given["field"] \in {None, "alias"},
           d.op = "update",
           NEW c \in Dict, Keys(c) = {"alias"}
    PROVE  LET k == CardFor(d, {"alias"}, c, None)
           IN  CardOK(k) /\ k.record = None
<1> DEFINE b == [d EXCEPT !.changes = c, !.record = None]
           q == Ask(b, "action", Reviewing)
           a == [q EXCEPT !.form = {"alias"}, !.displayed = None]
           k == CardFor(d, {"alias"}, c, None)
<1>1. d \in Session /\ d.settled /\ d.section = "profile" /\ d.resource = None
        /\ d.keys = {"alias"}
  BY DEF OnField, Settled
<1>2. {"alias"} \in SUBSET Fields
  BY FieldSets
<1>3. /\ b \in Session /\ b.settled /\ b.section = "profile"
      /\ b.resource = None /\ b.keys = {"alias"} /\ b.changes = c
      /\ b.derived = d.derived /\ b.given = d.given /\ b.record = None
      /\ b.chosen = d.chosen /\ b.op = d.op
  BY <1>1, <1>2 DEF Session
<1>4. "action" \in Questions /\ Reviewing \subseteq Actions
  BY DEF Questions, Actions, Reviewing
<1> HIDE DEF b
<1>5. /\ q \in Session /\ q.open /\ q.asked = "action" /\ q.offers = Reviewing
      /\ q.settled /\ q.section = "profile" /\ q.resource = None
      /\ q.keys = {"alias"} /\ q.changes = c /\ q.derived = d.derived
      /\ q.given = d.given /\ q.record = None /\ q.displayed = None
      /\ q.chosen = d.chosen /\ q.op = d.op
  BY <1>3, <1>4, AskIs
<1> HIDE DEF q
<1>6. /\ a \in Session /\ a.open /\ a.asked = "action" /\ a.offers = Reviewing
      /\ a.settled /\ a.section = "profile" /\ a.resource = None
      /\ a.keys = {"alias"} /\ a.changes = c /\ a.derived = d.derived
      /\ a.given = d.given /\ a.record = None /\ a.displayed = None
      /\ a.chosen = d.chosen /\ a.op = d.op /\ a.form = {"alias"}
  BY <1>2, <1>5 DEF Session
<1>7. k = [op |-> "update", resource |-> None, record |-> None,
           changes |-> c, shown |-> {"alias"}, review |-> a]
  BY <1>1 DEF CardFor, b, q
<1> HIDE DEF a
<1>8. SessOK(a)
  BY <1>4, <1>6, FieldDisplayKeeps
<1> HIDE DEF k
<1>9. /\ k.op = "update" /\ k.review = a /\ k.changes = c
      /\ k.shown = {"alias"} /\ k.record = None
  BY <1>7
<1>10. k \in Cards
  BY <1>2, <1>6, <1>7 DEF Cards, Operations
<1>11. CardOK(k)
  BY <1>8, <1>9, <1>10 DEF CardOK
<1> QED BY <1>9, <1>11 DEF k

\* What is known of a field of the section when a turn has taken its answer.
ReadyField(t, m) ==
    /\ t.changes # Empty =>
         t.keys = {"alias"} /\ t.given["field"] \in {None, "alias"}
    /\ Structured(m) /\ m.field \in Fields =>
         /\ m.field = "alias" /\ "degree" \notin t.keys
         /\ t.given["alias"] # None /\ t.given["field"] # "degree"
         /\ t.given["field"] \in {None, "alias"} \/ "alias" \notin t.keys
    /\ t.given["field"] \in Direct => t.keys = {t.given["field"]}

LEMMA DirectFieldKeeps ==
    ASSUME NEW t, NEW m, Settled(t), t.resource = None, t.keys # {},
           t.keys \subseteq Direct, ReadyField(t, m),
           DirectField(t, m)
    PROVE  Outcome(None)
<1> DEFINE act == ActOf(m)
           changes == IF Structured(m) /\ m.field \in Direct
                      THEN [t.changes EXCEPT ![m.field] = t.given[m.field]]
                      ELSE t.changes
           d == [t EXCEPT !.op = "update", !.changes = changes]
           differing(unlike) == Differing(changes, unlike)
           form(unlike) == DirectForm(d, differing(unlike), {"finish"})
<1>1. /\ t \in Session /\ t.changes \in Dict /\ Keys(t.changes) \subseteq {"alias"}
      /\ GivenOK(t) /\ t.record = None
  BY Distinct DEF Settled, Session, Fits, Place
<1>2. /\ "alias" \in Fields /\ "alias" \in Direct /\ Direct \subseteq Fields
      /\ "alias" # "degree"
  BY FieldSets
<1>3. changes = IF Structured(m) /\ m.field \in Direct
                THEN [t.changes EXCEPT !["alias"] = t.given["alias"]]
                ELSE t.changes
  BY <1>2 DEF ReadyField
<1>4. changes \in Dict /\ Keys(changes) \subseteq {"alias"}
  <2>1. t.given["alias"] \in Values \cup {None}
    BY <1>1, <1>2 DEF GivenOK
  <2> QED BY <1>1, <1>2, <1>3, <2>1 DEF Dict, Keys
<1> HIDE DEF changes
<1>5. /\ d \in Session /\ d.settled /\ d.section = "profile"
      /\ d.resource = None /\ d.keys = t.keys /\ d.changes = changes
      /\ d.derived = t.derived /\ d.given = t.given /\ d.record = None
      /\ d.chosen = t.chosen /\ d.op = "update"
  BY <1>1, <1>4 DEF Settled, Session, Operations
<1> HIDE DEF d
<1>6. Settled(d)
  <2>1. Fits(d)
    BY <1>1, <1>4, <1>5, Distinct DEF Settled, Fits, Place
  <2> QED BY <1>1, <1>5, <2>1, GivenStays DEF Settled
<1>7. t.changes = Empty \/ t.keys = {"alias"}
  BY DEF ReadyField
<1>8. /\ "degree" \in t.keys => changes = Empty /\ t.given["field"] # "alias"
      /\ "degree" \notin t.keys => OnField(d)
      /\ "degree" \notin t.keys /\ changes["alias"] # None =>
           t.given["field"] \in {None, "alias"}
  <2>1. ASSUME "degree" \in t.keys
        PROVE  changes = Empty /\ t.given["field"] # "alias"
    BY <1>2, <1>3, <1>7, <2>1 DEF ReadyField
  <2>2. ASSUME "degree" \notin t.keys PROVE t.keys = {"alias"}
    BY <2>2, FieldSets
  <2>3. ASSUME "degree" \notin t.keys PROVE t.given["field"] # "degree"
    BY <1>2, <2>2, <2>3, FieldSets DEF ReadyField
  <2>4. ASSUME "degree" \notin t.keys, changes # Empty
        PROVE  t.given["field"] \in {None, "alias"}
    BY <1>2, <1>3, <2>2, <2>4 DEF ReadyField
  <2>5. changes["alias"] # None => changes # Empty
    BY <1>2 DEF Empty
  <2> QED BY <1>5, <1>6, <2>1, <2>2, <2>3, <2>4, <2>5 DEF OnField
<1>9. ASSUME NEW unlike \in SUBSET Direct
      PROVE  differing(unlike) \in Dict
               /\ Keys(differing(unlike)) \subseteq {"alias"}
  BY <1>2, <1>4, DifferingIs
<1>10. Empty \in Dict /\ Keys(Empty) \subseteq {"alias"}
  BY EmptyIs
<1>11. ASSUME NEW c \in Dict, Keys(c) \subseteq {"alias"},
              NEW offers \in SUBSET Actions,
              "degree" \notin t.keys, changes["alias"] # None
       PROVE  SessOK(DirectForm(d, c, offers))
                /\ DirectForm(d, c, offers).displayed = None
  BY <1>5, <1>8, <1>11, DirectFormKeeps
<1>12. CASE "degree" \in t.keys /\ Stored(Redirect(d))
  BY <1>5, <1>6, <1>8, <1>12, RedirectKeeps DEF Outcome, Stored
<1>13. CASE "degree" \notin t.keys /\ Stored(AskValue(d, "alias"))
  BY <1>8, <1>13, AskAliasKeeps DEF Outcome, Stored
<1>14. CASE /\ "degree" \notin t.keys /\ changes["alias"] # None
            /\ Stored(DirectForm(d, Empty, {}))
  BY <1>10, <1>11, <1>14 DEF Outcome, Stored
<1>15. CASE Closed
  BY <1>15 DEF Outcome, Stored, Closed
<1>16. ASSUME NEW unlike \in SUBSET Direct,
              "degree" \notin t.keys, changes["alias"] # None,
              Stored(form(unlike))
       PROVE  Outcome(None)
  <2>1. {"finish"} \subseteq Actions
    BY DEF Actions
  <2>2. SessOK(form(unlike)) /\ form(unlike).displayed = None
    BY <1>9, <1>11, <1>16, <2>1
  <2> QED BY <1>16, <2>2 DEF Outcome, Stored
<1>17. ASSUME NEW unlike \in SUBSET Direct,
              "degree" \notin t.keys, changes["alias"] # None,
              Keys(differing(unlike)) # {},
              Ends(d, act, d.keys, differing(unlike), None, form(unlike))
       PROVE  Outcome(None)
  <2> DEFINE c == differing(unlike)
             again == form(unlike)
  <2>1. {"finish"} \subseteq Actions
    BY DEF Actions
  <2>2. c \in Dict /\ Keys(c) = {"alias"} /\ d.keys = {"alias"}
    BY <1>5, <1>8, <1>9, <1>17 DEF OnField
  <2>3. SessOK(again) /\ again.displayed = None
    BY <1>9, <1>11, <1>17, <2>1
  <2>4. Ends(d, act, d.keys, c, None, again)
    BY <1>17
  <2> HIDE DEF c, again
  <2>5. CASE Opens(CardFor(d, d.keys, c, None))
    BY <1>5, <1>8, <1>17, <2>2, <2>5, FieldCardKeeps DEF Outcome, Opens
  <2>6. CASE Closed
    BY <2>6 DEF Outcome, Stored, Closed
  <2>7. CASE Stored([again EXCEPT !.reference = None])
    BY <2>3, <2>7, ReferenceStays DEF Outcome, Stored
  <2>8. CASE Stored(Summary(d, d.keys, c, None))
    BY <1>5, <1>8, <1>17, <2>2, <2>8, FieldSummaryKeeps DEF Outcome, Stored
  <2> QED BY <2>4, <2>5, <2>6, <2>7, <2>8 DEF Ends
<1> QED
  <2>1. \/ "degree" \in t.keys /\ Stored(Redirect(d))
        \/ /\ "degree" \notin t.keys
           /\ act = "edit" \/ changes["alias"] = None
           /\ Stored(AskValue(d, "alias"))
        \/ /\ "degree" \notin t.keys
           /\ act # "edit" /\ changes["alias"] # None
           /\ \E unlike \in SUBSET Direct :
                 \/ Stored(DirectForm(d, Empty, {}))
                 \/ Closed
                 \/ Stored(form(unlike))
                 \/ /\ Keys(differing(unlike)) # {}
                    /\ Ends(d, act, d.keys, differing(unlike), None,
                            form(unlike))
    BY DEF DirectField, d, changes, differing, form
  <2> HIDE DEF act, form, differing
  <2> QED BY <2>1, <1>12, <1>13, <1>14, <1>15, <1>16, <1>17

-----------------------------------------------------------------------------
(* A resource                                                              *)

\* What is known when a resource is edited.
OnPlace(d) ==
    /\ Settled(d) /\ d.resource \in Resources
    /\ d.keys \subseteq FieldsOf[d.resource]
    /\ d.resource = "contact" => d.op = "update"

\* And when it ends: where the selected fields narrow what is sent off, what
\* they leave out is the only answer known.
Narrowed(d, act) ==
    ~d.chosen /\ d.op = "update" /\ d.keys # {} =>
        /\ act # "finish"
        /\ act = "submit" => HidesOne(d)

\* And when its row is known.
OfRow(d, row) ==
    /\ row \in Records \cup {None}
    /\ row # None => d.resource = "edu" /\ d.record = row
    /\ d.resource = "edu" /\ d.op # "create" => row # None

LEMMA PlaceIs ==
    ASSUME NEW d, OnPlace(d)
    PROVE  /\ d \in Session /\ d.settled /\ d.section = "profile"
           /\ d.resource # None /\ Place(d) = FieldsOf[d.resource]
           /\ FieldsOf[d.resource] \subseteq Fields
           /\ "alias" \notin FieldsOf[d.resource]
           /\ FieldsOf[d.resource] # {}
           /\ d.resource \in {"contact", "edu"}
           /\ d.changes \in Dict
           /\ Keys(d.changes) \subseteq FieldsOf[d.resource]
           /\ GivenOK(d) /\ Fits(d) /\ (~d.chosen => d.given["field"] = None)
<1>1. d \in Session /\ d.settled /\ d.section = "profile" /\ d.changes \in Dict
        /\ d.resource \in Resources /\ GivenOK(d) /\ Fits(d)
        /\ (~d.chosen => d.given["field"] = None)
  BY DEF OnPlace, Settled, Session
<1>2. d.resource # None /\ Place(d) = FieldsOf[d.resource]
  BY <1>1, Distinct DEF Place
<1>3. /\ FieldsOf[d.resource] \subseteq Fields /\ "alias" \notin FieldsOf[d.resource]
      /\ FieldsOf[d.resource] # {} /\ d.resource \in {"contact", "edu"}
  BY <1>1, FieldSets
<1>4. Keys(d.changes) \subseteq FieldsOf[d.resource]
  BY <1>1, <1>2 DEF Fits
<1> QED BY <1>1, <1>2, <1>3, <1>4, EmptyIs

\* What the forms, reviews and cards have in common that a resource has.
LEMMA DisplayKeeps ==
    ASSUME NEW d, NEW row, OnPlace(d), OfRow(d, row),
           NEW a \in Session, a.open, a.asked = "action",
           a.offers \subseteq Actions, a.settled, a.section = "profile",
           a.resource = d.resource, a.op = d.op, a.derived = d.derived,
           a.chosen = d.chosen, a.given = d.given,
           Keys(a.changes) \subseteq FieldsOf[d.resource],
           a.record = d.record \/ a.record = row,
           a.form \subseteq FieldsOf[d.resource],
           a.keys \subseteq FieldsOf[d.resource],
           a.keys # {} => a.form \subseteq a.keys,
           "finish" \in a.offers => a.keys = {},
           ~d.chosen /\ d.op = "update" /\ a.keys # {} => HidesOne(a),
           a.displayed \in {row, None}
    PROVE  SessOK(a)
<1>1. "action" \in Questions /\ "action" \notin Fields
  BY FieldSets DEF Questions
<1>2. GivenOK(a) /\ OffersOK(a) /\ Early(a)
  <2>1. GivenOK(a)
    BY PlaceIs, GivenStays
  <2> QED BY <1>1, <2>1, Distinct DEF OffersOK, Early
<1>3. /\ a.resource # None /\ Place(a) = FieldsOf[d.resource]
      /\ Place(a) = Place(d) /\ a.resource \in {"contact", "edu"}
  BY PlaceIs DEF Place
<1>4. Fits(a)
  <2>1. a.given["field"] # "alias"
    BY PlaceIs DEF Fits
  <2>2. a.given["derived"] \in {"create", "update"}
         => a.derived /\ a.resource = "edu" /\ a.op = a.given["derived"]
    BY PlaceIs DEF Fits
  <2>3. \A f \in Fields : a.given[f] # None => f = "alias" \/ f \in Place(a)
    BY <1>3, PlaceIs DEF Fits
  <2>4. a.record # None \/ a.given["record"] # None => a.resource = "edu"
    BY PlaceIs DEF Fits, OfRow
  <2> QED BY <1>3, <2>1, <2>2, <2>3, <2>4 DEF Fits
<1>5. Shows(a)
  <2>1. a.resource = "edu" /\ a.op # "create" => a.record # None
    BY DEF OfRow
  <2>2. a.displayed # None => a.record = a.displayed
    BY DEF OfRow
  <2> QED BY <1>1, <1>3, <2>1, <2>2, Distinct DEF Shows
<1>6. OfField(a) /\ OfResource(a)
  <2>1. ~a.chosen => a.given["field"] = None
    BY PlaceIs
  <2>2. a.resource = "contact" => a.op = "update"
    BY DEF OnPlace
  <2> QED BY <1>3, <2>1, <2>2 DEF OfField, OfResource
<1> QED BY <1>2, <1>4, <1>5, <1>6 DEF SessOK

LEMMA FormKeeps ==
    ASSUME NEW d, NEW row, OnPlace(d), OfRow(d, row),
           NEW c \in Dict, Keys(c) \subseteq FieldsOf[d.resource],
           NEW shown \in {row, None}, NEW offers \in SUBSET Actions
    PROVE  LET a == Form(d, c, shown, offers)
           IN  SessOK(a) /\ a.displayed = shown
<1> DEFINE b == [d EXCEPT !.changes = c, !.keys = {}]
           q == Ask(b, "action", offers)
           a == [q EXCEPT !.form = FieldsOf[d.resource], !.displayed = shown]
<1>1. d \in Session /\ d.settled /\ d.section = "profile"
        /\ FieldsOf[d.resource] \subseteq Fields
  BY PlaceIs
<1>2. /\ b \in Session /\ b.settled /\ b.section = "profile"
      /\ b.resource = d.resource /\ b.keys = {} /\ b.changes = c
      /\ b.derived = d.derived /\ b.given = d.given /\ b.record = d.record
      /\ b.chosen = d.chosen /\ b.op = d.op
  BY <1>1 DEF Session
<1>3. "action" \in Questions
  BY DEF Questions
<1> HIDE DEF b
<1>4. /\ q \in Session /\ q.open /\ q.asked = "action" /\ q.offers = offers
      /\ q.settled /\ q.section = "profile" /\ q.resource = d.resource
      /\ q.keys = {} /\ q.changes = c /\ q.derived = d.derived
      /\ q.given = d.given /\ q.record = d.record
      /\ q.chosen = d.chosen /\ q.op = d.op
  BY <1>2, <1>3, AskIs
<1> HIDE DEF q
<1>5. shown \in Records \cup {None}
  BY DEF OfRow
<1>6. /\ a \in Session /\ a.open /\ a.asked = "action" /\ a.offers = offers
      /\ a.settled /\ a.section = "profile" /\ a.resource = d.resource
      /\ a.keys = {} /\ a.changes = c /\ a.derived = d.derived
      /\ a.given = d.given /\ a.record = d.record /\ a.displayed = shown
      /\ a.chosen = d.chosen /\ a.op = d.op
      /\ a.form = FieldsOf[d.resource]
  BY <1>1, <1>4, <1>5 DEF Session
<1>7. Form(d, c, shown, offers) = a
  BY <1>1 DEF Form, b, q, Ask, Session
<1> HIDE DEF a
<1>8. SessOK(a)
  BY <1>6, PlaceIs, DisplayKeeps
<1> QED BY <1>6, <1>7, <1>8

\* The fields of a review, unless they are narrowed, are all of the resource.
Reviewed(d) == IF d.keys = {} THEN FieldsOf[d.resource] ELSE d.keys

LEMMA SummaryKeeps ==
    ASSUME NEW d, NEW row, OnPlace(d), OfRow(d, row),
           Narrowed(d, "finish"),
           NEW c \in Dict, Keys(c) \subseteq FieldsOf[d.resource]
    PROVE  LET a == Summary(d, Reviewed(d), c, row)
           IN  SessOK(a) /\ a.displayed = row
<1> DEFINE shown == Reviewed(d) \cap Keys(c)
           b == [d EXCEPT !.changes = c, !.keys = shown, !.record = row,
                          !.reference = None]
           q == Ask(b, "action", Reviewing)
           a == [q EXCEPT !.form = shown, !.displayed = row]
<1>1. d \in Session /\ d.settled /\ d.section = "profile"
        /\ FieldsOf[d.resource] \subseteq Fields
  BY PlaceIs
<1>2. /\ shown \subseteq FieldsOf[d.resource] /\ shown \subseteq Fields
      /\ row \in Records \cup {None} /\ None \in Named
      /\ ~d.chosen /\ d.op = "update" => Keys(c) \ shown = {}
  <2>1. Reviewed(d) \subseteq FieldsOf[d.resource]
    BY DEF Reviewed, OnPlace
  <2>2. ~d.chosen /\ d.op = "update" => Reviewed(d) = FieldsOf[d.resource]
    BY DEF Reviewed, Narrowed
  <2> QED BY <1>1, <2>1, <2>2 DEF OfRow, Named
<1> HIDE DEF shown
<1>3. /\ b \in Session /\ b.settled /\ b.section = "profile"
      /\ b.resource = d.resource /\ b.keys = shown /\ b.changes = c
      /\ b.derived = d.derived /\ b.given = d.given /\ b.record = row
      /\ b.chosen = d.chosen /\ b.op = d.op
  BY <1>1, <1>2 DEF Session
<1>4. "action" \in Questions /\ Reviewing \subseteq Actions
  BY DEF Questions, Actions, Reviewing
<1> HIDE DEF b
<1>5. /\ q \in Session /\ q.open /\ q.asked = "action" /\ q.offers = Reviewing
      /\ q.settled /\ q.section = "profile" /\ q.resource = d.resource
      /\ q.keys = shown /\ q.changes = c /\ q.derived = d.derived
      /\ q.given = d.given /\ q.record = row
      /\ q.chosen = d.chosen /\ q.op = d.op
  BY <1>3, <1>4, AskIs
<1> HIDE DEF q
<1>6. /\ a \in Session /\ a.open /\ a.asked = "action" /\ a.offers = Reviewing
      /\ a.settled /\ a.section = "profile" /\ a.resource = d.resource
      /\ a.keys = shown /\ a.changes = c /\ a.derived = d.derived
      /\ a.given = d.given /\ a.record = row /\ a.displayed = row
      /\ a.chosen = d.chosen /\ a.op = d.op /\ a.form = shown
  BY <1>2, <1>5 DEF Session
<1>7. Summary(d, Reviewed(d), c, row) = a
  BY DEF Summary, b, q, shown
<1> HIDE DEF a
<1>8. SessOK(a)
  <2>1. "finish" \notin a.offers
    BY <1>6 DEF Reviewing
  <2>2. ~d.chosen /\ d.op = "update" => HidesOne(a)
    BY <1>2, <1>6 DEF HidesOne
  <2> QED BY <1>2, <1>4, <1>6, <2>1, <2>2, DisplayKeeps
<1> QED BY <1>6, <1>7, <1>8

LEMMA CardKeeps ==
    ASSUME NEW d, NEW row, OnPlace(d), OfRow(d, row),
           NEW c \in Dict, Keys(c) \subseteq Keys(d.changes),
           Narrowed(d, "submit"),
           d.op = "create" => Required \subseteq Keys(c),
           NEW fields,
           IF d.op = "delete" THEN fields = {} ELSE fields = Reviewed(d)
    PROVE  LET k == CardFor(d, fields, c, row)
           IN  CardOK(k) /\ k.record = row
<1> DEFINE form == fields \cap Keys(c)
           b == [d EXCEPT !.changes = c, !.record = row]
           q == Ask(b, "action", Reviewing)
           a == [q EXCEPT !.form = form, !.displayed = row]
           shown == CASE d.op = "create" -> FieldsOf[d.resource] \cap Keys(c)
                      [] d.op = "update" -> fields \cap Keys(c)
                      [] d.op = "delete" -> {}
           k == CardFor(d, fields, c, row)
<1>1. d \in Session /\ d.settled /\ d.section = "profile"
        /\ FieldsOf[d.resource] \subseteq Fields /\ d.op \in Operations
        /\ Keys(c) \subseteq FieldsOf[d.resource]
  BY PlaceIs DEF Session
<1>2. /\ form \subseteq FieldsOf[d.resource] /\ form \in SUBSET Fields
      /\ d.keys # {} => form \subseteq d.keys
      /\ row \in Records \cup {None}
  BY <1>1 DEF Reviewed, OfRow
<1>3. /\ shown \in SUBSET Fields
      /\ d.op = "create" => shown = Keys(c)
      /\ d.op = "update" /\ d.keys = {} => shown = Keys(c)
      /\ d.op = "update" /\ d.keys # {} => shown = d.keys \cap Keys(c)
      /\ d.op = "update" /\ ~d.chosen /\ d.keys # {} =>
           \A f \in Keys(c) \ d.keys : Known(d) \subseteq {f}
  <2>1. CASE d.op = "create"
    BY <1>1, <2>1
  <2>2. CASE d.op = "update"
    BY <1>1, <1>2, <2>2 DEF Reviewed, Narrowed, HidesOne
  <2>3. CASE d.op = "delete"
    BY <2>3
  <2> QED BY <1>1, <2>1, <2>2, <2>3 DEF Operations
<1>4. /\ b \in Session /\ b.settled /\ b.section = "profile"
      /\ b.resource = d.resource /\ b.keys = d.keys /\ b.changes = c
      /\ b.derived = d.derived /\ b.given = d.given /\ b.record = row
      /\ b.chosen = d.chosen /\ b.op = d.op
  BY <1>1, <1>2 DEF Session
<1>5. "action" \in Questions /\ Reviewing \subseteq Actions
  BY DEF Questions, Actions, Reviewing
<1> HIDE DEF b, form
<1>6. /\ q \in Session /\ q.open /\ q.asked = "action" /\ q.offers = Reviewing
      /\ q.settled /\ q.section = "profile" /\ q.resource = d.resource
      /\ q.keys = d.keys /\ q.changes = c /\ q.derived = d.derived
      /\ q.given = d.given /\ q.record = row
      /\ q.chosen = d.chosen /\ q.op = d.op
  BY <1>4, <1>5, AskIs
<1> HIDE DEF q
<1>7. /\ a \in Session /\ a.open /\ a.asked = "action" /\ a.offers = Reviewing
      /\ a.settled /\ a.section = "profile" /\ a.resource = d.resource
      /\ a.keys = d.keys /\ a.changes = c /\ a.derived = d.derived
      /\ a.given = d.given /\ a.record = row /\ a.displayed = row
      /\ a.chosen = d.chosen /\ a.op = d.op /\ a.form = form
  BY <1>2, <1>6 DEF Session
<1>8. k = [op |-> d.op, resource |-> d.resource, record |-> row,
           changes |-> c, shown |-> shown, review |-> a]
  BY DEF CardFor, b, q, form
<1> HIDE DEF a, shown
<1>9. SessOK(a)
  <2>1. "finish" \notin a.offers
    BY <1>7 DEF Reviewing
  <2>2. ~d.chosen /\ d.op = "update" /\ a.keys # {} => HidesOne(a)
    BY <1>3, <1>7 DEF HidesOne, Known
  <2> QED BY <1>1, <1>2, <1>5, <1>7, <2>1, <2>2, DisplayKeeps DEF OnPlace
<1> HIDE DEF k
<1>10. /\ k.op = d.op /\ k.review = a /\ k.changes = c /\ k.shown = shown
       /\ k.record = row /\ k.resource = d.resource
  BY <1>8
<1>11. k \in Cards
  <2>1. d.resource \in Resources
    BY DEF OnPlace
  <2> QED BY <1>1, <1>2, <1>3, <1>7, <1>8, <2>1 DEF Cards
<1>12. k.op # "delete" /\ ~k.review.chosen =>
         \A f \in Keys(k.changes) \ k.shown :
            /\ k.resource # None
            /\ {g \in FieldsOf[k.resource] : k.review.given[g] # None}
                  \subseteq {f}
  BY <1>1, <1>3, <1>7, <1>10, PlaceIs DEF Operations, Known
<1>13. k.op = "create" => k.resource = "edu"
  BY <1>10, PlaceIs DEF OnPlace
<1>14. CardOK(k)
  BY <1>1, <1>9, <1>10, <1>11, <1>12, <1>13, PlaceIs DEF CardOK
<1> QED BY <1>10, <1>14 DEF k

LEMMA ValueAskedKeeps ==
    ASSUME NEW d, OnPlace(d), NEW f \in d.keys
    PROVE  SessOK(AskValue(d, f)) /\ AskValue(d, f).displayed = None
<1> DEFINE o == IF f \in Listed THEN Values ELSE {}
           a == Ask(d, f, o)
<1>1. d \in Session /\ f \in Fields /\ f \in FieldsOf[d.resource]
  BY PlaceIs DEF OnPlace
<1>2. /\ f \in Questions
      /\ f \notin {"section", "field", "record", "derived", "item", "action"}
  BY <1>1, FieldSets
<1>3. /\ a \in Session /\ a.open /\ a.asked = f /\ a.offers = o /\ a.form = {}
      /\ a.settled /\ a.section = "profile" /\ a.resource = d.resource
      /\ a.keys = d.keys /\ a.changes = d.changes /\ a.derived = d.derived
      /\ a.given = d.given /\ a.record = d.record /\ a.displayed = None
      /\ a.chosen = d.chosen /\ a.op = d.op
  BY <1>1, <1>2, PlaceIs, AskIs
<1>4. o \subseteq Values
  OBVIOUS
<1>5. AskValue(d, f) = a
  BY DEF AskValue
<1> HIDE DEF a, o
<1>6. /\ a.resource # None /\ Place(a) = FieldsOf[d.resource]
      /\ Place(a) = Place(d)
  BY <1>3, PlaceIs DEF Place
<1>7. GivenOK(a) /\ OffersOK(a) /\ Early(a)
  <2>1. GivenOK(a)
    BY <1>3, PlaceIs, GivenStays
  <2>2. OffersOK(a)
    BY <1>2, <1>3, <1>4 DEF OffersOK
  <2>3. Early(a)
    BY <1>1, <1>2, <1>3, Distinct DEF Early
  <2> QED BY <2>1, <2>2, <2>3
<1>8. Fits(a) /\ Shows(a)
  <2>1. Fits(a)
    BY <1>3, <1>6, PlaceIs DEF Fits
  <2>2. Shows(a)
    BY <1>1, <1>2, <1>3, <1>6 DEF Shows
  <2> QED BY <2>1, <2>2
<1>9. OfField(a) /\ OfResource(a)
  BY <1>2, <1>3, <1>6, PlaceIs DEF OfField, OfResource, OnPlace
<1> QED BY <1>3, <1>5, <1>7, <1>8, <1>9 DEF SessOK

LEMMA RecordAskedKeeps ==
    ASSUME NEW d, OnPlace(d), d.resource = "edu", NEW offers \in SUBSET Records
    PROVE  LET a == Ask(d, "record", offers)
           IN  SessOK(a) /\ a.displayed = None
<1> DEFINE a == Ask(d, "record", offers)
<1>1. "record" \in Questions /\ "record" \notin Fields
  BY FieldSets DEF Questions, Slots
<1>2. /\ a \in Session /\ a.open /\ a.asked = "record" /\ a.offers = offers
      /\ a.form = {}
      /\ a.settled /\ a.section = "profile" /\ a.resource = d.resource
      /\ a.keys = d.keys /\ a.changes = d.changes /\ a.derived = d.derived
      /\ a.given = d.given /\ a.record = d.record /\ a.displayed = None
      /\ a.chosen = d.chosen /\ a.op = d.op
  BY <1>1, PlaceIs, AskIs
<1> HIDE DEF a
<1>3. /\ a.resource # None /\ Place(a) = FieldsOf[d.resource]
      /\ Place(a) = Place(d)
  BY <1>2, PlaceIs DEF Place
<1>4. GivenOK(a) /\ OffersOK(a) /\ Early(a)
  <2>1. GivenOK(a)
    BY <1>2, PlaceIs, GivenStays
  <2>2. OffersOK(a)
    BY <1>1, <1>2 DEF OffersOK
  <2>3. Early(a)
    BY <1>1, <1>2, Distinct DEF Early
  <2> QED BY <2>1, <2>2, <2>3
<1>5. Fits(a) /\ Shows(a)
  <2>1. Fits(a)
    BY <1>2, <1>3, PlaceIs DEF Fits
  <2>2. Shows(a)
    BY <1>1, <1>2, <1>3 DEF Shows
  <2> QED BY <2>1, <2>2
<1>6. OfField(a) /\ OfResource(a)
  BY <1>1, <1>2, <1>3, PlaceIs DEF OfField, OfResource, OnPlace
<1> QED BY <1>2, <1>4, <1>5, <1>6 DEF SessOK, a

\* What a terminal action comes to.
LEMMA EndsKeeps ==
    ASSUME NEW d, NEW row, OnPlace(d), OfRow(d, row), d.op # "delete",
           NEW c \in Dict, Keys(c) \subseteq Keys(d.changes),
           d.op = "create" => Required \subseteq Keys(c),
           NEW again, SessOK(again), again.displayed \in {row, None},
           NEW act, Narrowed(d, act), Ends(d, act, Reviewed(d), c, row, again)
    PROVE  Outcome(row)
<1>1. CASE act = "submit" /\ Opens(CardFor(d, Reviewed(d), c, row))
  BY <1>1, CardKeeps DEF Outcome, Opens
<1>2. CASE Closed
  BY <1>2 DEF Outcome, Stored, Closed
<1>3. CASE Stored([again EXCEPT !.reference = None])
  BY <1>3, ReferenceStays DEF Outcome, Stored
<1>4. CASE act = "finish" /\ Stored(Summary(d, Reviewed(d), c, row))
  <2>1. Keys(c) \subseteq FieldsOf[d.resource]
    BY PlaceIs
  <2> QED BY <1>4, <2>1, SummaryKeeps DEF Outcome, Stored
<1> QED BY <1>1, <1>2, <1>3, <1>4 DEF Ends

LEMMA CreateKeeps ==
    ASSUME NEW d, NEW row, OnPlace(d), OfRow(d, row), d.op = "create",
           NEW act, Create(d, act, row)
    PROVE  Outcome(row)
<1> DEFINE form == Form(d, d.changes, None, {"finish", "cancel"})
<1>1. {"finish", "cancel"} \subseteq Actions
  BY DEF Actions
<1>2. SessOK(form) /\ form.displayed = None
  BY <1>1, PlaceIs, FormKeeps
<1>3. \/ Stored(form)
      \/ /\ Missing(d.changes) = {}
         /\ Ends(d, act, Reviewed(d), d.changes, row, form)
  BY DEF Create, Reviewed
<1> HIDE DEF form
<1>4. CASE Stored(form)
  BY <1>2, <1>4 DEF Outcome, Stored
<1>5. CASE /\ Missing(d.changes) = {}
           /\ Ends(d, act, Reviewed(d), d.changes, row, form)
  <2>1. Required \subseteq Keys(d.changes) /\ Narrowed(d, act)
    BY <1>5 DEF Missing, Narrowed
  <2> QED BY <1>2, <1>5, <2>1, PlaceIs, EndsKeeps
<1> QED BY <1>3, <1>4, <1>5

LEMMA UpdateKeeps ==
    ASSUME NEW d, NEW row, OnPlace(d), OfRow(d, row), d.op = "update",
           NEW act, Narrowed(d, act), Update(d, act, row)
    PROVE  Outcome(row)
<1> DEFINE fields == FieldsOf[d.resource]
           unanswered == d.keys \ Keys(d.changes)
           changes(unlike) == Differing(d.changes, unlike)
           FormWith(c, offers) == Form(d, c, row, offers)
           form(unlike) == FormWith(changes(unlike), {"finish", "cancel"})
<1>1. {"finish", "cancel"} \subseteq Actions /\ {"continue", "cancel"} \subseteq Actions
  BY DEF Actions
<1>2. ASSUME NEW unlike \in SUBSET fields
      PROVE  /\ changes(unlike) \in Dict
             /\ Keys(changes(unlike)) \subseteq Keys(d.changes)
             /\ Keys(changes(unlike)) \subseteq fields
  <2>1. d.changes \in Dict /\ unlike \in SUBSET Fields
    BY PlaceIs
  <2> HIDE DEF fields
  <2> QED BY <2>1, DifferingIs
<1>3. ASSUME NEW c \in Dict, Keys(c) \subseteq fields,
             NEW offers \in SUBSET Actions
      PROVE  SessOK(FormWith(c, offers)) /\ FormWith(c, offers).displayed = row
  BY <1>3, FormKeeps
<1>4. \/ Stored(FormWith(d.changes, {"finish", "cancel"}))
      \/ \E f \in unanswered : Stored(AskValue(d, f))
      \/ Stored(FormWith(Empty, {"continue", "cancel"}))
      \/ \E unlike \in SUBSET fields :
            \/ Stored(form(unlike))
            \/ Ends(d, act, Reviewed(d), changes(unlike), row, form(unlike))
  BY DEF Update, Reviewed
<1>5. ASSUME NEW unlike \in SUBSET fields
      PROVE  SessOK(form(unlike)) /\ form(unlike).displayed = row
  BY <1>1, <1>2, <1>3
<1> HIDE DEF changes, unanswered, form
<1>6. CASE Stored(FormWith(d.changes, {"finish", "cancel"}))
  <2>1. /\ SessOK(FormWith(d.changes, {"finish", "cancel"}))
        /\ FormWith(d.changes, {"finish", "cancel"}).displayed = row
    BY <1>1, <1>3, PlaceIs
  <2> HIDE DEF FormWith
  <2> QED BY <1>6, <2>1 DEF Outcome, Stored
<1>7. CASE \E f \in unanswered : Stored(AskValue(d, f))
  BY <1>7, ValueAskedKeeps DEF unanswered, Outcome, Stored
<1>8. CASE Stored(FormWith(Empty, {"continue", "cancel"}))
  <2>1. /\ SessOK(FormWith(Empty, {"continue", "cancel"}))
        /\ FormWith(Empty, {"continue", "cancel"}).displayed = row
    BY <1>1, <1>3, EmptyIs
  <2> HIDE DEF FormWith
  <2> QED BY <1>8, <2>1 DEF Outcome, Stored
<1>9. ASSUME NEW unlike \in SUBSET fields, Stored(form(unlike))
      PROVE  Outcome(row)
  BY <1>5, <1>9 DEF Outcome, Stored
<1>10. ASSUME NEW unlike \in SUBSET fields,
              Ends(d, act, Reviewed(d), changes(unlike), row, form(unlike))
       PROVE  Outcome(row)
  <2> DEFINE c == changes(unlike)
             again == form(unlike)
  <2>1. /\ c \in Dict /\ Keys(c) \subseteq Keys(d.changes)
        /\ SessOK(again) /\ again.displayed = row
        /\ Ends(d, act, Reviewed(d), c, row, again)
    BY <1>2, <1>5, <1>10
  <2> HIDE DEF c, again
  <2> QED BY <2>1, EndsKeeps
<1> QED BY <1>4, <1>6, <1>7, <1>8, <1>9, <1>10

LEMMA DeleteKeeps ==
    ASSUME NEW d, NEW row, OnPlace(d), OfRow(d, row), d.op = "delete",
           Delete(d, row)
    PROVE  Outcome(row)
<1>1. CardOK(CardFor(d, {}, d.changes, row))
        /\ CardFor(d, {}, d.changes, row).record = row
  <2>1. Narrowed(d, "submit")
    BY DEF Narrowed
  <2> QED BY <2>1, PlaceIs, CardKeeps
<1> QED BY <1>1 DEF Delete, Outcome, Opens

LEMMA OnRecordKeeps ==
    ASSUME NEW d, NEW row, OnPlace(d), OfRow(d, row), NEW act,
           Narrowed(d, act), OnRecord(d, act, row)
    PROVE  Outcome(row)
<1>1. CASE Closed
  BY <1>1 DEF Outcome, Stored, Closed
<1> QED BY <1>1, CreateKeeps, UpdateKeeps, DeleteKeeps DEF OnRecord

\* What is known of a resource when a turn has taken its answer.
ReadyPlace(t, m) ==
    /\ ~t.chosen /\ t.keys # {}
    /\ t.op = "update" \/ t.resource = "contact"
    => /\ ActOf(m) # "finish"
       /\ ActOf(m) = "submit" => HidesOne(t)

\* One field is all of a set that holds one.
LEMMA OnlyOne ==
    ASSUME NEW r \in Resources, NEW some \in SUBSET FieldsOf[r],
           Cardinality(some) = 1, NEW f \in some
    PROVE  some \subseteq {f}
<1>1. IsFiniteSet(FieldsOf[r])
  <2>1. IsFiniteSet({"phone"})
    BY FS_Singleton
  <2>2. IsFiniteSet({"name"})
    BY FS_Singleton
  <2>3. IsFiniteSet({"name"} \cup {"place"})
    BY <2>2, FS_AddElement
  <2> QED BY <2>1, <2>3, FieldSets
<1>2. IsFiniteSet(some)
  BY <1>1, FS_Subset
<1>3. \E x : some = {x}
  BY <1>2, FS_Singleton
<1> QED BY <1>3

LEMMA InResourceKeeps ==
    ASSUME NEW t, NEW m, NEW row \in Records \cup {None}, Settled(t),
           t.resource \in Resources, ReadyPlace(t, m),
           row # None => t.record = row,
           rows \subseteq Records, InResource(t, m, row)
    PROVE  \E r \in Records \cup {None} :
              Outcome(r) /\ (row # None => r = row)
<1> DEFINE act == ActOf(m)
           fields == FieldsOf[t.resource]
           applied == Applied(t, m)
           changes == [f \in Fields |-> IF f \in applied THEN t.given[f]
                                                         ELSE t.changes[f]]
           d == [t EXCEPT
                   !.op = IF t.op = "create" /\ t.resource = "contact"
                          THEN "update" ELSE @,
                   !.keys = IF act = "continue" THEN {} ELSE @,
                   !.changes = [f \in Fields |-> IF f \in applied
                                                 THEN t.given[f] ELSE @[f]]]
           seeks == t.resource = "edu" /\ t.op # "create" /\ row = None
           candidates == Candidates(t.reference)
<1>1. /\ t \in Session /\ t.settled /\ t.section = "profile" /\ GivenOK(t)
      /\ Fits(t) /\ t.resource # None /\ t.changes \in Dict
      /\ Place(t) = fields /\ fields \subseteq Fields
      /\ t.resource \in {"contact", "edu"}
      /\ Keys(t.changes) \subseteq fields
  <2>1. /\ t \in Session /\ t.settled /\ t.section = "profile" /\ GivenOK(t)
        /\ Fits(t) /\ t.changes \in Dict
    BY DEF Settled, Session
  <2>2. t.resource # None /\ Place(t) = fields /\ fields \subseteq Fields
          /\ t.resource \in {"contact", "edu"}
    BY Distinct, FieldSets DEF Place
  <2>3. Keys(t.changes) \subseteq fields
    BY <2>1, <2>2 DEF Fits
  <2> QED BY <2>1, <2>2, <2>3
<1>2. /\ applied \subseteq fields
      /\ ~(Structured(m) /\ m.field \in fields) =>
           \A f \in applied : Known(t) \subseteq {f}
  <2>1. applied \subseteq fields
    BY DEF Applied
  <2>2. ASSUME ~(Structured(m) /\ m.field \in fields), NEW f \in applied
        PROVE  Known(t) \subseteq {f}
    <3>1. applied = Known(t) /\ Cardinality(Known(t)) = 1
      BY <2>2 DEF Applied, Known
    <3>2. Known(t) \in SUBSET FieldsOf[t.resource]
      BY DEF Known
    <3> QED BY <2>2, <3>1, <3>2, OnlyOne
  <2> QED BY <2>1, <2>2
<1> HIDE DEF applied
<1>3. /\ changes \in Dict /\ Keys(changes) \subseteq fields
      /\ Keys(changes) \subseteq Keys(t.changes) \cup applied
  BY <1>1, <1>2 DEF Dict, Keys, GivenOK
<1>4. /\ d \in Session /\ d.settled /\ d.section = "profile"
      /\ d.resource = t.resource /\ d.changes = changes
      /\ d.keys = IF act = "continue" THEN {} ELSE t.keys
      /\ d.derived = t.derived /\ d.given = t.given /\ d.record = t.record
      /\ d.chosen = t.chosen /\ d.reference = t.reference
      /\ d.op = IF t.op = "create" /\ t.resource = "contact"
                THEN "update" ELSE t.op
  <2> DEFINE e == [t EXCEPT !.op = IF t.op = "create" /\ t.resource = "contact"
                                   THEN "update" ELSE t.op,
                            !.keys = IF act = "continue" THEN {} ELSE t.keys,
                            !.changes = changes]
  <2>1. d = e
    BY <1>1
  <2>2. (IF t.op = "create" /\ t.resource = "contact" THEN "update" ELSE t.op)
          \in Operations
    BY <1>1 DEF Session, Operations
  <2> HIDE DEF changes, act, d
  <2>3. e \in Session
    BY <1>1, <1>3, <2>2 DEF Session
  <2>4. /\ e.settled /\ e.section = "profile"
        /\ e.resource = t.resource /\ e.changes = changes
        /\ e.keys = IF act = "continue" THEN {} ELSE t.keys
        /\ e.derived = t.derived /\ e.given = t.given /\ e.record = t.record
        /\ e.chosen = t.chosen /\ e.reference = t.reference
        /\ e.op = IF t.op = "create" /\ t.resource = "contact"
                  THEN "update" ELSE t.op
    BY <1>1 DEF Session
  <2> QED BY <2>1, <2>3, <2>4
<1>5. /\ t.resource = "contact" => d.op = "update"
      /\ d.keys \subseteq fields
      /\ \/ ~seeks /\ OnRecord(d, act, row)
         \/ seeks /\ Stored(Ask(d, "record", candidates))
         \/ seeks /\ \E found \in candidates :
                        OnRecord([d EXCEPT !.record = found], act, found)
  BY DEF InResource, applied
<1> HIDE DEF changes, d, act
<1>6. Settled(d)
  <2>1. Place(d) = fields
    BY <1>1, <1>4 DEF Place
  <2>2. Fits(d)
    BY <1>1, <1>3, <1>4, <2>1 DEF Fits
  <2>3. GivenOK(d)
    BY <1>1, <1>4, GivenStays
  <2> QED BY <1>4, <2>2, <2>3 DEF Settled
<1>7. OnPlace(d) /\ Narrowed(d, act)
  <2>1. OnPlace(d)
    BY <1>4, <1>5, <1>6 DEF OnPlace
  <2>2. ASSUME ~d.chosen, d.op = "update", d.keys # {}
        PROVE  act # "finish" /\ (act = "submit" => HidesOne(d))
    <3>1. /\ d.keys = t.keys /\ t.keys # {} /\ ~t.chosen
          /\ t.op = "update" \/ t.resource = "contact"
      BY <1>4, <2>2
    <3>2. ASSUME act = "submit", NEW f \in Keys(changes) \ t.keys
          PROVE  Known(t) \subseteq {f}
      <4>1. CASE f \in Keys(t.changes)
        BY <3>1, <3>2, <4>1 DEF ReadyPlace, HidesOne, act
      <4>2. CASE f \in applied
        <5>1. "submit" # None /\ "action" \notin Fields
          BY Distinct, FieldSets DEF Actions
        <5>2. m.field = "action"
          BY <3>2, <5>1 DEF ActOf, act
        <5> QED BY <1>1, <1>2, <4>2, <5>1, <5>2
      <4> QED BY <1>3, <3>2, <4>1, <4>2
    <3> QED BY <1>4, <3>1, <3>2 DEF ReadyPlace, HidesOne, Known, act
  <2> QED BY <2>1, <2>2 DEF Narrowed
<1>8. ~seeks => OfRow(d, row)
  BY <1>1, <1>4, Distinct DEF OfRow, Fits
<1>9. CASE ~seeks /\ OnRecord(d, act, row)
  BY <1>7, <1>8, <1>9, OnRecordKeeps
<1>10. candidates \subseteq Records
  <2>1. t.reference \in Records \cup Texts \cup {None}
    BY <1>1 DEF Session, Named
  <2>2. CASE t.reference = None
    BY <2>2 DEF Candidates
  <2>3. CASE t.reference # None
    BY <2>1, <2>3, MatchAssumption DEF Candidates
  <2> QED BY <2>2, <2>3
<1>11. CASE seeks /\ Stored(Ask(d, "record", candidates))
  <2>1. Outcome(None)
    BY <1>4, <1>7, <1>10, <1>11, RecordAskedKeeps DEF Outcome, Stored
  <2> QED BY <1>11, <2>1
<1>12. CASE seeks /\ \E found \in candidates :
                        OnRecord([d EXCEPT !.record = found], act, found)
  <2> PICK found \in candidates : OnRecord([d EXCEPT !.record = found], act, found)
    BY <1>12
  <2> DEFINE e == [d EXCEPT !.record = found]
  <2>1. found \in Records /\ found # None
    BY <1>10, Distinct
  <2>2. /\ e \in Session /\ e.settled /\ e.section = "profile"
        /\ e.resource = d.resource /\ e.changes = d.changes /\ e.keys = d.keys
        /\ e.derived = d.derived /\ e.given = d.given /\ e.record = found
        /\ e.chosen = d.chosen /\ e.op = d.op
    BY <1>4, <2>1 DEF Session
  <2> HIDE DEF e
  <2>3. d.resource = "edu"
    BY <1>4, <1>12
  <2>4. OnPlace(e) /\ Narrowed(e, act)
    <3>1. Fits(e)
      BY <1>6, <2>2, <2>3 DEF Settled, Fits, Place
    <3>2. Settled(e)
      BY <1>6, <2>2, <3>1, GivenStays DEF Settled
    <3> QED BY <1>7, <2>2, <3>2
            DEF OnPlace, Narrowed, HidesOne, Known
  <2>5. OfRow(e, found)
    BY <2>1, <2>2, <2>3 DEF OfRow
  <2>6. Outcome(found)
    BY <2>4, <2>5, OnRecordKeeps DEF e
  <2> QED BY <1>12, <2>1, <2>6
<1> QED BY <1>5, <1>9, <1>11, <1>12

-----------------------------------------------------------------------------
(* The node                                                                *)

\* What is known of the session when a turn has taken its answer.
Ready(t, m, row) ==
    /\ t \in Session /\ t.section \in {"profile", Typed, None}
    /\ GivenOK(t) /\ Fits(t)
    /\ ~t.chosen => t.given["field"] = None
    /\ ~t.settled \/ t.section = None => Fresh(t)
    /\ ~t.settled => ~Structured(m) /\ t.given["field"] \notin Fields
    /\ row \in Records \cup {None}
    /\ row # None => t.record = row
    /\ m.type = "option" /\ m.field = "item" =>
         /\ m.value \in Direct \cup Resources
         /\ t.changes = Empty /\ t.resource = None
         /\ t.given["field"] \notin Direct
    /\ t.settled /\ t.resource = None => ReadyField(t, m)
    /\ t.settled /\ t.resource # None => ReadyPlace(t, m)

\* What a turn comes to, and that it is about the row where that is known.
Result(row) ==
    \E r \in Records \cup {None} : Outcome(r) /\ (row # None => r = row)

LEMMA ItemTaken ==
    ASSUME NEW t, NEW m, NEW row, Ready(t, m, row), t.settled,
           t.section = "profile"
    PROVE  LET s == WithItem(t, m)
           IN  /\ Settled(s) /\ (row # None => s.record = row)
               /\ s.resource = None => ReadyField(s, m)
               /\ s.resource # None => ReadyPlace(s, m)
<1> DEFINE s == WithItem(t, m)
<1>1. /\ t \in Session /\ GivenOK(t) /\ Fits(t)
      /\ ~t.chosen => t.given["field"] = None
      /\ row # None => t.record = row
  BY DEF Ready
<1>2. CASE ~(m.type = "option" /\ m.field = "item")
  <2>1. s = t
    BY <1>2 DEF WithItem
  <2> QED BY <1>1, <2>1 DEF Ready, Settled
<1>3. CASE m.type = "option" /\ m.field = "item"
  <2> DEFINE res == IF m.value \in Resources THEN m.value ELSE None
             keys == IF m.value \in Resources THEN {} ELSE {m.value}
  <2>1. /\ m.value \in Direct \cup Resources /\ t.changes = Empty
        /\ t.resource = None /\ t.given["field"] \notin Direct
    BY <1>3 DEF Ready
  <2>2. res \in Resources \cup {None} /\ keys \in SUBSET (Fields \cup {Typed})
    BY <2>1, FieldSets
  <2>3. s = [t EXCEPT !.resource = res, !.keys = keys]
    BY <1>3 DEF WithItem
  <2>4. res # None => keys = {}
    OBVIOUS
  <2> HIDE DEF res, keys, s
  <2>5. /\ s.settled /\ s.section = "profile" /\ s.resource = res
        /\ s.keys = keys /\ s.changes = Empty
        /\ s.derived = t.derived /\ s.given = t.given /\ s.record = t.record
        /\ s.chosen = t.chosen /\ s.op = t.op
    BY <1>1, <2>1, <2>3 DEF Session
  <2>6. s \in Session
    BY <1>1, <2>2, <2>3 DEF Session
  <2>7. /\ t.record = None /\ t.given["record"] = None
        /\ t.given["derived"] \notin {"create", "update"}
        /\ t.given["field"] # "alias"
        /\ \A f \in Fields : t.given[f] # None => f = "alias"
    BY <1>1, <2>1, Distinct, FieldSets DEF Fits, Place
  <2>8. Settled(s)
    <3>1. Fits(s)
      BY <2>5, <2>7, EmptyIs DEF Fits
    <3> QED BY <1>1, <2>5, <2>6, <3>1, GivenStays DEF Settled
  <2>9. ASSUME s.resource = None PROVE ReadyField(s, m)
    <3>1. "item" \notin Fields /\ "alias" \in Fields
      BY FieldSets
    <3> QED BY <1>3, <2>1, <2>5, <3>1 DEF ReadyField, Empty
  <2>10. ASSUME s.resource # None PROVE ReadyPlace(s, m)
    BY <2>4, <2>5, <2>10 DEF ReadyPlace
  <2> QED BY <1>1, <2>5, <2>8, <2>9, <2>10 DEF s
<1> QED BY <1>2, <1>3

LEMMA LocateKeeps ==
    ASSUME NEW t, NEW m, NEW row, Ready(t, m, row), t.settled,
           rows \subseteq Records, Locate(t, m, row)
    PROVE  Result(row)
<1>1. /\ t \in Session /\ GivenOK(t) /\ Fits(t)
      /\ ~t.chosen => t.given["field"] = None
      /\ row # None => t.record = row
      /\ row \in Records \cup {None}
  BY DEF Ready
<1>2. CASE t.section = None /\ Stored(AskSection(t))
  <2>1. Fresh(t)
    BY <1>2 DEF Ready
  <2>2. SessOK(AskSection(t)) /\ AskSection(t).displayed = None
    BY <1>1, <2>1, SectionKeeps
  <2>3. Outcome(None) /\ row = None
    BY <1>1, <1>2, <2>1, <2>2 DEF Outcome, Stored, Fresh
  <2> QED BY <2>3 DEF Result
<1> DEFINE s == WithItem(t, m)
           direct == s.keys \cap Direct
<1>3. ASSUME t.section = "profile"
      PROVE  /\ Settled(s) /\ (row # None => s.record = row)
             /\ s.resource = None => ReadyField(s, m)
             /\ s.resource # None => ReadyPlace(s, m)
             /\ s.resource = None => row = None
             /\ s.resource \in Resources \cup {None}
  <2>1. /\ Settled(s) /\ (row # None => s.record = row)
        /\ s.resource = None => ReadyField(s, m)
        /\ s.resource # None => ReadyPlace(s, m)
    BY <1>3, ItemTaken
  <2>2. s.resource = None => row = None
    BY <2>1, Distinct DEF Settled, Fits
  <2> QED BY <2>1, <2>2 DEF Settled, Session
<1>4. \/ t.section = None /\ Stored(AskSection(t))
      \/ /\ t.section = "profile"
         /\ \/ /\ direct # {} /\ s.keys = direct /\ s.resource = None
               /\ DirectField(s, m)
            \/ /\ direct = {} /\ s.resource = None
               /\ Stored(Ask([s EXCEPT !.keys = {}], "item", ItemsFor(s.op)))
            \/ /\ direct = {} /\ s.resource # None
               /\ InResource(s, m, row)
  BY DEF Locate
<1> HIDE DEF s
<1>5. CASE /\ t.section = "profile" /\ direct # {} /\ s.keys = direct
           /\ s.resource = None /\ DirectField(s, m)
  BY <1>3, <1>5, DirectFieldKeeps DEF Result
<1>6. CASE /\ t.section = "profile" /\ direct = {} /\ s.resource = None
           /\ Stored(Ask([s EXCEPT !.keys = {}], "item", ItemsFor(s.op)))
  <2>1. s.changes = Empty /\ s.given["field"] \notin Direct
    BY <1>3, <1>6, FieldSets DEF ReadyField
  <2>2. Outcome(None)
    BY <1>3, <1>6, <2>1, ItemAskedKeeps DEF Outcome, Stored
  <2> QED BY <1>3, <1>6, <2>2 DEF Result
<1>7. CASE /\ t.section = "profile" /\ s.resource # None
           /\ InResource(s, m, row)
  BY <1>1, <1>3, <1>7, InResourceKeeps DEF Result
<1> QED BY <1>2, <1>4, <1>5, <1>6, <1>7

LEMMA ResolveKeeps ==
    ASSUME NEW t, NEW m, NEW row, Ready(t, m, row), ~t.settled,
           rows \subseteq Records, Resolve(t, m, row)
    PROVE  Result(row)
<1>1. /\ t \in Session /\ GivenOK(t) /\ Fits(t) /\ Fresh(t)
      /\ ~t.chosen => t.given["field"] = None
      /\ row # None => t.record = row /\ row \in Records \cup {None}
      /\ t.given["field"] \notin Fields /\ ~Structured(m)
      /\ m.type # "option" /\ t.section \in {"profile", Typed, None}
  BY DEF Ready, Structured
<1>2. row = None
  BY <1>1 DEF Fresh
<1>3. CASE Stored(AskSection(t))
  <2>1. SessOK(AskSection(t)) /\ AskSection(t).displayed = None
    BY <1>1, SectionKeeps
  <2> QED BY <1>2, <1>3, <2>1 DEF Outcome, Result, Stored
<1>4. ASSUME NEW r \in Resolutions
      PROVE  LET s == WithResolution(t, r)
             IN  /\ s \in Session /\ GivenOK(s) /\ Fits(s) /\ Fresh(s)
                 /\ ~s.chosen => s.given["field"] = None
                 /\ s.given["field"] \notin Fields /\ ~s.settled
                 /\ s.section \in {"profile", Typed, None}
  <2> DEFINE section == IF r.section # None THEN r.section ELSE t.section
             res == IF r.resource # None THEN r.resource ELSE t.resource
             keys == IF r.keys # {} THEN r.keys ELSE t.keys
             reference == IF r.reference # None THEN r.reference ELSE t.reference
             s == [t EXCEPT !.section = section, !.resource = res,
                            !.keys = keys, !.reference = reference]
  <2>1. /\ section \in {"profile", Typed, None}
        /\ res \in Resources \cup {None}
        /\ keys \in SUBSET (Fields \cup {Typed}) /\ reference \in Named
    BY <1>1, ResolutionsAssumption DEF Session, Named
  <2>2. WithResolution(t, r) = s
    BY <1>1 DEF WithResolution, Session
  <2> HIDE DEF section, res, keys, reference
  <2>3. s \in Session
    BY <1>1, <2>1 DEF Session
  <2>4. /\ s.section = section /\ s.given = t.given /\ s.changes = t.changes
        /\ s.derived = t.derived /\ s.record = t.record /\ ~s.settled
        /\ s.chosen = t.chosen
    BY <1>1 DEF Session
  <2> HIDE DEF s
  <2>5. Fresh(s)
    BY <1>1, <2>4 DEF Fresh
  <2>6. Fits(s)
    BY <1>1, <2>4, <2>5, EmptyIs, FieldSets DEF Fits, Fresh
  <2> QED BY <1>1, <2>1, <2>2, <2>3, <2>4, <2>5, <2>6, GivenStays
<1>5. ASSUME NEW r \in Resolutions,
             LET s == WithResolution(t, r)
                 among == IF s.resource = None THEN Direct
                                               ELSE FieldsOf[s.resource]
             IN  Stored(Ask(s, "field", s.keys \cap among))
      PROVE  Result(row)
  <2> DEFINE s == WithResolution(t, r)
             among == IF s.resource = None THEN Direct
                                           ELSE FieldsOf[s.resource]
             a == Ask(s, "field", s.keys \cap among)
  <2>1. /\ s \in Session /\ GivenOK(s) /\ Fits(s) /\ Fresh(s) /\ ~s.settled
        /\ s.given["field"] \notin Fields
        /\ ~s.chosen => s.given["field"] = None
    BY <1>4
  <2>2. Stored(a)
    BY <1>5
  <2> HIDE DEF s
  <2>3. SessOK(a) /\ a.displayed = None
    BY <2>1, FieldAskedKeeps
  <2> HIDE DEF a
  <2> QED BY <1>2, <2>2, <2>3 DEF Outcome, Result, Stored
<1>6. ASSUME NEW r \in Resolutions,
             Locate([WithResolution(t, r) EXCEPT !.settled = TRUE], m, row)
      PROVE  Result(row)
  <2> DEFINE s == WithResolution(t, r)
             a == [s EXCEPT !.settled = TRUE]
  <2>1. /\ s \in Session /\ GivenOK(s) /\ Fits(s) /\ Fresh(s)
        /\ s.given["field"] \notin Fields
        /\ ~s.chosen => s.given["field"] = None
        /\ s.section \in {"profile", Typed, None}
    BY <1>4
  <2> HIDE DEF s
  <2>2. /\ a.settled /\ a.section = s.section /\ a.given = s.given
        /\ a.changes = s.changes /\ a.derived = s.derived
        /\ a.record = s.record /\ a.resource = s.resource
        /\ a.chosen = s.chosen /\ a.op = s.op /\ a \in Session
    BY <2>1 DEF Session
  <2> HIDE DEF a
  <2>3. Fresh(a) /\ Fits(a) /\ GivenOK(a)
    BY <2>1, <2>2, GivenStays DEF Fresh, Fits, Place
  <2>4. ReadyField(a, m)
    <3>1. a.given["field"] \notin Direct
      BY <2>1, <2>2, FieldSets
    <3> QED BY <1>1, <2>3, <3>1 DEF ReadyField, Fresh
  <2>5. ReadyPlace(a, m)
    <3>1. ActOf(m) = None /\ None \notin {"finish", "submit"}
      BY <1>1, Distinct DEF ActOf, Actions
    <3> QED BY <3>1 DEF ReadyPlace
  <2>6. Ready(a, m, row)
    BY <1>1, <1>2, <2>1, <2>2, <2>3, <2>4, <2>5 DEF Ready
  <2>7. Locate(a, m, row)
    BY <1>6 DEF a, s
  <2> QED BY <2>2, <2>6, <2>7, LocateKeeps
<1> QED BY <1>3, <1>5, <1>6 DEF Resolve

-----------------------------------------------------------------------------
(* The answer                                                              *)

\* The messages that a turn of an open session can begin with.
Answered(s, m) ==
    \/ m.type = "option" /\ m.field = s.asked /\ m.value \in s.offers
    \/ m.type = "text" /\ m.field = s.asked /\ m.value \in TextsFor(s.asked)
    \/ m.type = "edit" /\ m.field \in s.form /\ m.value \in Values
    \/ /\ m.type = "action" /\ m.field = "action" /\ m.value \in s.offers
       /\ s.asked = "action"

LEMMA ValueIs ==
    ASSUME NEW s, SessOK(s), NEW m, Answered(s, m)
    PROVE  /\ m.field = "section" => m.value \in {"profile", Typed}
           /\ m.field = "field" => m.value \in Fields \cup {Typed}
           /\ m.field = "field" /\ m.value = "alias" => s.resource = None
           /\ m.field = "record" => m.value \in Records \cup Texts
           /\ m.field = "derived" => m.value \in {"create", "update", Typed}
           /\ m.field = "item" /\ m.type = "option" =>
                m.value \in Direct \cup Resources
           /\ m.field \in Fields => m.value \in Values
           /\ m.field = "action" => m.value \in Actions \cup {Typed}
           /\ m.field \notin Fields => m.field = s.asked
           /\ m.field \in Fields => m.field \in Place(s) /\ s.settled
           /\ m.field \in Fields =>
                \/ m.field = s.asked
                \/ s.asked = "action" /\ m.type = "edit" /\ m.field \in s.form
           /\ m.type \in {"option", "text", "edit", "action"}
           /\ m.type \in {"edit", "action"} => s.asked = "action"
           /\ m.type = "action" => m.field = "action"
           /\ m.field = s.asked \/ m.field \in Fields
           /\ m.field \in Questions
<1>1. /\ {"section", "field", "record", "derived", "item", "action"}
           \cap Fields = {}
      /\ Fields \subseteq Questions
  BY FieldSets
<1>2. /\ s \in Session /\ OffersOK(s) /\ Early(s) /\ Shows(s)
      /\ s.form \subseteq Fields /\ s.asked \in Questions
  BY DEF SessOK, Early, Session
<1>3. CASE m.type = "option" /\ m.field = s.asked /\ m.value \in s.offers
  BY <1>1, <1>2, <1>3 DEF OffersOK, Early, Shows
<1>4. CASE m.type = "text" /\ m.field = s.asked /\ m.value \in TextsFor(s.asked)
  <2>1. /\ s.asked = "record" => m.value \in Texts
        /\ s.asked \in Fields => m.value \in Values
        /\ s.asked # "record" /\ s.asked \notin Fields => m.value = Typed
    BY <1>1, <1>4 DEF TextsFor
  <2> QED BY <1>1, <1>2, <1>4, <2>1, Distinct DEF Early, Shows
<1>5. CASE m.type = "edit" /\ m.field \in s.form /\ m.value \in Values
  BY <1>1, <1>2, <1>5 DEF Early, Shows
<1>6. CASE /\ m.type = "action" /\ m.field = "action" /\ m.value \in s.offers
           /\ s.asked = "action"
  BY <1>1, <1>2, <1>6 DEF OffersOK
<1> QED BY <1>3, <1>4, <1>5, <1>6 DEF Answered

\* The session with the answer among what is given.
LEMMA GiveIs ==
    ASSUME NEW s, SessOK(s), NEW m, Answered(s, m)
    PROVE  LET g == Give(s, m)
           IN  /\ g \in Session /\ GivenOK(g)
               /\ g.op = s.op /\ g.settled = s.settled /\ g.section = s.section
               /\ g.resource = s.resource /\ g.keys = s.keys
               /\ g.reference = s.reference /\ g.record = s.record
               /\ g.changes = s.changes /\ g.derived = s.derived
               /\ g.chosen = s.chosen /\ g.displayed = s.displayed
               /\ \A x \in Slots : g.given[x] =
                     IF x = m.field THEN m.value ELSE s.given[x]
<1> DEFINE g == Give(s, m)
           Answers == Fields \cup Named \cup Values
                        \cup {Typed, "profile", "create", "update"}
           given == [x \in Slots |-> IF x = m.field THEN m.value ELSE s.given[x]]
<1>1. s \in Session /\ GivenOK(s) /\ s.given \in [Slots -> Answers]
  BY DEF SessOK, Session
<1>2. m.field \in Slots => m.value \in Answers
  <2>1. Slots = {"section", "field", "record", "derived"} \cup Fields
    BY DEF Slots
  <2> QED BY <2>1, ValueIs DEF Named
<1>3. given \in [Slots -> Answers]
  BY <1>1, <1>2
<1>4. g = [s EXCEPT !.given = given]
  <2>1. CASE m.field \in Slots
    <3>1. [s.given EXCEPT ![m.field] = m.value] = given
      BY <1>1
    <3>2. g = [s EXCEPT !.given = [s.given EXCEPT ![m.field] = m.value]]
      BY <1>1, <2>1 DEF Give, Session
    <3> QED BY <3>1, <3>2
  <2>2. CASE m.field \notin Slots
    <3>1. s.given = given
      BY <1>1, <2>2
    <3>2. g = s
      BY <2>2 DEF Give
    <3>3. s = [s EXCEPT !.given = s.given]
      BY <1>1 DEF Session
    <3> QED BY <3>1, <3>2, <3>3
  <2> QED BY <2>1, <2>2
<1>5. \A x \in Slots : given[x] = IF x = m.field THEN m.value ELSE s.given[x]
  OBVIOUS
<1> HIDE DEF g, given
<1>6. /\ g \in Session
      /\ g.op = s.op /\ g.settled = s.settled /\ g.section = s.section
      /\ g.resource = s.resource /\ g.keys = s.keys
      /\ g.reference = s.reference /\ g.record = s.record
      /\ g.changes = s.changes /\ g.derived = s.derived
      /\ g.chosen = s.chosen /\ g.displayed = s.displayed /\ g.given = given
  BY <1>1, <1>3, <1>4 DEF Session
<1>7. GivenOK(g)
  <2>1. /\ {"section", "field", "record", "derived"} \cap Fields = {}
        /\ {"section", "field", "record", "derived"} \subseteq Slots
        /\ Fields \subseteq Slots
    BY FieldSets DEF Slots
  <2>2. given["section"] \in {"profile", Typed, None}
    BY <1>1, <1>5, <2>1, ValueIs DEF GivenOK
  <2>3. given["field"] \in Fields \cup {Typed, None}
    BY <1>1, <1>5, <2>1, ValueIs DEF GivenOK
  <2>4. given["record"] \in Named
    BY <1>1, <1>5, <2>1, ValueIs DEF GivenOK, Named
  <2>5. given["derived"] \in {"create", "update", Typed, None}
    BY <1>1, <1>5, <2>1, ValueIs DEF GivenOK
  <2>6. \A f \in Fields : given[f] \in Values \cup {None}
    BY <1>1, <1>5, <2>1, ValueIs DEF GivenOK
  <2> QED BY <1>6, <2>2, <2>3, <2>4, <2>5, <2>6 DEF GivenOK
<1> QED BY <1>5, <1>6, <1>7 DEF g

\* The fields that the answers select, and whether one leads to the rows of
\* the collection.
Opened(g, m) == Picked(g, m) /\ IdOf(g.given["record"]) # None

Selected(g, m) ==
    CASE Opened(g, m) -> {}
      [] ~Opened(g, m) /\ g.given["field"] # None -> {g.given["field"]}
      [] OTHER -> g.keys

Redirected(g) == g.derived /\ g.given["derived"] \in {"create", "update"}

LEMMA TakenIs ==
    ASSUME NEW g \in Session, GivenOK(g), NEW m
    PROVE  LET t == Taken(g, m)
               keys == Selected(g, m)
           IN  /\ t \in Session
               /\ RecordOf(g, m) \in Records \cup {None}
               /\ RecordOf(g, m) # None => t.record = RecordOf(g, m)
               /\ t.record = IF Opened(g, m) THEN RecordOf(g, m) ELSE g.record
               /\ t.settled =
                    (g.settled \/ (m.type = "option" /\ m.field \notin Fields))
               /\ t.section = IF g.given["section"] # None
                              THEN g.given["section"] ELSE g.section
               /\ t.given = g.given /\ t.derived = g.derived
               /\ t.keys = IF Redirected(g) THEN {} ELSE keys
               /\ t.resource = IF Redirected(g) THEN "edu" ELSE g.resource
               /\ t.op = IF Redirected(g) THEN g.given["derived"] ELSE g.op
               /\ t.changes = [f \in Fields |->
                    IF f \in keys /\ g.given[f] # None
                    THEN g.given[f] ELSE g.changes[f]]
               /\ t.chosen = (g.chosen \/ g.given["field"] # None)
<1> DEFINE keys == Selected(g, m)
           named == g.given["record"] # None /\ m.type # "option"
           settled == g.settled \/ (m.type = "option" /\ m.field \notin Fields)
           section == IF g.given["section"] # None
                      THEN g.given["section"] ELSE g.section
           record == IF Opened(g, m) THEN RecordOf(g, m) ELSE g.record
           reference == IF named THEN g.given["record"] ELSE g.reference
           kept == IF Redirected(g) THEN {} ELSE keys
           changes == [f \in Fields |-> IF f \in keys /\ g.given[f] # None
                                        THEN g.given[f] ELSE g.changes[f]]
           res == IF Redirected(g) THEN "edu" ELSE g.resource
           op == IF Redirected(g) THEN g.given["derived"] ELSE g.op
           chosen == g.chosen \/ g.given["field"] # None
           e == [g EXCEPT !.settled = settled, !.section = section,
                   !.record = record, !.reference = reference, !.keys = kept,
                   !.changes = changes, !.resource = res, !.op = op,
                   !.chosen = chosen]
<1>1. Taken(g, m) = e
  BY DEF Taken, Opened, Selected, Redirected, Session
<1>2. RecordOf(g, m) \in Records \cup {None}
  <2>1. g.given["record"] \in Records \cup Texts \cup {None}
    BY DEF GivenOK, Named
  <2>2. g.given["record"] # None => IdOf(g.given["record"]) \in Records \cup {None}
    BY <2>1, NumberAssumption DEF IdOf
  <2>3. g.record \in Records \cup {None}
    BY DEF Session
  <2> QED BY <2>2, <2>3 DEF RecordOf, Picked
<1>3. RecordOf(g, m) # None => record = RecordOf(g, m)
  BY DEF RecordOf, Opened
<1>4. keys \in SUBSET (Fields \cup {Typed}) /\ kept \in SUBSET (Fields \cup {Typed})
  BY DEF Selected, GivenOK, Session
<1>5. changes \in Dict
  <2>1. g.changes \in Dict /\ \A f \in Fields : g.given[f] \in Values \cup {None}
    BY DEF GivenOK, Session
  <2> QED BY <2>1 DEF Dict
<1>6. /\ settled \in BOOLEAN /\ section \in {"profile", Typed, None}
      /\ record \in Records \cup {None} /\ reference \in Named
      /\ res \in Resources \cup {None} /\ op \in Operations
      /\ chosen \in BOOLEAN
  <2>1. settled \in BOOLEAN /\ chosen \in BOOLEAN
    BY DEF Session
  <2>2. section \in {"profile", Typed, None}
    BY DEF GivenOK, Session
  <2>3. record \in Records \cup {None} /\ reference \in Named
    BY <1>2 DEF GivenOK, Session
  <2>4. res \in Resources \cup {None} /\ op \in Operations
    BY FieldSets DEF Redirected, Operations, Session
  <2> QED BY <2>1, <2>2, <2>3, <2>4
<1> HIDE DEF keys, settled, section, record, reference, kept, changes, res, op,
             chosen
<1>7. e \in Session
  BY <1>4, <1>5, <1>6 DEF Session
<1>8. /\ e.settled = settled /\ e.section = section /\ e.record = record
      /\ e.keys = kept /\ e.changes = changes /\ e.resource = res /\ e.op = op
      /\ e.chosen = chosen /\ e.given = g.given /\ e.derived = g.derived
  BY DEF Session
<1> HIDE DEF e
<1> QED BY <1>1, <1>2, <1>3, <1>7, <1>8
        DEF keys, settled, section, record, kept, changes, res, op, chosen

\* What an answer can do to a session whose invariant holds.
LEMMA TakenFits ==
    ASSUME NEW s, SessOK(s), NEW m, Answered(s, m)
    PROVE  LET g == Give(s, m)
               t == Taken(g, m)
           IN  /\ Fits(t)
               /\ g.given["field"] = "alias" => s.resource = None
               /\ g.given["record"] # None => s.resource = "edu"
               /\ \A f \in Fields : g.given[f] # None => f = "alias" \/ f \in Place(s)
               /\ Redirected(g) =>
                    \/ s.resource = "edu" /\ s.op = g.given["derived"]
                    \/ s.resource = None /\ t.changes = Empty /\ s.settled
               /\ ~Redirected(g) => g.given["derived"] \notin {"create", "update"}
<1> DEFINE g == Give(s, m)
           t == Taken(g, m)
           keys == Selected(g, m)
<1>1. /\ s \in Session /\ GivenOK(s) /\ Early(s) /\ Fits(s) /\ Shows(s)
      /\ OfField(s) /\ OfResource(s)
      /\ s.changes \in Dict /\ s.resource \in Resources \cup {None}
  BY DEF SessOK, Session
<1>2. /\ g \in Session /\ GivenOK(g) /\ g.op = s.op /\ g.settled = s.settled
      /\ g.resource = s.resource /\ g.keys = s.keys /\ g.record = s.record
      /\ g.changes = s.changes /\ g.derived = s.derived
      /\ \A x \in Slots : g.given[x] = IF x = m.field THEN m.value ELSE s.given[x]
  BY GiveIs
<1> HIDE DEF g
<1>3. /\ t \in Session
      /\ t.record = IF Opened(g, m) THEN RecordOf(g, m) ELSE g.record
      /\ t.given = g.given /\ t.derived = g.derived
      /\ t.resource = IF Redirected(g) THEN "edu" ELSE g.resource
      /\ t.op = IF Redirected(g) THEN g.given["derived"] ELSE g.op
      /\ t.changes = [f \in Fields |-> IF f \in keys /\ g.given[f] # None
                                       THEN g.given[f] ELSE g.changes[f]]
  BY <1>2, TakenIs
<1> HIDE DEF t
<1>4. /\ {"section", "field", "record", "derived", "item", "action"}
           \cap Fields = {}
      /\ {"section", "field", "record", "derived"} \subseteq Slots
      /\ Fields \subseteq Slots
  BY FieldSets DEF Slots
<1>5. /\ g.given["field"] = "alias" => s.resource = None
      /\ m.field = "derived" => s.asked = "derived"
      /\ m.field = "record" => s.resource = "edu"
  <2>1. m.field = "record" => s.asked = "record"
    BY <1>4, ValueIs
  <2>2. s.asked = "record" => s.resource = "edu"
    BY DEF SessOK, OffersOK
  <2> QED BY <1>1, <1>2, <1>4, <2>1, <2>2, ValueIs DEF Fits
<1>6. g.given["record"] # None => s.resource = "edu"
  BY <1>1, <1>2, <1>4, <1>5 DEF Fits
<1>7. \A f \in Fields : g.given[f] # None => f = "alias" \/ f \in Place(s)
  BY <1>1, <1>2, <1>4, ValueIs DEF Fits
<1>8. g.given["derived"] \in {"create", "update"} =>
        /\ Redirected(g)
        /\ \/ s.resource = "edu" /\ s.op = g.given["derived"]
           \/ /\ s.asked = "derived" /\ s.keys = {"degree"}
              /\ s.changes = Empty /\ s.given["field"] # "alias"
              /\ s.resource = None /\ s.settled
  <2>1. CASE m.field = "derived"
    <3>1. /\ s.asked = "derived" /\ s.keys = {"degree"} /\ s.derived
          /\ s.changes = Empty /\ s.given["field"] # "alias"
          /\ s.resource = None /\ s.settled
      BY <1>1, <1>5, <2>1 DEF Shows, Early
    <3> QED BY <1>2, <3>1 DEF Redirected
  <2>2. CASE m.field # "derived"
    <3>1. g.given["derived"] = s.given["derived"]
      BY <1>2, <1>4, <2>2
    <3> QED BY <1>1, <1>2, <3>1 DEF Fits, Redirected
  <2> QED BY <2>1, <2>2
<1>9. Redirected(g) =>
        \/ s.resource = "edu" /\ s.op = g.given["derived"]
        \/ s.resource = None /\ t.changes = Empty /\ s.settled
  <2> SUFFICES ASSUME s.asked = "derived", s.keys = {"degree"}, s.settled,
                      s.changes = Empty, s.given["field"] # "alias",
                      s.resource = None
               PROVE  t.changes = Empty
    BY <1>8 DEF Redirected
  <2>1. "alias" \notin keys
    <3>1. (s.asked \notin Fields /\ m.field = "derived") \/ m.field \in Fields
      BY <1>4, ValueIs
    <3>2. g.given["field"] = s.given["field"]
      BY <1>2, <1>4, <3>1
    <3> QED BY <1>2, <3>2, Distinct DEF Selected
  <2>2. \A f \in Fields : f \in keys => g.given[f] = None
    BY <1>7, <2>1 DEF Place
  <2> HIDE DEF keys
  <2>3. \A f \in Fields : Empty[f] = None
    BY DEF Empty
  <2> QED BY <1>2, <1>3, <2>2, <2>3 DEF Empty
<1>10. Keys(t.changes) \subseteq Place(t)
  <2>1. CASE Redirected(g) /\ s.resource # "edu"
    BY <1>9, <2>1, EmptyIs
  <2>2. CASE ~Redirected(g) \/ s.resource = "edu"
    <3>1. Place(t) = Place(s) /\ Keys(s.changes) \subseteq Place(s)
      BY <1>1, <1>2, <1>3, <2>2 DEF Place, Fits
    <3> SUFFICES ASSUME NEW f \in Fields, f \in keys, g.given[f] # None
                 PROVE  f \in Place(s)
      BY <1>2, <1>3, <3>1 DEF Keys
    <3>2. CASE f # "alias" \/ s.resource = None
      BY <1>7, <3>2 DEF Place
    <3>3. CASE f = "alias" /\ s.resource # None
      <4>1. "alias" \in s.keys
        BY <1>2, <1>5, <3>3 DEF Selected
      <4>2. ~s.settled
        BY <1>1, <3>3, <4>1, FieldSets DEF OfResource
      <4>3. s.given["alias"] = None /\ m.field # "alias"
        BY <1>1, <3>3, <4>2, ValueIs DEF Early, Fresh
      <4> QED BY <1>2, <1>4, <3>3, <4>3
    <3> QED BY <3>2, <3>3
  <2> QED BY <2>1, <2>2
<1>11. \A f \in Fields : t.given[f] # None => f = "alias" \/ f \in Place(t)
  <2>1. CASE Redirected(g) /\ s.resource # "edu"
    <3>1. Place(s) = {"alias"}
      BY <1>9, <2>1 DEF Place
    <3> QED BY <1>3, <1>7, <3>1
  <2>2. CASE ~Redirected(g) \/ s.resource = "edu"
    <3>1. Place(t) = Place(s)
      BY <1>1, <1>2, <1>3, <2>2 DEF Place, Fits
    <3> QED BY <1>3, <1>7, <3>1
  <2> QED BY <2>1, <2>2
<1>12. t.given["field"] = "alias" => t.resource = None
  <2>1. CASE Redirected(g)
    <3>1. s.resource = "edu" => g.given["field"] # "alias"
      BY <1>5, Distinct
    <3>2. s.asked = "derived" /\ s.given["field"] # "alias"
            => g.given["field"] # "alias"
      BY <1>2, <1>4, ValueIs
    <3> QED BY <1>3, <1>8, <2>1, <3>1, <3>2 DEF Redirected
  <2>2. CASE ~Redirected(g)
    BY <1>2, <1>3, <1>5, <2>2
  <2> QED BY <2>1, <2>2
<1>13. t.given["derived"] \in {"create", "update"}
         => t.derived /\ t.resource = "edu" /\ t.op = t.given["derived"]
  BY <1>3, <1>8 DEF Redirected
<1>14. t.record # None \/ t.given["record"] # None => t.resource = "edu"
  <2>1. Opened(g, m) => g.given["record"] # None
    BY DEF Opened, Picked
  <2>2. t.record # None => s.record # None \/ g.given["record"] # None
    BY <1>2, <1>3, <2>1
  <2> QED BY <1>1, <1>2, <1>3, <1>6, <2>2 DEF Fits
<1>15. Fits(t)
  BY <1>10, <1>11, <1>12, <1>13, <1>14 DEF Fits
<1> QED BY <1>5, <1>6, <1>7, <1>8, <1>9, <1>15 DEF g, t

LEMMA TakenReady ==
    ASSUME NEW s, SessOK(s), NEW m, Answered(s, m)
    PROVE  LET g == Give(s, m)
           IN  Ready(Taken(g, m), m, RecordOf(g, m))
<1> DEFINE g == Give(s, m)
           t == Taken(g, m)
           keys == Selected(g, m)
           row == RecordOf(g, m)
<1>1. /\ s \in Session /\ GivenOK(s) /\ Early(s) /\ Fits(s) /\ Shows(s)
      /\ OfField(s) /\ OfResource(s) /\ OffersOK(s)
      /\ s.changes \in Dict /\ s.resource \in Resources \cup {None}
  BY DEF SessOK, Session
<1>2. /\ g \in Session /\ GivenOK(g) /\ g.op = s.op /\ g.settled = s.settled
      /\ g.resource = s.resource /\ g.keys = s.keys /\ g.record = s.record
      /\ g.changes = s.changes /\ g.derived = s.derived
      /\ g.section = s.section /\ g.chosen = s.chosen
      /\ \A x \in Slots : g.given[x] = IF x = m.field THEN m.value ELSE s.given[x]
  BY GiveIs
<1>0. /\ Fits(t)
      /\ g.given["field"] = "alias" => s.resource = None
      /\ g.given["record"] # None => s.resource = "edu"
      /\ \A f \in Fields : g.given[f] # None => f = "alias" \/ f \in Place(s)
      /\ Redirected(g) =>
           \/ s.resource = "edu" /\ s.op = g.given["derived"]
           \/ s.resource = None /\ t.changes = Empty /\ s.settled
      /\ ~Redirected(g) => g.given["derived"] \notin {"create", "update"}
  BY TakenFits
<1> HIDE DEF g
<1>3. /\ t \in Session /\ row \in Records \cup {None}
      /\ row # None => t.record = row
      /\ t.record = IF Opened(g, m) THEN row ELSE g.record
      /\ t.settled = (g.settled \/ (m.type = "option" /\ m.field \notin Fields))
      /\ t.section = IF g.given["section"] # None
                     THEN g.given["section"] ELSE g.section
      /\ t.given = g.given /\ t.derived = g.derived
      /\ t.keys = IF Redirected(g) THEN {} ELSE keys
      /\ t.resource = IF Redirected(g) THEN "edu" ELSE g.resource
      /\ t.changes = [f \in Fields |-> IF f \in keys /\ g.given[f] # None
                                       THEN g.given[f] ELSE g.changes[f]]
      /\ t.op = IF Redirected(g) THEN g.given["derived"] ELSE g.op
      /\ t.chosen = (g.chosen \/ g.given["field"] # None)
  BY <1>2, TakenIs
<1> HIDE DEF t, row
<1>4. /\ {"section", "field", "record", "derived", "item", "action"}
           \cap Fields = {}
      /\ {"section", "field", "record", "derived"} \subseteq Slots
      /\ Fields \subseteq Slots /\ "alias" \in Fields /\ "alias" # "degree"
  BY FieldSets DEF Slots
<1>5. \A f \in Fields : Empty[f] = None
  BY DEF Empty
<1>6. ~s.settled \/ s.section = None =>
        /\ m.field \in {"section", "field"} /\ m.field = s.asked
        /\ Fresh(s) /\ s.form = {}
  BY <1>1, <1>4, ValueIs DEF Early
<1>7. Fresh(s) /\ m.field \in {"section", "field"} => Fresh(t)
  <2> SUFFICES ASSUME Fresh(s), m.field \in {"section", "field"} PROVE Fresh(t)
    OBVIOUS
  <2>1. g.given["record"] = None /\ \A f \in Fields : g.given[f] = None
    BY <1>2, <1>4 DEF Fresh
  <2>2. t.changes = Empty
    BY <1>2, <1>3, <1>5, <2>1 DEF Fresh, Empty
  <2>3. t.record = None
    BY <1>2, <1>3, <2>1 DEF Opened, Picked, Fresh
  <2> QED BY <1>2, <1>3, <2>1, <2>2, <2>3 DEF Fresh
<1>8. ~t.settled \/ t.section = None => Fresh(t)
  BY <1>2, <1>3, <1>6, <1>7
<1>9. ~t.settled => ~Structured(m) /\ t.given["field"] \notin Fields
  <2> SUFFICES ASSUME ~t.settled
               PROVE  ~Structured(m) /\ t.given["field"] \notin Fields
    OBVIOUS
  <2>1. ~s.settled /\ m.type # "option" /\ m.field \notin Fields
    BY <1>2, <1>3, <1>4, <1>6
  <2>2. m.type = "text"
    BY <1>6, <2>1, ValueIs
  <2>3. m.field = "field" => m.value = Typed
    BY <1>4, <1>6, <2>1, <2>2 DEF Answered, TextsFor
  <2>4. g.given["field"] \in {s.given["field"], Typed}
    BY <1>2, <1>4, <2>3
  <2> QED BY <1>1, <1>3, <2>1, <2>2, <2>4, Distinct DEF Structured, Early
<1>10. ~t.chosen => t.given["field"] = None
  BY <1>3
<1>11. m.type = "option" /\ m.field = "item" =>
         /\ m.value \in Direct \cup Resources
         /\ t.changes = Empty /\ t.resource = None
         /\ t.given["field"] \notin Direct
  <2> SUFFICES ASSUME m.type = "option", m.field = "item"
               PROVE  /\ m.value \in Direct \cup Resources
                      /\ t.changes = Empty /\ t.resource = None
                      /\ t.given["field"] \notin Direct
    OBVIOUS
  <2>1. s.asked = "item" /\ m.value \in Direct \cup Resources
    BY <1>4, ValueIs
  <2>2. /\ s.changes = Empty /\ s.resource = None /\ s.keys = {}
        /\ s.given["field"] \notin {"alias", "degree"}
    BY <1>1, <2>1 DEF Shows
  <2>3. /\ g.given["field"] = s.given["field"]
        /\ g.given["derived"] = s.given["derived"]
    BY <1>2, <1>4
  <2>4. ~Redirected(g)
    BY <1>1, <2>2, <2>3, Distinct DEF Fits, Redirected
  <2>5. \A f \in Fields : f \in keys => g.given[f] = None
    <3>1. "alias" \notin keys
      BY <1>2, <2>2, <2>3 DEF Selected
    <3> QED BY <1>0, <2>2, <3>1 DEF Place
  <2>6. t.changes = Empty
    BY <1>2, <1>3, <1>5, <2>2, <2>5 DEF Empty
  <2> QED BY <1>2, <1>3, <2>1, <2>2, <2>3, <2>4, <2>6, FieldSets
<1>12. ASSUME t.settled, t.resource = None PROVE ReadyField(t, m)
  <2>1. s.resource = None /\ ~Redirected(g)
    BY <1>2, <1>3, <1>12, Distinct
  <2>2. ~Opened(g, m)
    BY <1>0, <2>1, Distinct DEF Opened, Picked
  <2>3. keys = IF g.given["field"] # None THEN {g.given["field"]} ELSE s.keys
    BY <1>2, <2>2 DEF Selected
  <2>4. \A f \in Fields : g.given[f] # None => f = "alias"
    BY <1>0, <2>1 DEF Place
  <2>5. t.keys = keys
    BY <1>3, <2>1
  <2>6. ASSUME t.changes # Empty
        PROVE  /\ keys = {"alias"} /\ g.given["field"] \in {None, "alias"}
               /\ s.settled
    <3>1. s.settled
      <4> SUFFICES ASSUME ~s.settled PROVE FALSE
        OBVIOUS
      <4> QED BY <1>6, <1>7, <2>6 DEF Fresh
    <3>2. CASE s.changes # Empty
      <4>1. s.keys = {"alias"} /\ s.given["field"] \in {None, "alias"}
        BY <1>1, <2>1, <3>1, <3>2 DEF OfField
      <4>2. m.field # "field"
        BY <1>1, <1>4, <3>2, ValueIs DEF Early, Fresh
      <4>3. g.given["field"] = s.given["field"]
        BY <1>2, <1>4, <4>2
      <4> QED BY <2>3, <3>1, <4>1, <4>3
    <3>3. CASE s.changes = Empty
      <4>1. "alias" \in keys
        <5> SUFFICES ASSUME "alias" \notin keys PROVE t.changes = Empty
          BY <2>6
        <5>1. \A f \in Fields : f \in keys => g.given[f] = None
          BY <2>4
        <5> QED BY <1>2, <1>3, <1>5, <3>3, <5>1 DEF Empty
      <4>2. s.keys \in {{}, {"alias"}, {"degree"}}
        BY <1>1, <2>1, <3>1 DEF OfField
      <4> QED BY <1>4, <2>3, <3>1, <4>1, <4>2
    <3> QED BY <3>2, <3>3
  <2>7. ASSUME Structured(m), m.field \in Fields
        PROVE  /\ m.field = "alias" /\ "degree" \notin keys
               /\ g.given["alias"] # None /\ g.given["field"] # "degree"
               /\ g.given["field"] \in {None, "alias"} \/ "alias" \notin keys
    <3>1. /\ m.field \in Place(s) /\ s.settled /\ m.value \in Values
          /\ m.field = s.asked \/ s.asked = "action"
      BY <2>7, ValueIs
    <3>2. m.field = "alias"
      BY <2>1, <3>1 DEF Place
    <3>3. g.given["alias"] # None /\ g.given["field"] = s.given["field"]
      BY <1>2, <1>4, <3>1, <3>2, Distinct
    <3>4. CASE s.asked = "alias"
      <4>1. s.keys = {"alias"} /\ s.given["field"] # "degree"
        BY <1>1, <1>4, <2>1, <3>1, <3>4 DEF OfField
      <4> QED BY <1>4, <2>3, <3>2, <3>3, <4>1
    <3>5. CASE s.asked = "action"
      <4>1. s.keys = {"alias"} /\ s.given["field"] \in {None, "alias"}
        BY <1>1, <2>1, <3>1, <3>5 DEF OfField
      <4> QED BY <1>4, <2>3, <3>2, <3>3, <4>1, Distinct
    <3> QED BY <3>1, <3>2, <3>4, <3>5
  <2>8. t.given["field"] \in Direct => t.keys = {t.given["field"]}
    BY <1>3, <2>3, <2>5, Distinct, FieldSets
  <2> QED BY <1>3, <2>5, <2>6, <2>7, <2>8 DEF ReadyField
<1>13. ASSUME t.settled, t.resource # None PROVE ReadyPlace(t, m)
  <2> SUFFICES ASSUME ~t.chosen, t.keys # {},
                      t.op = "update" \/ t.resource = "contact",
                      ActOf(m) \in {"finish", "submit"}
               PROVE  ActOf(m) = "submit" /\ HidesOne(t)
    BY DEF ReadyPlace
  <2>1. /\ Structured(m) /\ m.field = "action"
        /\ m.value = ActOf(m)
    <3>1. None \notin {"finish", "submit"}
      BY Distinct DEF Actions
    <3> QED BY <3>1 DEF ActOf
  <2>2. s.asked = "action" /\ m.value \in s.offers /\ s.settled
    <3>1. s.asked = "action"
      BY <1>4, <2>1, ValueIs
    <3>2. m.value \in s.offers
      <4>1. s.form \subseteq Fields
        BY <1>1 DEF Session
      <4>2. m.type # "text" /\ m.field \notin s.form
        BY <1>4, <2>1, <4>1 DEF Structured
      <4> QED BY <3>1, <4>2 DEF Answered
    <3>3. s.settled
      BY <1>1, <3>1 DEF Early
    <3> QED BY <3>1, <3>2, <3>3
  <2>3. g.given["field"] = None /\ ~s.chosen
    BY <1>2, <1>3
  <2>4. /\ t.resource = s.resource /\ s.resource # None /\ t.op = s.op
        /\ t.keys = s.keys /\ keys = s.keys
    <3>1. ~Redirected(g)
      BY <1>3
    <3> QED BY <1>2, <1>3, <1>13, <2>3, <3>1 DEF Selected
  <2>5. s.op = "update"
    BY <1>1, <2>2, <2>4 DEF OfResource
  <2>6. "finish" \notin s.offers
    BY <1>1, <2>2, <2>4 DEF OfResource
  <2>7. "submit" \in s.offers /\ ActOf(m) = "submit"
    BY <2>1, <2>2, <2>6
  <2>8. HidesOne(s)
    BY <1>1, <2>2, <2>3, <2>4, <2>5, <2>7 DEF OfResource
  <2>9. Keys(t.changes) \ s.keys = Keys(s.changes) \ s.keys
    BY <1>2, <1>3, <2>4 DEF Keys
  <2>10. Known(t) = Known(s)
    <3>1. /\ FieldsOf[s.resource] \subseteq Fields
      BY <1>1, <2>4, FieldSets
    <3> QED BY <1>2, <1>3, <1>4, <2>1, <2>4, <3>1 DEF Known
  <2> QED BY <2>4, <2>7, <2>8, <2>9, <2>10 DEF HidesOne
<1>14. /\ t.section \in {"profile", Typed, None} /\ GivenOK(t)
  BY <1>2, <1>3, GivenStays DEF Session
<1> QED BY <1>0, <1>3, <1>8, <1>9, <1>10, <1>11, <1>12, <1>13, <1>14
        DEF Ready, g, t, row

LEMMA NodeKeeps ==
    ASSUME NEW s, SessOK(s), NEW m, Answered(s, m), rows \subseteq Records,
           Node(Give(s, m), m)
    PROVE  Result(RecordOf(Give(s, m), m))
BY TakenReady, LocateKeeps, ResolveKeeps DEF Node

LEMMA NoSessionIs ==
    /\ NoSession \in Session /\ ~NoSession.open /\ NoSession.displayed = None
    /\ NoSession.changes = Empty /\ NoSession.record = None
    /\ NoSession.resource = None /\ NoSession.section = None
    /\ NoSession.keys = {} /\ ~NoSession.settled /\ ~NoSession.derived
    /\ ~NoSession.chosen /\ NoSession.reference = None
    /\ \A x \in Slots : NoSession.given[x] = None
<1>1. NoSession \in Session
  BY EmptyIs, FieldSets DEF NoSession, Session, Operations, Named
<1> QED BY <1>1 DEF NoSession

LEMMA QueryKeeps ==
    ASSUME NEW op \in Operations, rows \subseteq Records,
           NEW m, m = Message("query", None, None),
           Node([NoSession EXCEPT !.op = op], m)
    PROVE  Result(None)
<1> DEFINE g == [NoSession EXCEPT !.op = op]
           t == Taken(g, m)
<1>1. /\ g \in Session
      /\ g.changes = Empty /\ g.record = None /\ g.resource = None
      /\ g.section = None /\ g.keys = {} /\ ~g.settled /\ ~g.derived
      /\ ~g.chosen /\ \A x \in Slots : g.given[x] = None
  BY NoSessionIs DEF Session
<1> HIDE DEF g
<1>2. /\ {"section", "field", "record", "derived"} \subseteq Slots
      /\ Fields \subseteq Slots /\ m.type = "query"
  BY FieldSets DEF Slots, Message
<1>3. GivenOK(g)
  BY <1>1, <1>2 DEF GivenOK, Named
<1>4. ~Redirected(g) /\ ~Opened(g, m) /\ RecordOf(g, m) = None
        /\ Selected(g, m) = {}
  BY <1>1, <1>2 DEF Redirected, Opened, Picked, RecordOf, Selected
<1>5. /\ t \in Session /\ t.record = None /\ ~t.settled /\ t.section = None
      /\ t.given = g.given /\ ~t.derived /\ t.keys = {} /\ t.resource = None
      /\ ~t.chosen
      /\ t.changes = [f \in Fields |-> IF f \in {} /\ g.given[f] # None
                                       THEN g.given[f] ELSE g.changes[f]]
  <2>1. /\ t \in Session
        /\ t.record = IF Opened(g, m) THEN RecordOf(g, m) ELSE g.record
        /\ t.settled = (g.settled \/ (m.type = "option" /\ m.field \notin Fields))
        /\ t.section = IF g.given["section"] # None
                       THEN g.given["section"] ELSE g.section
        /\ t.given = g.given /\ t.derived = g.derived
        /\ t.keys = IF Redirected(g) THEN {} ELSE Selected(g, m)
        /\ t.resource = IF Redirected(g) THEN "edu" ELSE g.resource
        /\ t.changes = [f \in Fields |-> IF f \in Selected(g, m) /\ g.given[f] # None
                                         THEN g.given[f] ELSE g.changes[f]]
        /\ t.chosen = (g.chosen \/ g.given["field"] # None)
    BY <1>1, <1>3, TakenIs
  <2> HIDE DEF t
  <2> QED BY <1>1, <1>2, <1>4, <2>1
<1>6. Node(g, m)
  BY DEF g
<1> HIDE DEF t
<1>7. t.changes = Empty
  BY <1>1, <1>5 DEF Empty
<1>8. Fresh(t)
  BY <1>1, <1>2, <1>5, <1>7 DEF Fresh
<1>9. Fits(t)
  BY <1>1, <1>2, <1>5, <1>7, EmptyIs, Distinct DEF Fits
<1>10. t.given["field"] \notin Fields /\ t.given["field"] = None
  BY <1>1, <1>2, <1>5, Distinct
<1>11. Ready(t, m, None)
  BY <1>2, <1>3, <1>5, <1>8, <1>9, <1>10, GivenStays DEF Ready, Structured
<1> QED BY <1>4, <1>5, <1>6, <1>11, ResolveKeeps DEF Node, t

\* The button that cancels: it closes the session, or shows the form of a field
\* of the section, or asks for its value, and leaves no change.
LEMMA CancelKeeps ==
    ASSUME NEW s, SessOK(s), s.asked = "action", Node(s, Cancel)
    PROVE  /\ card' = card
           /\ sess'.open => /\ s.resource = None
                            /\ sess'.resource = None /\ sess'.changes = Empty
<1> DEFINE m == Cancel
           t == Taken(s, m)
           keys == Selected(s, m)
           row == RecordOf(s, m)
<1>1. /\ s \in Session /\ GivenOK(s) /\ Early(s) /\ Fits(s) /\ Shows(s)
      /\ OfField(s) /\ s.changes \in Dict
      /\ s.resource \in Resources \cup {None} /\ s.op \in Operations
  BY DEF SessOK, Session
<1>2. /\ m.type = "action" /\ m.field = "action" /\ m.value = "cancel"
      /\ Structured(m) /\ ActOf(m) = "cancel"
      /\ "action" \notin Fields /\ "action" \notin Direct
      /\ "cancel" \notin Terminal
  BY FieldSets DEF Cancel, Message, Structured, ActOf, Terminal
<1>3. s.settled /\ s.section # None
  BY <1>1 DEF Early
<1>4. /\ ~Opened(s, m) /\ row = s.record
  BY <1>2 DEF Opened, Picked, RecordOf
<1>5. /\ t.settled /\ t.given = s.given
      /\ t.section = IF s.given["section"] # None
                     THEN s.given["section"] ELSE s.section
      /\ t.resource = IF Redirected(s) THEN "edu" ELSE s.resource
      /\ t.op = IF Redirected(s) THEN s.given["derived"] ELSE s.op
      /\ t.keys = IF Redirected(s) THEN {} ELSE keys
      /\ t.changes = [f \in Fields |-> IF f \in keys /\ s.given[f] # None
                                       THEN s.given[f] ELSE s.changes[f]]
      /\ t \in Session
  <2>1. /\ t \in Session
        /\ t.settled = (s.settled \/ (m.type = "option" /\ m.field \notin Fields))
        /\ t.section = IF s.given["section"] # None
                       THEN s.given["section"] ELSE s.section
        /\ t.given = s.given
        /\ t.keys = IF Redirected(s) THEN {} ELSE keys
        /\ t.resource = IF Redirected(s) THEN "edu" ELSE s.resource
        /\ t.op = IF Redirected(s) THEN s.given["derived"] ELSE s.op
        /\ t.changes = [f \in Fields |-> IF f \in keys /\ s.given[f] # None
                                         THEN s.given[f] ELSE s.changes[f]]
    BY <1>1, TakenIs
  <2> HIDE DEF t, keys
  <2> QED BY <1>3, <2>1
<1>6. Redirected(s) => s.resource = "edu" /\ s.op = s.given["derived"]
  BY <1>1 DEF Redirected, Fits
<1>7. t.resource = s.resource /\ t.op = s.op
  BY <1>5, <1>6
<1>8. NoSession.open = FALSE
  BY NoSessionIs
<1>9. /\ t.section = "profile"
      /\ \/ /\ t.keys \cap Direct # {} /\ s.resource = None /\ DirectField(t, m)
         \/ /\ t.keys \cap Direct = {} /\ s.resource = None
         \/ s.resource # None /\ InResource(t, m, row)
  <2>1. Locate(t, m, row)
    BY <1>5 DEF Node
  <2>2. t.section # None
    BY <1>3, <1>5
  <2>3. WithItem(t, m) = t
    BY <1>2 DEF WithItem
  <2> HIDE DEF t, m, row
  <2> QED BY <1>7, <2>1, <2>2, <2>3 DEF Locate
<1>10. CASE s.resource = None
  <2>1. s.keys = {"alias"} /\ s.given["field"] \in {None, "alias"}
    BY <1>1, <1>3, <1>10 DEF OfField
  <2>2. ~Redirected(s)
    BY <1>6, <1>10, Distinct
  <2>3. t.keys = {"alias"} /\ keys = {"alias"}
    BY <1>4, <1>5, <2>1, <2>2 DEF Selected
  <2>4. /\ "alias" \in Fields /\ "alias" \in Direct /\ "degree" # "alias"
        /\ Direct \subseteq Fields
    BY FieldSets
  <2>5. Keys(s.changes) \subseteq {"alias"} /\ Keys(t.changes) \subseteq {"alias"}
    <3>1. Keys(s.changes) \subseteq {"alias"}
      BY <1>1, <1>10 DEF Fits, Place
    <3> QED BY <1>5, <2>3, <3>1 DEF Keys
  <2>6. t.changes \in Dict
    BY <1>5 DEF Session
  <2> DEFINE d == [t EXCEPT !.op = "update", !.changes = t.changes]
  <2>9. /\ d.resource = None /\ d.changes = t.changes
    BY <1>5, <1>7, <1>10 DEF Session
  <2>11. \/ t.changes["alias"] = None /\ Stored(AskValue(d, "alias"))
         \/ Stored(DirectForm(d, Empty, {}))
         \/ Closed
    <3>1. ~Structured(m) \/ m.field \notin Direct
      BY <1>2
    <3>2. \A f, c, r, again : ~Ends(d, "cancel", f, c, r, again)
      BY DEF Ends
    <3> HIDE DEF d, m, t
    <3> QED BY <1>2, <1>9, <1>10, <2>3, <2>4, <3>1, <3>2
            DEF DirectField, d
  <2> HIDE DEF d
  <2>12. ASSUME t.changes["alias"] = None, Stored(AskValue(d, "alias"))
         PROVE  /\ card' = card /\ sess'.resource = None
                /\ sess'.changes = Empty
    <3>1. t.changes = Empty
      <4>1. Keys(t.changes) = {}
        BY <2>5, <2>12 DEF Keys
      <4> QED BY <2>6, <4>1, EmptyIs
    <3>2. sess'.resource = None /\ sess'.changes = t.changes
      <4>1. d \in Session
        BY <1>5, <2>6 DEF d, Session, Operations
      <4>2. /\ sess' = Ask(d, "alias", IF "alias" \in Listed THEN Values ELSE {})
            /\ "alias" \in Questions
        BY <2>12, FieldSets DEF Stored, AskValue
      <4>3. (IF "alias" \in Listed THEN Values ELSE {}) \subseteq Values
        OBVIOUS
      <4> QED BY <2>9, <4>1, <4>2, <4>3, AskIs
    <3> QED BY <2>12, <3>1, <3>2 DEF Stored
  <2>13. ASSUME Stored(DirectForm(d, Empty, {}))
         PROVE  /\ card' = card /\ sess'.resource = None
                /\ sess'.changes = Empty
    <3>1. sess'.resource = None /\ sess'.changes = Empty
      <4> DEFINE b == [d EXCEPT !.changes = Empty]
                 q == Ask(b, "action", {} \cup {"edit", "cancel"})
      <4>1. d \in Session
        BY <1>5, <2>6 DEF d, Session, Operations
      <4>2. b \in Session /\ b.resource = None /\ b.changes = Empty
        BY <2>9, <4>1, EmptyIs DEF Session
      <4>3. {} \cup {"edit", "cancel"} \subseteq Actions /\ "action" \in Questions
        BY DEF Actions, Questions
      <4> HIDE DEF b
      <4>4. q \in Session /\ q.resource = None /\ q.changes = Empty
        BY <4>2, <4>3, AskIs
      <4>5. sess' = [q EXCEPT !.form = d.keys]
        BY <2>13 DEF Stored, DirectForm, b
      <4> HIDE DEF q
      <4> QED BY <4>4, <4>5 DEF Session
    <3> QED BY <2>13, <3>1 DEF Stored
  <2>14. CASE Closed
    BY <1>8, <2>14 DEF Closed, Stored
  <2> QED BY <1>10, <2>11, <2>12, <2>13, <2>14
<1>11. CASE s.resource # None
  <2>1. InResource(t, m, row)
    BY <1>9, <1>11
  <2>2. s.resource = "edu" /\ s.op # "create" => row # None
    BY <1>1, <1>4 DEF Shows
  <2>3. \E d : OnRecord(d, "cancel", row)
    <3> HIDE DEF t, m, row
    <3> QED BY <1>2, <1>7, <2>1, <2>2 DEF InResource
  <2>4. Closed
    BY <2>3 DEF OnRecord
  <2> QED BY <1>8, <2>4 DEF Closed, Stored
<1> QED BY <1>10, <1>11

-----------------------------------------------------------------------------
(* The steps                                                               *)

LEMMA NoCardIs == NoCard \in Cards
BY NoSessionIs, EmptyIs DEF NoCard, Cards, Operations

\* What an outcome leaves of the invariant, when no card was open.
LEMMA OutcomeKeeps ==
    ASSUME TypeOK, card = NoCard, NEW row, Outcome(row),
           last' \in [message : Messages, stored : BOOLEAN]
    PROVE  /\ TypeOK'
           /\ sess'.open => SessOK(sess')
           /\ ~sess'.open => sess' = NoSession
           /\ card' # NoCard => CardOK(card')
<1>1. CASE sess' = NoSession /\ card' = card
  BY <1>1, NoSessionIs DEF Outcome, TypeOK
<1>2. CASE SessOK(sess') /\ card' = card
  BY <1>2 DEF Outcome, TypeOK, SessOK
<1>3. CASE sess' = NoSession /\ CardOK(card')
  BY <1>3, NoSessionIs DEF Outcome, TypeOK, CardOK
<1> QED BY <1>1, <1>2, <1>3 DEF Outcome

LEMMA MessageIs ==
    ASSUME NEW s, SessOK(s), NEW m, Answered(s, m),
           m = Message(m.type, m.field, m.value)
    PROVE  m \in Messages
<1>1. /\ m.type \in {"none", "query", "text", "option", "edit", "action"}
      /\ m.field \in Questions
  BY ValueIs
<1>2. m.value \in Fields \cup Resources \cup Named \cup Values \cup Actions
                    \cup {Typed, "profile", "create", "update"}
  <2>1. s.offers \subseteq Resources \cup Fields \cup Records \cup Values
                             \cup Actions \cup {"profile", "create", "update"}
    BY DEF SessOK, Session
  <2>2. TextsFor(s.asked) \subseteq Texts \cup Values \cup {Typed}
    BY DEF TextsFor
  <2> QED BY <2>1, <2>2 DEF Answered, Named
<1> QED BY <1>1, <1>2 DEF Messages, Message

\* A turn of an open session.
LEMMA TurnKeeps ==
    ASSUME TargetIInv, sess.open, NEW m, Answered(sess, m),
           m = Message(m.type, m.field, m.value), Turn(Give(sess, m), m)
    PROVE  TargetIInv' /\ Result(RecordOf(Give(sess, m), m))
<1>1. SessOK(sess) /\ card = NoCard /\ rows \subseteq Records
  BY DEF TargetIInv, TypeOK
<1>2. Node(Give(sess, m), m) /\ last' = [message |-> m, stored |-> TRUE]
  BY DEF Turn
<1>3. last' \in [message : Messages, stored : BOOLEAN]
  BY <1>1, <1>2, MessageIs
<1>4. Result(RecordOf(Give(sess, m), m))
  BY <1>1, <1>2, NodeKeeps
<1>5. /\ TypeOK'
      /\ sess'.open => SessOK(sess')
      /\ ~sess'.open => sess' = NoSession
      /\ card' # NoCard => CardOK(card')
  BY <1>1, <1>3, <1>4, OutcomeKeeps DEF Result, TargetIInv
<1>6. CancelOK'
  <2> SUFFICES ASSUME m = Cancel
               PROVE  /\ card' = NoCard
                      /\ sess'.open => sess'.resource = None
                                         /\ sess'.changes = Empty
    BY <1>2 DEF CancelOK
  <2>1. sess.asked = "action"
    BY <1>1, ValueIs DEF Cancel, Message
  <2>2. Give(sess, m) = sess
    BY FieldSets DEF Cancel, Message, Give, Slots
  <2> QED BY <1>1, <1>2, <2>1, <2>2, CancelKeeps
<1> QED BY <1>4, <1>5, <1>6 DEF TargetIInv

\* The turns of an open session, by their message.
LEMMA TurnsAre ==
    ASSUME Choose \/ Say \/ Edit \/ Act
    PROVE  \E m : /\ Answered(sess, m) /\ m = Message(m.type, m.field, m.value)
                  /\ Turn(Give(sess, m), m) /\ sess.open
                  /\ last' = [message |-> m, stored |-> TRUE]
<1>1. CASE Choose
  BY <1>1 DEF Choose, Answered, Message, Turn
<1>2. CASE Say
  BY <1>2 DEF Say, Answered, Message, Turn
<1>3. CASE Edit
  BY <1>3 DEF Edit, Answered, Message, Turn
<1>4. CASE Act
  <2>1. PICK a \in sess.offers \ {"edit"} :
           Turn(sess, Message("action", "action", a))
    BY <1>4 DEF Act
  <2> DEFINE m == Message("action", "action", a)
  <2>2. Give(sess, m) = sess
    BY FieldSets DEF Message, Give, Slots
  <2> QED BY <1>4, <2>1, <2>2 DEF Act, Answered, Message, Turn
<1> QED BY <1>1, <1>2, <1>3, <1>4

LEMMA TargetStep == TargetIInv /\ [Next]_vars => TargetIInv'
<1> SUFFICES ASSUME TargetIInv, [Next]_vars PROVE TargetIInv'
  OBVIOUS
<1>1. /\ TypeOK /\ rows \subseteq Records /\ CancelOK
      /\ sess.open => SessOK(sess)
      /\ ~sess.open => sess = NoSession
      /\ card # NoCard => CardOK(card) /\ ~sess.open
      /\ last \in [message : Messages, stored : BOOLEAN]
  BY DEF TargetIInv, TypeOK
<1>2. CASE Query
  <2>1. PICK op \in Operations :
           Turn([NoSession EXCEPT !.op = op], Message("query", None, None))
    BY <1>2 DEF Query
  <2> DEFINE m == Message("query", None, None)
  <2>2. /\ Node([NoSession EXCEPT !.op = op], m)
        /\ last' = [message |-> m, stored |-> TRUE]
    BY <2>1 DEF Turn
  <2>3. last' \in [message : Messages, stored : BOOLEAN]
    BY <2>2 DEF Messages, Message, Named
  <2>4. m # Cancel
    BY DEF Cancel, Message
  <2> HIDE DEF m
  <2>5. PICK r \in Records \cup {None} : Outcome(r)
    BY <1>1, <2>2, QueryKeeps DEF Result, m
  <2>6. card = NoCard
    BY <1>2 DEF Query
  <2>7. /\ TypeOK'
        /\ sess'.open => SessOK(sess')
        /\ ~sess'.open => sess' = NoSession
        /\ card' # NoCard => CardOK(card')
    BY <1>1, <2>3, <2>5, <2>6, OutcomeKeeps
  <2>8. CancelOK'
    BY <2>2, <2>4 DEF CancelOK
  <2> QED BY <2>7, <2>8 DEF TargetIInv
<1>3. CASE Choose \/ Say \/ Edit \/ Act
  BY <1>3, TurnsAre, TurnKeeps
<1>4. CASE Stops
  <2>1. /\ last' \in [message : Messages, stored : BOOLEAN]
        /\ last'.stored = FALSE
    BY <1>1, <1>4 DEF Stops
  <2>2. TypeOK'
    BY <1>1, <1>4, <2>1 DEF Stops, TypeOK
  <2>3. CancelOK'
    BY <2>1 DEF CancelOK
  <2>4. UNCHANGED <<sess, card>>
    BY <1>4 DEF Stops
  <2> QED BY <1>1, <2>2, <2>3, <2>4 DEF TargetIInv
<1>5. CASE Leave
  <2>1. sess' = NoSession /\ card' = NoCard /\ UNCHANGED <<rows, last>>
    BY <1>5 DEF Leave
  <2>2. TypeOK'
    BY <1>1, <2>1, NoSessionIs, NoCardIs DEF TypeOK
  <2>3. CancelOK'
    BY <2>1, NoSessionIs DEF CancelOK
  <2> QED BY <2>1, <2>2, <2>3, NoSessionIs DEF TargetIInv
<1>6. CASE Confirm
  <2>1. /\ card # NoCard /\ card' = NoCard /\ last' = last
        /\ \/ sess' = NoSession
           \/ sess' = [card.review EXCEPT !.given = NoSession.given]
        /\ rows' \subseteq rows
    BY <1>6 DEF Confirm
  <2>2. SessOK([card.review EXCEPT !.given = NoSession.given])
    BY <1>1, <2>1, GivenLost DEF CardOK
  <2>3. sess' \in Session /\ (sess'.open => SessOK(sess'))
          /\ (~sess'.open => sess' = NoSession)
    BY <2>1, <2>2, NoSessionIs DEF SessOK
  <2>4. TypeOK'
    BY <1>1, <2>1, <2>3, NoCardIs DEF TypeOK
  <2>5. CancelOK'
    BY <1>1, <2>1 DEF CancelOK
  <2> QED BY <2>1, <2>3, <2>4, <2>5 DEF TargetIInv
<1>7. CASE Elsewhere
  <2>1. UNCHANGED <<sess, card, last>> /\ rows' \subseteq Records
    BY <1>1, <1>7 DEF Elsewhere
  <2>2. TypeOK' /\ CancelOK'
    BY <1>1, <2>1 DEF TypeOK, CancelOK
  <2> QED BY <1>1, <2>1, <2>2 DEF TargetIInv
<1>8. CASE UNCHANGED vars
  <2>1. TypeOK' /\ CancelOK'
    BY <1>1, <1>8 DEF TypeOK, CancelOK, vars
  <2> QED BY <1>1, <1>8, <2>1 DEF TargetIInv, vars
<1> QED BY <1>2, <1>3, <1>4, <1>5, <1>6, <1>7, <1>8 DEF Next

LEMMA TargetInit == Init => TargetIInv
<1> SUFFICES ASSUME Init PROVE TargetIInv
  OBVIOUS
<1>1. last \in [message : Messages, stored : BOOLEAN] /\ last.stored = FALSE
  BY DEF Init, Messages, Named
<1>2. TypeOK
  BY <1>1, NoSessionIs, NoCardIs DEF Init, TypeOK
<1> QED BY <1>1, <1>2, NoSessionIs DEF Init, TargetIInv, CancelOK

-----------------------------------------------------------------------------
(* What it comes to                                                        *)

\* What is stored, and what a card brings back, agrees with every answer given
\* so far, after every step of the node (_resolve_profile_write_node).
THEOREM TargetInvariance == Spec => []TargetIInv
BY TargetInit, TargetStep, PTL DEF Spec

\* Every state is well typed: a session is closed while a card is open, and no
\* answer puts anything into it that it is not made for.
THEOREM TargetTypeCorrect == Spec => []TypeOK
<1>1. TargetIInv => TypeOK
  BY DEF TargetIInv
<1> QED BY <1>1, TargetInvariance, PTL

\* An employee who confirms a change has seen it, whatever was asked on the way
\* and whatever changes in Odoo, but for the only answer given for the resource,
\* which the review may leave out (_create_profile_confirmation).
THEOREM CardsShowTheirChanges == Spec => []CardShowsItsChanges
<1>1. TargetIInv => CardShowsItsChanges
  <2>1. Keys(NoCard.changes) = {}
    BY EmptyIs DEF NoCard
  <2> QED BY <2>1 DEF TargetIInv, CardOK, CardShowsItsChanges
<1> QED BY <1>1, TargetInvariance, PTL

\* A new row is sent off with everything it requires (required_on_create), by
\* whatever way the create was come to.
THEOREM CreatesAreComplete == Spec => []CreateIsComplete
<1>1. TargetIInv => CreateIsComplete
  <2>1. NoCard.op # "create"
    BY DEF NoCard
  <2> QED BY <2>1 DEF TargetIInv, CardOK, CreateIsComplete
<1> QED BY <1>1, TargetInvariance, PTL

\* What was changed on the form of one row never gets to another, while edits,
\* buttons and texts follow each other (profile_record_id).
THEOREM DraftsStayWithRecords == Spec => DraftStaysWithRecord
<1> DEFINE Stays ==
       /\ sess.displayed # None
       /\ last'.stored /\ last'.message.type \in {"edit", "action", "text"}
       => /\ sess'.displayed \in {sess.displayed, None}
          /\ card' # card => card'.record = sess.displayed
<1>1. TargetIInv /\ [Next]_vars => [Stays]_vars
  <2> SUFFICES ASSUME TargetIInv, Next, sess.displayed # None, last'.stored,
                      last'.message.type \in {"edit", "action", "text"}
               PROVE  /\ sess'.displayed \in {sess.displayed, None}
                      /\ card' # card => card'.record = sess.displayed
    OBVIOUS
  <2>1. sess.open /\ SessOK(sess) /\ card = NoCard
    BY NoSessionIs DEF TargetIInv, TypeOK
  <2>2. CASE Choose \/ Say \/ Edit \/ Act
    <3>1. PICK m : /\ Answered(sess, m) /\ m = Message(m.type, m.field, m.value)
                   /\ Turn(Give(sess, m), m)
                   /\ last' = [message |-> m, stored |-> TRUE]
      BY <2>2, TurnsAre
    <3>2. m.type # "option"
      BY <3>1
    <3>3. RecordOf(Give(sess, m), m) = sess.displayed
      <4>1. sess.record = sess.displayed
        BY <2>1 DEF SessOK, Shows
      <4>2. Give(sess, m).record = sess.record
        BY <2>1, <3>1, GiveIs
      <4> QED BY <3>2, <4>1, <4>2 DEF RecordOf, Picked
    <3>4. Outcome(sess.displayed)
      BY <2>1, <3>1, <3>3, TurnKeeps DEF Result
    <3> QED BY <3>4, NoSessionIs DEF Outcome
  <2>3. CASE Query \/ Confirm
    BY <2>1, <2>3 DEF Query, Confirm
  <2>4. CASE Stops
    BY <2>4 DEF Stops, TargetIInv, TypeOK
  <2>5. CASE Leave
    BY <2>1, <2>5, NoSessionIs DEF Leave
  <2>6. CASE Elsewhere
    BY <2>6 DEF Elsewhere
  <2> QED BY <2>2, <2>3, <2>4, <2>5, <2>6 DEF Next
<1> QED BY <1>1, TargetInvariance, PTL DEF Spec, DraftStaysWithRecord

\* The button that cancels ends the session, or leaves no change in it, where a
\* field of the section is edited (_cancel_edit_session,
\* _resolve_direct_field_update).
THEOREM CancellationsEnd == Spec => CancelEnds
<1> DEFINE Ending ==
       /\ last'.message = Message("action", "action", "cancel")
       /\ last'.stored /\ sess.open
       => \/ ~sess'.open
          \/ sess.resource = None /\ sess'.changes = Empty
<1>1. TargetIInv /\ [Next]_vars => [Ending]_vars
  <2> SUFFICES ASSUME TargetIInv, Next, last'.message = Cancel, last'.stored,
                      sess.open, sess'.open
               PROVE  sess.resource = None /\ sess'.changes = Empty
    BY DEF Cancel
  <2>1. SessOK(sess) /\ card = NoCard
    BY DEF TargetIInv, TypeOK
  <2>2. CASE Choose \/ Say \/ Edit \/ Act
    <3>1. PICK m : /\ Answered(sess, m)
                   /\ Turn(Give(sess, m), m)
                   /\ last' = [message |-> m, stored |-> TRUE]
      BY <2>2, TurnsAre
    <3>2. m = Cancel
      BY <3>1
    <3>3. sess.asked = "action" /\ Give(sess, m) = sess
      BY <2>1, <3>1, <3>2, ValueIs, FieldSets
         DEF Cancel, Message, Give, Slots
    <3> QED BY <2>1, <3>1, <3>2, <3>3, CancelKeeps DEF Turn
  <2>3. CASE Query \/ Confirm
    BY <2>1, <2>3 DEF Query, Confirm
  <2>4. CASE Stops
    BY <2>4 DEF Stops, TargetIInv, TypeOK
  <2>5. CASE Leave
    BY <2>5, NoSessionIs DEF Leave
  <2>6. CASE Elsewhere
    BY <2>6 DEF Elsewhere, TargetIInv, CancelOK
  <2> QED BY <2>2, <2>3, <2>4, <2>5, <2>6 DEF Next
<1> QED BY <1>1, TargetInvariance, PTL DEF Spec, CancelEnds, Cancel

=============================================================================
