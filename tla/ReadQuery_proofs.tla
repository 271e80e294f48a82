-------------------------- MODULE ReadQuery_proofs --------------------------
(***************************************************************************)
(* Proofs about ReadQuery, for any people, departments and messages.       *)
(*                                                                         *)
(* What is read goes by the arguments, and the authorization looks at the  *)
(* subject: two copies of the same id that are written in different nodes, *)
(* and of which the arguments survive from turn to turn.  The invariant    *)
(* says that they agree whenever the question can be answered at all, and  *)
(* where each came from.                                                   *)
(***************************************************************************)
EXTENDS ReadQuery, TLAPS

-----------------------------------------------------------------------------
(* The shapes                                                              *)

Ids == People \cup Departments \cup {None}
ArgumentsOver == [employee : Ids, department : Ids]
Offers == {o \in [of : Kinds \cup {"none"}, ids : SUBSET Ids] :
              /\ o.of = "employee" => o.ids \subseteq People
              /\ o.of = "department" => o.ids \subseteq Departments
              /\ o.of = "none" => o.ids = {}}
Subjects == {s \in [of : Kinds \cup {"nobody", "self"}, employee : Ids,
                    department : Ids,
                    source : {"none", "odoo_lookup", "trusted_context",
                              "structured_option"}] :
                s.of = "employee" => s.employee # None}
Resolutions == [reason : {"none", "resolved", "ambiguous", "not_found",
                          "unavailable", "not_linked", "no_department"},
                subject : Subjects, options : Offers]
Tellings == [last : SUBSET (Kinds \X Ids), ever : SUBSET (Kinds \X Ids),
             mixed : BOOLEAN]
ToolNames == DOMAIN Tools
Scopes == {"named_employee", "department", "company", "self"}

ActorsOver == [employee : People \cup {None}, department : Departments \cup {None}]

TurnRecords ==
    [at : {"idle", "resolve", "validate"}, tool : ToolNames \cup {None},
     scope : Scopes \cup {None}, low : BOOLEAN, args : ArgumentsOver,
     missing : SUBSET Kinds, subject : Resolutions, options : Offers,
     mention : Mentions \cup {None}, told : Tellings]

RowRecords ==
    [status : {"active", "awaiting", "completed", "failed"},
     tool : ToolNames \cup {None}, scope : Scopes \cup {None}, low : BOOLEAN,
     args : ArgumentsOver, subject : Resolutions, options : Offers,
     field : Kinds \cup {"details", None}]

Reads == [tool : ToolNames \cup {None}, scope : Scopes \cup {None},
          args : ArgumentsOver, told : Tellings]

ReadTypeOK ==
    /\ actor.employee \in People \cup {None}
    /\ actor.department \in Departments \cup {None}
    /\ row \in RowRecords /\ turn \in TurnRecords
    /\ told \in Tellings /\ read \in Reads

-----------------------------------------------------------------------------
(* The invariant                                                           *)

\* Only ids that the tool accepts are ever among its arguments.
Fits(tool, scope, args) ==
    /\ tool \in ToolNames /\ scope \in Tools[tool].scopes
    /\ \A k \in Kinds : k \notin Tools[tool].accepts => args[k] = None

\* A department among the arguments was named, or picked, in this question.
DepartmentFrom(args, t) ==
    \/ args.department = None \/ t.mixed
    \/ <<"department", args.department>> \in t.ever

\* If the subject is a colleague, the arguments have the same one, and the
\* last message came to it.
EmployeeFrom(tool, args, subject, t) ==
    subject.of = "employee" /\ "employee" \in Tools[tool].accepts
        => /\ args.employee = subject.employee
           /\ t.mixed \/ <<"employee", args.employee>> \in t.last

TurnInv ==
    turn.at # "idle"
        => /\ Fits(turn.tool, turn.scope, turn.args)
           /\ turn.mention \in Mentions
           /\ turn.missing \subseteq Tools[turn.tool].requires
           /\ DepartmentFrom(turn.args, turn.told)
           /\ ~turn.low => EmployeeFrom(turn.tool, turn.args,
                                        turn.subject.subject, turn.told)

\* The question "details" is asked because the selection was not certain, and
\* never becomes more certain: it is not answered by a read.
RowInv ==
    row.status = "awaiting"
        => /\ Fits(row.tool, row.scope, row.args)
           /\ row.field \in Tools[row.tool].requires \cup {"details"}
           /\ row.field = "details" => row.low
           /\ DepartmentFrom(row.args, told)

ReadInv == ReadIsOfTheLastNamed /\ DepartmentWasNamed

ReadIInv == ReadTypeOK /\ TurnInv /\ RowInv /\ ReadInv

-----------------------------------------------------------------------------
(* The tools, and what the helpers return                                  *)

\* What a tool requires it accepts, and one that takes the id of a colleague
\* answers for a named colleague only.
LEMMA ToolFacts ==
    \A t \in ToolNames :
        /\ Tools[t].requires \subseteq Tools[t].accepts
        /\ Tools[t].accepts \subseteq Kinds
        /\ "employee" \in Tools[t].accepts => Tools[t].scopes = {"named_employee"}
        /\ Tools[t].scopes \subseteq Scopes
  BY DEF ToolNames, Tools, Tool, Kinds, Scopes

\* The values everything starts from.
LEMMA Defaults ==
    /\ NoArguments \in ArgumentsOver
    /\ NoArguments.employee = None /\ NoArguments.department = None
    /\ NothingTold \in Tellings /\ NoOffer \in Offers
    /\ Nobody \in Subjects /\ Nobody.of = "nobody"
    /\ Nobody.employee = None /\ Nobody.department = None
    /\ NoTurn \in TurnRecords /\ NoTurn.at = "idle"
  <1>1. /\ NoArguments \in ArgumentsOver /\ NoArguments.employee = None
        /\ NoArguments.department = None
        /\ NothingTold \in Tellings /\ NoOffer \in Offers
    BY DEF NoArguments, ArgumentsOver, Ids, NothingTold, Tellings, NoOffer,
           Offer, Offers, Kinds
  <1>2. /\ Nobody \in Subjects /\ Nobody.of = "nobody"
        /\ Nobody.employee = None /\ Nobody.department = None
    BY DEF Nobody, Subject, Subjects, Ids
  <1>3. Without("none") \in Resolutions
    BY <1>1, <1>2 DEF Without, Resolution, Resolutions
  <1>4. NoTurn \in TurnRecords /\ NoTurn.at = "idle"
    BY <1>1, <1>3 DEF NoTurn, TurnRecords
  <1> QED
    BY <1>1, <1>2, <1>4

LEMMA ClearedRows ==
    ASSUME NEW s \in {"active", "completed", "failed"}
    PROVE  Cleared(s) \in RowRecords /\ Cleared(s).status = s
  <1>1. NoTurn \in TurnRecords
    BY Defaults
  <1> QED
    BY <1>1 DEF Cleared, Row, TurnRecords, RowRecords

\* A resolution without a subject.
Empty(r) == r \in Resolutions /\ r.subject = Nobody

LEMMA WithoutIsEmpty ==
    ASSUME NEW reason \in {"none", "not_found", "unavailable", "not_linked",
                           "no_department"}
    PROVE  Empty(Without(reason)) /\ Without(reason).reason = reason
  BY Defaults DEF Without, Resolution, Resolutions, Empty

\* A lookup for one kind comes to a subject of that kind, or to none.
LEMMA FoundFacts ==
    ASSUME NEW kind \in Kinds, NEW ids,
           ids \subseteq IF kind = "employee" THEN People ELSE Departments
    PROVE  /\ Found(kind, ids) \in Resolutions
           /\ Found(kind, ids).reason # "none"
           /\ \/ Found(kind, ids).subject = Nobody
              \/ Found(kind, ids).subject.of = kind
           /\ Found(kind, ids).subject.of = "department"
                 => Found(kind, ids).subject.employee = None
  <1>1. CASE ids = {}
    BY <1>1, WithoutIsEmpty, Defaults DEF Found, Empty
  <1>2. CASE ids # {} /\ Cardinality(ids) = 1
    <2> DEFINE id == CHOOSE i \in ids : TRUE
               subject == LookedUp(kind, id)
    <2>1. id \in ids
      BY <1>2
    <2> HIDE DEF id
    <2>2. /\ subject \in Subjects /\ subject.of = kind
          /\ kind = "department" => subject.employee = None
      BY <2>1, PeopleAssumption DEF LookedUp, Subject, Subjects, Ids, Kinds
    <2>3. Found(kind, ids) = Resolved(subject)
      BY <1>2 DEF Found, id
    <2> HIDE DEF subject
    <2> QED
      BY <2>2, <2>3, Defaults DEF Resolved, Resolution, Resolutions
  <1>3. CASE ids # {} /\ Cardinality(ids) # 1
    <2>1. Found(kind, ids) = Resolution("ambiguous", Nobody, Offer(kind, ids))
      BY <1>3 DEF Found
    <2>2. Offer(kind, ids) \in Offers
      BY DEF Offer, Offers, Ids, Kinds
    <2> QED
      BY <2>1, <2>2, Defaults DEF Resolution, Resolutions
  <1> QED
    BY <1>1, <1>2, <1>3

LEMMA LookupFacts ==
    ASSUME ReadTypeOK, NEW mention \in Mentions, NEW found \in Lookups(mention)
    PROVE  /\ found \in Resolutions
           /\ found.reason = "none" => found.subject = Nobody
           /\ mention.type \in Kinds
                 => \/ found.subject = Nobody
                    \/ found.subject.of = mention.type
           /\ found.subject.of = "department" => found.subject.employee = None
  <1>1. CASE Empty(found)
    BY <1>1, Defaults DEF Empty
  <1>2. CASE mention.type \in Kinds
    <2>1. mention.found \subseteq IF mention.type = "employee" THEN People
                                 ELSE Departments
      BY <1>2 DEF Mentions, Kinds
    <2>2. found = Found(mention.type, mention.found) \/ Empty(found)
      BY <1>2, WithoutIsEmpty DEF Lookups, Kinds
    <2> QED
      BY <1>1, <1>2, <2>1, <2>2, FoundFacts DEF Resolutions, Subjects, Kinds
  <1>3. CASE mention.type = "self"
    <2>1. CASE found = Resolved(OwnEmployee) /\ actor.employee # None
      <3>1. OwnEmployee \in Subjects /\ OwnEmployee.of = "self"
        BY <2>1, PeopleAssumption
           DEF ReadTypeOK, OwnEmployee, Subject, Subjects, Ids, Kinds
      <3> QED
        BY <1>3, <2>1, <3>1, Defaults
           DEF Resolved, Resolution, Resolutions, Kinds
    <2> QED
      BY <1>1, <1>3, <2>1, WithoutIsEmpty DEF Lookups, Kinds
  <1>4. CASE mention.type = "own_department"
    <2>1. CASE found = Resolved(OwnDepartment)
      <3>1. /\ OwnDepartment \in Subjects /\ OwnDepartment.of = "department"
            /\ OwnDepartment.employee = None
        BY PeopleAssumption
           DEF ReadTypeOK, OwnDepartment, Subject, Subjects, Ids, Kinds
      <3> QED
        BY <1>4, <2>1, <3>1, Defaults
           DEF Resolved, Resolution, Resolutions, Kinds
    <2> QED
      BY <1>1, <1>4, <2>1, WithoutIsEmpty DEF Lookups, Kinds
  <1>5. CASE mention.type = "other"
    BY <1>1, <1>5, WithoutIsEmpty DEF Lookups, Kinds
  <1> QED
    BY <1>2, <1>3, <1>4, <1>5 DEF Mentions

\* What a resolution names is told.
LEMMA TellFacts ==
    ASSUME NEW t \in Tellings, NEW s \in Subjects
    PROVE  /\ Tell(t, s) \in Tellings
           /\ t.last \subseteq Tell(t, s).last /\ t.ever \subseteq Tell(t, s).ever
           /\ Tell(t, s).mixed = t.mixed
           /\ \A k \in Kinds : s[k] # None => /\ <<k, s[k]>> \in Tell(t, s).last
                                              /\ <<k, s[k]>> \in Tell(t, s).ever
  <1>1. Named(s) \subseteq Kinds \X Ids
    BY DEF Named, Subjects, Kinds
  <1>2. \A k \in Kinds : s[k] # None => <<k, s[k]>> \in Named(s)
    BY DEF Named
  <1>3. /\ Tell(t, s) \in Tellings /\ Tell(t, s).mixed = t.mixed
        /\ Tell(t, s).last = t.last \cup Named(s)
        /\ Tell(t, s).ever = t.ever \cup Named(s)
    BY <1>1 DEF Tell, Tellings
  <1> QED
    BY <1>2, <1>3

\* The arguments take the ids the tool accepts, and no others.
LEMMA ArgumentFacts ==
    ASSUME NEW tool \in ToolNames, NEW args \in ArgumentsOver,
           NEW s \in Subjects
    PROVE  /\ Arguments(tool, args, s) \in ArgumentsOver
           /\ \A k \in Kinds :
                 Arguments(tool, args, s)[k]
                    = IF k \in Tools[tool].accepts /\ s[k] # None
                      THEN s[k] ELSE args[k]
  <1>1. \A k \in Kinds : args[k] \in Ids /\ s[k] \in Ids
    BY DEF ArgumentsOver, Subjects, Kinds
  <1>2. Arguments(tool, args, s) \in [Kinds -> Ids]
    BY <1>1 DEF Arguments
  <1> QED
    BY <1>2 DEF Arguments, ArgumentsOver, Kinds

-----------------------------------------------------------------------------
(* The invariant holds                                                     *)

LEMMA InitReadIInv == Init => ReadIInv
  <1> SUFFICES ASSUME Init PROVE ReadIInv
    OBVIOUS
  <1>1. NoRead \in Reads /\ NoRead.args = NoArguments
    BY Defaults DEF NoRead, Reads
  <1>2. ReadTypeOK
    BY <1>1, ActorsAssumption, Defaults, ClearedRows DEF Init, ReadTypeOK
  <1> QED
    BY <1>1, <1>2, Defaults, ClearedRows
       DEF Init, ReadIInv, TurnInv, RowInv, ReadInv, ReadIsOfTheLastNamed,
           DepartmentWasNamed

LEMMA NewQueryKeeps == ASSUME ReadIInv, NewQuery PROVE ReadIInv'
  <1>1. PICK m \in Messages, tool \in ToolNames, low \in BOOLEAN :
             \E scope \in Tools[tool].scopes :
                turn' = [NoTurn EXCEPT
                    !.at = "resolve", !.tool = tool, !.scope = scope,
                    !.low = low, !.mention = m.mention]
    BY DEF NewQuery, ToolNames
  <1>2. PICK scope \in Tools[tool].scopes :
             turn' = [NoTurn EXCEPT
                 !.at = "resolve", !.tool = tool, !.scope = scope,
                 !.low = low, !.mention = m.mention]
    BY <1>1
  <1>3. m.mention \in Mentions /\ scope \in Scopes
    BY <1>1, <1>2, MessagesAssumption, ToolFacts
  <1>4. /\ turn' \in TurnRecords
        /\ turn'.tool = tool /\ turn'.scope = scope
        /\ turn'.mention = m.mention
        /\ turn'.args = NoArguments /\ turn'.missing = {}
        /\ turn'.subject = Without("none")
    <2>1. /\ NoTurn.args = NoArguments /\ NoTurn.missing = {}
          /\ NoTurn.subject = Without("none")
      BY DEF NoTurn
    <2>2. NoTurn \in TurnRecords
      BY Defaults
    <2> HIDE DEF NoTurn
    <2> QED
      BY <1>2, <1>3, <2>1, <2>2 DEF TurnRecords
  <1>5. /\ row' = Cleared("active") /\ told' = NothingTold /\ read' = NoRead
        /\ actor' = actor
    BY DEF NewQuery
  <1>6. NoRead \in Reads /\ NoRead.args = NoArguments
    BY Defaults DEF NoRead, Reads
  <1>7. ReadTypeOK'
    BY <1>4, <1>5, <1>6, Defaults, ClearedRows DEF ReadIInv, ReadTypeOK
  <1>8. TurnInv'
    <2>1. Fits(tool, scope, NoArguments)
      BY <1>2, Defaults DEF Fits, Kinds
    <2>2. DepartmentFrom(NoArguments, turn'.told)
      BY Defaults DEF DepartmentFrom
    <2>3. EmployeeFrom(tool, NoArguments, Without("none").subject, turn'.told)
      BY Defaults, WithoutIsEmpty DEF EmployeeFrom, Empty
    <2> QED
      BY <1>3, <1>4, <2>1, <2>2, <2>3 DEF TurnInv
  <1>9. RowInv' /\ ReadInv'
    BY <1>5, <1>6, Defaults, ClearedRows
       DEF RowInv, ReadInv, ReadIsOfTheLastNamed, DepartmentWasNamed
  <1> QED
    BY <1>7, <1>8, <1>9 DEF ReadIInv

\* The turn is over, and the row is cleared or as it was.
LEMMA EndingKeeps ==
    ASSUME ReadIInv, UNCHANGED <<actor, told, read>>,
           turn' = NoTurn \/ UNCHANGED turn,
           \/ UNCHANGED row
           \/ \E s \in {"active", "failed"} : row' = Cleared(s)
    PROVE  ReadIInv'
  <1>1. ReadTypeOK'
    BY Defaults, ClearedRows DEF ReadIInv, ReadTypeOK
  <1>2. TurnInv'
    BY Defaults DEF ReadIInv, TurnInv
  <1>3. RowInv'
    BY ClearedRows DEF ReadIInv, RowInv
  <1>4. ReadInv'
    BY DEF ReadIInv, ReadInv, ReadIsOfTheLastNamed, DepartmentWasNamed
  <1> QED
    BY <1>1, <1>2, <1>3, <1>4 DEF ReadIInv

\* An answer to the open question.
LEMMA GoOnKeeps ==
    ASSUME ReadIInv, row.status = "awaiting",
           NEW mention \in Mentions, NEW args \in ArgumentsOver,
           NEW subject \in Resolutions, NEW options \in Offers,
           NEW t \in Tellings,
           GoOn(mention, args, subject, options, t),
           Fits(row.tool, row.scope, args), DepartmentFrom(args, t),
           ~row.low => EmployeeFrom(row.tool, args, subject.subject, t)
    PROVE  ReadIInv'
  <1>1. /\ turn'.at = "resolve" /\ turn'.tool = row.tool
        /\ turn'.scope = row.scope /\ turn'.low = row.low
        /\ turn'.args = args /\ turn'.missing = {} /\ turn'.subject = subject
        /\ turn'.options = options /\ turn'.mention = mention
        /\ turn'.told = t
        /\ UNCHANGED <<actor, row, told, read>>
    BY DEF GoOn
  <1>2. turn' \in TurnRecords
    BY DEF GoOn, TurnRecords, ReadIInv, ReadTypeOK, RowRecords
  <1>3. ReadTypeOK'
    BY <1>1, <1>2 DEF ReadIInv, ReadTypeOK
  <1>4. TurnInv'
    BY <1>1 DEF TurnInv
  <1>5. RowInv' /\ ReadInv'
    BY <1>1 DEF ReadIInv, RowInv, ReadInv, ReadIsOfTheLastNamed,
                DepartmentWasNamed
  <1> QED
    BY <1>3, <1>4, <1>5 DEF ReadIInv

\* An id put where the tool wants one.
LEMMA PutFits ==
    ASSUME NEW tool, NEW scope, NEW args \in ArgumentsOver,
           Fits(tool, scope, args), NEW k \in Tools[tool].requires,
           NEW id \in Ids
    PROVE  /\ k \in Kinds
           /\ [args EXCEPT ![k] = id] \in ArgumentsOver
           /\ Fits(tool, scope, [args EXCEPT ![k] = id])
           /\ [args EXCEPT ![k] = id][k] = id
           /\ \A j \in Kinds \ {k} : [args EXCEPT ![k] = id][j] = args[j]
  <1>1. k \in Tools[tool].accepts /\ k \in Kinds
    BY ToolFacts DEF Fits
  <1>2. DOMAIN args = Kinds
    BY DEF ArgumentsOver, Kinds
  <1>3. [args EXCEPT ![k] = id] \in ArgumentsOver
    BY <1>1 DEF ArgumentsOver, Kinds
  <1> QED
    BY <1>1, <1>2, <1>3 DEF Fits

LEMMA ForgetFacts ==
    ASSUME told \in Tellings
    PROVE  Forget \in Tellings /\ Forget.ever = told.ever
           /\ Forget.mixed = told.mixed
  BY DEF Forget, Tellings

LEMMA TypedAnswerKeeps == ASSUME ReadIInv, TypedAnswer PROVE ReadIInv'
  <1> DEFINE f == row.field
  <1>1. /\ row.status = "awaiting" /\ f \in Kinds
        /\ f \in Tools[row.tool].requires
        /\ row.args \in ArgumentsOver /\ row.options \in Offers
        /\ Fits(row.tool, row.scope, row.args)
        /\ DepartmentFrom(row.args, told) /\ told \in Tellings
    BY DEF TypedAnswer, Awaiting, ReadIInv, RowInv, ReadTypeOK, RowRecords,
           Kinds
  <1>2. PICK m \in Messages :
             \E found \in Lookups([type |-> f, found |-> m.whole[f]]) :
                GoOn(m.mention,
                     IF found.subject[f] = None THEN row.args
                     ELSE [row.args EXCEPT ![f] = found.subject[f]],
                     found,
                     IF found.subject[f] # None THEN NoOffer
                     ELSE IF found.options.ids # {} THEN found.options
                     ELSE row.options,
                     Tell(Forget, found.subject))
    BY DEF TypedAnswer
  <1> DEFINE asked == [type |-> f, found |-> m.whole[f]]
  <1>3. asked \in Mentions /\ asked.type = f /\ m.mention \in Mentions
    BY <1>1, MessagesAssumption DEF Mentions, Kinds
  <1> HIDE DEF asked
  <1>4. PICK found \in Lookups(asked) :
             GoOn(m.mention,
                  IF found.subject[f] = None THEN row.args
                  ELSE [row.args EXCEPT ![f] = found.subject[f]],
                  found,
                  IF found.subject[f] # None THEN NoOffer
                  ELSE IF found.options.ids # {} THEN found.options
                  ELSE row.options,
                  Tell(Forget, found.subject))
    BY <1>2 DEF asked
  <1> DEFINE id == found.subject[f]
             args == IF id = None THEN row.args
                     ELSE [row.args EXCEPT ![f] = id]
             options == IF id # None THEN NoOffer
                        ELSE IF found.options.ids # {} THEN found.options
                        ELSE row.options
             t == Tell(Forget, found.subject)
  <1>5. /\ found \in Resolutions /\ found.subject \in Subjects
        /\ found.options \in Offers
        /\ found.subject = Nobody \/ found.subject.of = f
        /\ id \in Ids
    BY <1>1, <1>3, LookupFacts DEF ReadIInv, Resolutions, Subjects, Kinds
  <1>6. /\ args \in ArgumentsOver /\ Fits(row.tool, row.scope, args)
        /\ id # None => args[f] = id
        /\ \A j \in Kinds \ {f} : args[j] = row.args[j]
        /\ id = None => args = row.args
    BY <1>1, <1>5, PutFits
  <1>7. options \in Offers
    BY <1>1, <1>5, Defaults
  <1>8. /\ t \in Tellings /\ t.mixed = told.mixed /\ told.ever \subseteq t.ever
        /\ id # None => <<f, id>> \in t.last /\ <<f, id>> \in t.ever
    BY <1>1, <1>5, ForgetFacts, TellFacts
  <1> HIDE DEF args, t, options
  <1>9. DepartmentFrom(args, t)
    BY <1>1, <1>6, <1>8 DEF DepartmentFrom, Kinds
  <1>10. EmployeeFrom(row.tool, args, found.subject, t)
    <2> SUFFICES ASSUME found.subject.of = "employee"
                 PROVE  /\ args.employee = found.subject.employee
                        /\ <<"employee", args.employee>> \in t.last
      BY DEF EmployeeFrom
    <2>1. f = "employee" /\ id # None
      BY <1>5, Defaults DEF Subjects
    <2> QED
      BY <1>6, <1>8, <2>1
  <1>11. GoOn(m.mention, args, found, options, t)
    BY <1>4 DEF args, options, t
  <1> QED
    BY <1>1, <1>3, <1>5, <1>6, <1>7, <1>8, <1>9, <1>10, <1>11, GoOnKeeps

\* What is picked becomes the subject and an argument at once; if it is of
\* the other kind, the history says so.
LEMMA PickKeeps == ASSUME ReadIInv, Pick PROVE ReadIInv'
  <1> DEFINE f == row.field
  <1>1. /\ row.status = "awaiting" /\ f \in Kinds
        /\ f \in Tools[row.tool].requires
        /\ row.args \in ArgumentsOver /\ row.options \in Offers
        /\ Fits(row.tool, row.scope, row.args)
        /\ DepartmentFrom(row.args, told) /\ told \in Tellings
    BY DEF Pick, Awaiting, ReadIInv, RowInv, ReadTypeOK, RowRecords, Kinds
  <1>2. PICK id \in row.options.ids :
          LET args == [NoArguments EXCEPT ![row.field] = id]
              mixed == row.options.of # row.field
          IN  GoOn(LabelMention(id), [row.args EXCEPT ![row.field] = id],
                   Resolved(Subject(row.field, args.employee, args.department,
                                    "structured_option")),
                   NoOffer,
                   [last |-> {<<row.options.of, id>>},
                    ever |-> told.ever \cup {<<row.options.of, id>>},
                    mixed |-> told.mixed \/ mixed])
    BY DEF Pick
  <1> DEFINE own == [NoArguments EXCEPT ![f] = id]
             subject == Subject(f, own.employee, own.department,
                                "structured_option")
             args == [row.args EXCEPT ![f] = id]
             t == [last |-> {<<row.options.of, id>>},
                   ever |-> told.ever \cup {<<row.options.of, id>>},
                   mixed |-> told.mixed \/ row.options.of # f]
  <1>3. /\ row.options.of \in Kinds /\ id \in Ids
        /\ row.options.of = "employee" => id \in People
        /\ row.options.of = "department" => id \in Departments
        /\ id # None
    BY <1>1, PeopleAssumption DEF Offers, Kinds
  <1>4. LabelMention(id) \in Mentions
    <2>1. CASE row.options.of = "department"
      BY <1>3, <2>1, MessagesAssumption DEF LabelMention
    <2>2. CASE row.options.of = "employee"
      BY <1>3, <2>2 DEF LabelMention, Mentions, Kinds
    <2> QED
      BY <1>3, <2>1, <2>2 DEF Kinds
  <1>5. /\ args \in ArgumentsOver /\ Fits(row.tool, row.scope, args)
        /\ args[f] = id
        /\ \A j \in Kinds \ {f} : args[j] = row.args[j]
    BY <1>1, <1>3, PutFits
  <1>6. own \in ArgumentsOver /\ own[f] = id
    BY <1>1, <1>3, Defaults DEF ArgumentsOver, Kinds
  <1>7. /\ subject \in Subjects /\ subject.of = f
        /\ f = "employee" => subject.employee = id
    BY <1>1, <1>3, <1>6 DEF Subject, Subjects, ArgumentsOver, Kinds
  <1> HIDE DEF subject
  <1>8. Resolved(subject) \in Resolutions /\ Resolved(subject).subject = subject
    BY <1>7, Defaults DEF Resolved, Resolution, Resolutions
  <1>9. /\ t \in Tellings
        /\ t.last = {<<row.options.of, id>>}
        /\ t.ever = told.ever \cup {<<row.options.of, id>>}
        /\ t.mixed = (told.mixed \/ row.options.of # f)
    BY <1>1, <1>3 DEF Tellings
  <1>10. GoOn(LabelMention(id), args, Resolved(subject), NoOffer, t)
    BY <1>2 DEF subject
  <1> HIDE DEF args, t
  <1>11. DepartmentFrom(args, t)
    <2>1. CASE f = "department"
      BY <1>5, <1>9, <2>1 DEF DepartmentFrom
    <2>2. CASE f = "employee"
      <3>1. args.department = row.args.department
        BY <1>5, <2>2 DEF Kinds
      <3> QED
        BY <1>1, <1>9, <3>1 DEF DepartmentFrom
    <2> QED
      BY <1>1, <2>1, <2>2 DEF Kinds
  <1>12. EmployeeFrom(row.tool, args, Resolved(subject).subject, t)
    BY <1>5, <1>7, <1>8, <1>9 DEF EmployeeFrom
  <1> QED
    BY <1>1, <1>4, <1>5, <1>8, <1>9, <1>10, <1>11, <1>12, Defaults, GoOnKeeps

LEMMA DetailsAnswerKeeps == ASSUME ReadIInv, DetailsAnswer PROVE ReadIInv'
  <1>1. /\ row.status = "awaiting" /\ row.low
        /\ row.args \in ArgumentsOver /\ row.subject \in Resolutions
        /\ Fits(row.tool, row.scope, row.args)
        /\ DepartmentFrom(row.args, told) /\ told \in Tellings
    BY DEF DetailsAnswer, Awaiting, ReadIInv, RowInv, ReadTypeOK, RowRecords
  <1>2. PICK m \in Messages :
             GoOn(m.mention, row.args, row.subject, NoOffer, Forget)
    BY DEF DetailsAnswer
  <1>3. m.mention \in Mentions
    BY MessagesAssumption
  <1>4. Forget \in Tellings /\ DepartmentFrom(row.args, Forget)
    BY <1>1, ForgetFacts DEF DepartmentFrom
  <1> QED
    BY <1>1, <1>2, <1>3, <1>4, Defaults, GoOnKeeps

\* The message's own subject replaces the one before, in the arguments and in
\* the resolution alike; a message without one changes neither.
LEMMA ResolveKeeps == ASSUME ReadIInv, ResolveArguments PROVE ReadIInv'
  <1>1. /\ turn.at = "resolve" /\ turn \in TurnRecords
        /\ turn.mention \in Mentions /\ turn.tool \in ToolNames
        /\ turn.args \in ArgumentsOver /\ turn.told \in Tellings
        /\ turn.subject \in Resolutions /\ turn.options \in Offers
        /\ Fits(turn.tool, turn.scope, turn.args)
        /\ DepartmentFrom(turn.args, turn.told)
        /\ ~turn.low => EmployeeFrom(turn.tool, turn.args,
                                     turn.subject.subject, turn.told)
    BY DEF ResolveArguments, ReadIInv, TurnInv, ReadTypeOK, TurnRecords, Fits
  <1>2. PICK found \in Lookups(turn.mention) :
          turn' = [turn EXCEPT
                !.at = "validate",
                !.missing = Missing(turn.tool, turn.args),
                !.args = Arguments(turn.tool, @, found.subject),
                !.subject = IF found.reason = "none" THEN @ ELSE found,
                !.options = IF found.options.ids # {} THEN found.options ELSE @,
                !.told = Tell(@, found.subject)]
    BY DEF ResolveArguments
  <1> DEFINE args == Arguments(turn.tool, turn.args, found.subject)
             t == Tell(turn.told, found.subject)
             missing == Missing(turn.tool, turn.args)
             subject == IF found.reason = "none" THEN turn.subject ELSE found
  <1>3. /\ found \in Resolutions /\ found.subject \in Subjects
        /\ found.options \in Offers
        /\ found.reason = "none" => found.subject = Nobody
    BY <1>1, LookupFacts DEF ReadIInv, Resolutions
  <1>4. /\ args \in ArgumentsOver
        /\ \A k \in Kinds :
              args[k] = IF k \in Tools[turn.tool].accepts
                           /\ found.subject[k] # None
                        THEN found.subject[k] ELSE turn.args[k]
    BY <1>1, <1>3, ArgumentFacts
  <1>5. /\ t \in Tellings /\ t.mixed = turn.told.mixed
        /\ turn.told.last \subseteq t.last /\ turn.told.ever \subseteq t.ever
        /\ \A k \in Kinds : found.subject[k] # None
              => /\ <<k, found.subject[k]>> \in t.last
                 /\ <<k, found.subject[k]>> \in t.ever
    BY <1>1, <1>3, TellFacts
  <1>6. /\ missing \subseteq Tools[turn.tool].requires /\ missing \subseteq Kinds
    BY <1>1, ToolFacts DEF Missing
  <1>7. subject \in Resolutions
    BY <1>1, <1>3
  <1> HIDE DEF args, t, missing, subject
  <1>8. turn' = [turn EXCEPT
                !.at = "validate", !.missing = missing, !.args = args,
                !.subject = subject,
                !.options = IF found.options.ids # {} THEN found.options ELSE @,
                !.told = t]
    BY <1>2 DEF args, t, missing, subject
  <1>9. /\ turn' \in TurnRecords
        /\ turn'.tool = turn.tool /\ turn'.scope = turn.scope
        /\ turn'.mention = turn.mention /\ turn'.low = turn.low
        /\ turn'.args = args /\ turn'.missing = missing
        /\ turn'.subject = subject /\ turn'.told = t
    BY <1>1, <1>3, <1>4, <1>5, <1>6, <1>7, <1>8 DEF TurnRecords
  <1>10. UNCHANGED <<actor, row, told, read>>
    BY DEF ResolveArguments
  <1>11. Fits(turn.tool, turn.scope, args)
    BY <1>1, <1>4 DEF Fits
  <1>12. DepartmentFrom(args, t)
    <2>1. args.department = turn.args.department
          \/ args.department = found.subject.department
      BY <1>4 DEF Kinds
    <2>2. args.department = found.subject.department /\ args.department # None
             => <<"department", args.department>> \in t.ever
      BY <1>5 DEF Kinds
    <2> QED
      BY <1>1, <1>5, <2>1, <2>2 DEF DepartmentFrom
  <1>13. ~turn.low => EmployeeFrom(turn.tool, args, subject.subject, t)
    <2> SUFFICES ASSUME ~turn.low, subject.subject.of = "employee",
                        "employee" \in Tools[turn.tool].accepts
                 PROVE  /\ args.employee = subject.subject.employee
                        /\ t.mixed \/ <<"employee", args.employee>> \in t.last
      BY DEF EmployeeFrom
    <2>1. CASE found.reason = "none"
      <3>1. args.employee = turn.args.employee
        BY <1>3, <1>4, <2>1, Defaults DEF Kinds
      <3>2. subject = turn.subject
        BY <2>1 DEF subject
      <3> QED
        BY <1>1, <1>5, <3>1, <3>2 DEF EmployeeFrom
    <2>2. CASE found.reason # "none"
      <3>1. subject = found
        BY <2>2 DEF subject
      <3>2. found.subject.employee # None
        BY <1>3, <3>1 DEF Subjects
      <3>3. args.employee = found.subject.employee
        BY <1>4, <3>2 DEF Kinds
      <3> QED
        BY <1>5, <3>1, <3>2, <3>3 DEF Kinds
    <2> QED
      BY <2>1, <2>2
  <1>14. ReadTypeOK'
    BY <1>9, <1>10 DEF ReadIInv, ReadTypeOK
  <1>15. TurnInv'
    BY <1>1, <1>6, <1>9, <1>11, <1>12, <1>13 DEF TurnInv
  <1>16. RowInv' /\ ReadInv'
    BY <1>10 DEF ReadIInv, RowInv, ReadInv, ReadIsOfTheLastNamed,
                 DepartmentWasNamed
  <1> QED
    BY <1>14, <1>15, <1>16 DEF ReadIInv

LEMMA AskKeeps == ASSUME ReadIInv, AskClarification PROVE ReadIInv'
  <1>1. /\ turn.at = "validate" /\ turn \in TurnRecords
        /\ Fits(turn.tool, turn.scope, turn.args)
        /\ turn.missing \subseteq Tools[turn.tool].requires
        /\ DepartmentFrom(turn.args, turn.told) /\ turn.told \in Tellings
        /\ turn.tool \in ToolNames
    BY DEF AskClarification, ReadIInv, TurnInv, ReadTypeOK, TurnRecords, Fits
  <1>2. PICK field \in IF turn.missing = {} THEN {"details"} ELSE turn.missing :
             row' = Row("awaiting", field, turn)
    BY DEF AskClarification
  <1>3. /\ field \in Tools[turn.tool].requires \cup {"details"}
        /\ field \in Kinds \cup {"details"}
        /\ field = "details" => turn.low
    <2>1. field # "details" => field \in turn.missing
      BY <1>2
    <2>2. turn.missing \subseteq Kinds
      BY <1>1 DEF TurnRecords
    <2>3. field = "details" => turn.missing = {}
      BY <1>2, <2>2 DEF Kinds
    <2> QED
      BY <1>1, <2>1, <2>2, <2>3 DEF AskClarification, Incomplete
  <1>4. /\ row' \in RowRecords /\ row'.tool = turn.tool
        /\ row'.scope = turn.scope /\ row'.low = turn.low
        /\ row'.args = turn.args /\ row'.field = field
    BY <1>1, <1>2, <1>3 DEF Row, RowRecords, TurnRecords
  <1>5. /\ told' = turn.told /\ turn' = NoTurn
        /\ UNCHANGED <<actor, read>>
    BY DEF AskClarification
  <1>6. ReadTypeOK'
    BY <1>1, <1>4, <1>5, Defaults DEF ReadIInv, ReadTypeOK
  <1>7. TurnInv'
    BY <1>5, Defaults DEF TurnInv
  <1>8. RowInv'
    BY <1>1, <1>3, <1>4, <1>5 DEF RowInv
  <1>9. ReadInv'
    BY <1>5 DEF ReadIInv, ReadInv, ReadIsOfTheLastNamed, DepartmentWasNamed
  <1> QED
    BY <1>6, <1>7, <1>8, <1>9 DEF ReadIInv

\* Only a tool for named colleagues has the id of one, and it is authorized
\* only if the subject, hence the argument, is one.
LEMMA ExecuteKeeps == ASSUME ReadIInv, Execute PROVE ReadIInv'
  <1>1. /\ turn.at = "validate" /\ turn \in TurnRecords
        /\ Fits(turn.tool, turn.scope, turn.args)
        /\ DepartmentFrom(turn.args, turn.told)
        /\ ~turn.low /\ turn.tool \in ToolNames
        /\ EmployeeFrom(turn.tool, turn.args, turn.subject.subject, turn.told)
    BY DEF Execute, Incomplete, ReadIInv, TurnInv, ReadTypeOK, TurnRecords,
           Fits
  <1>2. UNCHANGED <<actor, told>> /\ turn' = NoTurn
    BY DEF Execute
  <1>3. /\ row' \in RowRecords /\ row'.status # "awaiting"
    BY DEF Execute, ReadIInv, ReadTypeOK, RowRecords
  <1>4. read' \in Reads /\ ReadInv'
    <2>1. CASE ~Authorized(turn.scope, turn.subject.subject)
      BY <2>1 DEF Execute, ReadIInv, ReadTypeOK, ReadInv,
                  ReadIsOfTheLastNamed, DepartmentWasNamed
    <2>2. CASE Authorized(turn.scope, turn.subject.subject)
      <3>1. /\ read' \in Reads /\ read'.args = turn.args
            /\ read'.told = turn.told
        BY <1>1, <2>2 DEF Execute, Reads, TurnRecords
      <3>2. turn.args.employee # None
               => turn.told.mixed
                  \/ <<"employee", turn.args.employee>> \in turn.told.last
        <4> SUFFICES ASSUME turn.args.employee # None
                     PROVE  turn.told.mixed
                            \/ <<"employee", turn.args.employee>>
                                   \in turn.told.last
          OBVIOUS
        <4>1. "employee" \in Tools[turn.tool].accepts
          BY <1>1 DEF Fits, Kinds
        <4>2. turn.scope = "named_employee"
          BY <1>1, <4>1, ToolFacts DEF Fits
        <4>3. turn.subject.subject.of = "employee"
          BY <2>2, <4>2 DEF Authorized
        <4> QED
          BY <1>1, <4>1, <4>3 DEF EmployeeFrom
      <3> QED
        BY <1>1, <3>1, <3>2
           DEF DepartmentFrom, ReadInv, ReadIsOfTheLastNamed,
               DepartmentWasNamed
    <2> QED
      BY <2>1, <2>2
  <1>5. ReadTypeOK'
    BY <1>2, <1>3, <1>4, Defaults DEF ReadIInv, ReadTypeOK
  <1>6. TurnInv' /\ RowInv'
    BY <1>2, <1>3, Defaults DEF TurnInv, RowInv
  <1> QED
    BY <1>4, <1>5, <1>6 DEF ReadIInv

LEMMA ReadInductive == ReadIInv /\ [Next]_vars => ReadIInv'
  <1> SUFFICES ASSUME ReadIInv, [Next]_vars PROVE ReadIInv'
    OBVIOUS
  <1>1. CASE UNCHANGED vars
    BY <1>1, EndingKeeps DEF vars
  <1>2. CASE WorkflowCancel
    BY <1>2, EndingKeeps DEF WorkflowCancel
  <1>3. CASE TurnFails
    BY <1>3, EndingKeeps DEF TurnFails
  <1>4. CASE Reject
    BY <1>4, EndingKeeps DEF Reject
  <1> QED
    BY <1>1, <1>2, <1>3, <1>4, NewQueryKeeps, TypedAnswerKeeps, PickKeeps,
       DetailsAnswerKeeps, ResolveKeeps, AskKeeps, ExecuteKeeps DEF Next

LEMMA ReadInvariance == Spec => []ReadIInv
  BY InitReadIInv, ReadInductive, PTL DEF Spec

-----------------------------------------------------------------------------
(* What follows                                                            *)

\* The records of turn, row and read keep their shapes, and an offer of
\* colleagues or departments lists only such.
THEOREM ReadTypeCorrect == Spec => []ReadTypeOK
  BY ReadInvariance, PTL DEF ReadIInv

\* A colleague is read about only as the one the last message came to.
THEOREM ReadOfLastNamed == Spec => []ReadIsOfTheLastNamed
  BY ReadInvariance, PTL DEF ReadIInv, ReadInv

\* A department is read only if this question named it.
THEOREM ReadDepartmentNamed == Spec => []DepartmentWasNamed
  BY ReadInvariance, PTL DEF ReadIInv, ReadInv
=============================================================================
