----------------------------- MODULE ReadQuery -----------------------------
(***************************************************************************)
(* Questions about colleagues and departments: whom a question is about,   *)
(* found out over several turns, and the read that answers it              *)
(* (context/subject_resolver.py, context/entity_resolver.py,               *)
(* orchestration/nodes/resolve_arguments.py, merge_clarification.py,       *)
(* validate_selection.py, ask_clarification.py, execute_read_tool.py,      *)
(* security/authorization.py, tools/executor.py).                          *)
(*                                                                         *)
(* Two places of the code look a name up: merge_clarification takes the    *)
(* whole answer for a name, resolve_arguments extracts one from the        *)
(* message.  They need not agree, and either may fail.                     *)
(***************************************************************************)
EXTENDS FiniteSets

CONSTANTS
    People,             \* ids of employees
    Departments,        \* ids of departments; a number may be of both kinds
    DepartmentOf,       \* the department of an employee, or None
    Coded,              \* employees who have an employee code
    Actors,             \* who may be asking: an employee and a department
    Messages,           \* what may be written, and what it matches in Odoo
    DepartmentLabel,    \* what the name of a department is taken for
    None                \* Python's None

Kinds == {"employee", "department"}

\* What extract_subject finds in a message, and the ids its name matches.
\* "other" stands for the company, for nobody, and for a bare name.  A lookup
\* of one kind returns ids of that kind.
Mentions ==
    {m \in [type : Kinds \cup {"self", "own_department", "other"},
            found : SUBSET (People \cup Departments)] :
        /\ m.type = "employee" => m.found \subseteq People
        /\ m.type = "department" => m.found \subseteq Departments}

ASSUME PeopleAssumption ==
    /\ DepartmentOf \in [People -> Departments \cup {None}]
    /\ Coded \subseteq People
    /\ None \notin People \cup Departments
ASSUME ActorsAssumption ==
    \A a \in Actors : /\ a.employee \in People \cup {None}
                      /\ a.department \in Departments \cup {None}
ASSUME MessagesAssumption ==
    /\ \A m \in Messages :
          /\ m.mention \in Mentions
          /\ m.whole.employee \subseteq People
          /\ m.whole.department \subseteq Departments
    /\ DepartmentLabel \in [Departments -> Mentions]

VARIABLES
    actor,              \* the employee who asks
    row,                \* the conversation row
    turn,               \* the turn being handled
    told,               \* history: whom the messages of the question named
    read                \* history: the read that was carried out

vars == <<actor, row, turn, told, read>>

-----------------------------------------------------------------------------
(* The data                                                                *)

\* Tools by the scopes they answer for, the ids they accept and those they
\* require.  The others that read about an employee are like
\* employee_get_basic, those about oneself like profile_get_summary.
Tool(scopes, accepts, requires) ==
    [scopes |-> scopes, accepts |-> accepts, requires |-> requires]

Tools ==
    [employee_search |-> Tool({"named_employee"}, {"department"}, {}),
     employee_get_basic |-> Tool({"named_employee"}, {"employee"}, {"employee"}),
     employee_check_department_membership |->
         Tool({"named_employee"}, {"employee"}, {"employee"}),
     department_list_employees |->
         Tool({"department"}, {"department"}, {"department"}),
     employee_find_by_certificate |->
         Tool({"company", "department"}, {"department"}, {}),
     profile_get_summary |-> Tool({"self"}, {}, {})]

\* employee_id and department_id of the arguments.
NoArguments == [employee |-> None, department |-> None]

\* ResolvedSubject.
Subject(of, employee, department, source) ==
    [of |-> of, employee |-> employee, department |-> department,
     source |-> source]
Nobody == Subject("nobody", None, None, "none")
LookedUp(kind, id) ==
    IF kind = "employee"
    THEN Subject(kind, id, DepartmentOf[id], "odoo_lookup")
    ELSE Subject(kind, None, id, "odoo_lookup")

Offer(kind, ids) == [of |-> kind, ids |-> ids]
NoOffer == Offer("none", {})

\* SubjectResolution; "none" when there is none.
Resolution(reason, subject, options) ==
    [reason |-> reason, subject |-> subject, options |-> options]
Without(reason) == Resolution(reason, Nobody, NoOffer)
Resolved(subject) == Resolution("resolved", subject, NoOffer)

\* told: the <<kind, id>> that the lookups of the last message and of all
\* messages came to.  mixed: the message named the other kind, its matches
\* were on offer, and one was picked: its number is then taken for an id of
\* the kind asked for, because merge_clarification_node checks only that the
\* option is on offer.
NothingTold == [last |-> {}, ever |-> {}, mixed |-> FALSE]

NoTurn == [at |-> "idle", tool |-> None, scope |-> None, low |-> FALSE,
           args |-> NoArguments, missing |-> {}, subject |-> Without("none"),
           options |-> NoOffer, mention |-> None, told |-> NothingTold]

Row(status, field, t) ==
    [status |-> status, tool |-> t.tool, scope |-> t.scope, low |-> t.low,
     args |-> t.args, subject |-> t.subject, options |-> t.options,
     field |-> field]
Cleared(status) == Row(status, None, NoTurn)

NoRead == [tool |-> None, scope |-> None, args |-> NoArguments,
           told |-> NothingTold]

Init ==
    /\ actor \in Actors
    /\ row = Cleared("active")
    /\ turn = NoTurn
    /\ told = NothingTold
    /\ read = NoRead

-----------------------------------------------------------------------------
(* SubjectResolver.resolve                                                 *)

Found(kind, ids) ==
    IF ids = {} THEN Without("not_found")
    ELSE IF Cardinality(ids) = 1
    THEN Resolved(LookedUp(kind, CHOOSE id \in ids : TRUE))
    ELSE Resolution("ambiguous", Nobody, Offer(kind, ids))

OwnEmployee == Subject("self", actor.employee, None, "trusted_context")
OwnDepartment == Subject("department", None, actor.department, "trusted_context")

\* What a lookup may come to.
Lookups(mention) ==
    CASE mention.type \in Kinds ->
            {Found(mention.type, mention.found), Without("unavailable")}
      [] mention.type = "self" ->
            {IF actor.employee = None THEN Without("not_linked")
             ELSE Resolved(OwnEmployee)}
      [] mention.type = "own_department" ->
            {IF actor.employee = None THEN Without("not_linked")
             ELSE IF actor.department = None THEN Without("no_department")
             ELSE Resolved(OwnDepartment)}
      [] OTHER -> {Without("none")}

\* What a resolution names: a colleague together with the department.
Named(subject) ==
    {<<k, subject[k]>> : k \in {x \in Kinds : subject[x] # None}}
Tell(t, subject) ==
    [t EXCEPT !.last = @ \cup Named(subject), !.ever = @ \cup Named(subject)]

-----------------------------------------------------------------------------
(* A message                                                               *)

\* The tool and the scope come from classification, retrieval and selection;
\* only a tool that answers for the scope is a candidate.  detect_turn_type
\* clears the arguments of the question before.
NewQuery ==
    /\ turn.at = "idle"
    /\ \E m \in Messages, tool \in DOMAIN Tools, low \in BOOLEAN :
       \E scope \in Tools[tool].scopes :
          turn' = [NoTurn EXCEPT
                !.at = "resolve", !.tool = tool, !.scope = scope, !.low = low,
                !.mention = m.mention]
    /\ row' = Cleared("active")
    /\ told' = NothingTold
    /\ read' = NoRead
    /\ UNCHANGED actor

WorkflowCancel ==
    /\ turn.at = "idle" /\ row.status = "awaiting"
    /\ row' = Cleared("active")
    /\ UNCHANGED <<actor, turn, told, read>>

\* The turn goes on with the open workflow.
GoOn(mention, args, subject, options, t) ==
    /\ turn' = [at |-> "resolve", tool |-> row.tool, scope |-> row.scope,
                low |-> row.low, args |-> args, missing |-> {},
                subject |-> subject, options |-> options,
                mention |-> mention, told |-> t]
    /\ UNCHANGED <<actor, row, told, read>>

Awaiting(fields) ==
    turn.at = "idle" /\ row.status = "awaiting" /\ row.field \in fields
Forget == [told EXCEPT !.last = {}]

\* merge_clarification takes the whole answer for the name it asked for.
TypedAnswer ==
    /\ Awaiting(Kinds)
    /\ \E m \in Messages :
       \E found \in Lookups([type |-> row.field, found |-> m.whole[row.field]]) :
          LET id == found.subject[row.field]
          IN  GoOn(m.mention,
                   IF id = None THEN row.args
                   ELSE [row.args EXCEPT ![row.field] = id],
                   found,
                   IF id # None THEN NoOffer
                   ELSE IF found.options.ids # {} THEN found.options
                   ELSE row.options,
                   Tell(Forget, found.subject))

\* What resolve_arguments makes of the label of an option: a colleague's
\* has the code in it.
LabelMention(id) ==
    IF row.options.of = "department" THEN DepartmentLabel[id]
    ELSE IF id \in Coded THEN [type |-> "employee", found |-> {id}]
    ELSE [type |-> "other", found |-> {}]

\* An option has to be on offer, of whatever kind.
Pick ==
    /\ Awaiting(Kinds)
    /\ \E id \in row.options.ids :
          LET args == [NoArguments EXCEPT ![row.field] = id]
              mixed == row.options.of # row.field
          IN  GoOn(LabelMention(id), [row.args EXCEPT ![row.field] = id],
                   Resolved(Subject(row.field, args.employee, args.department,
                                    "structured_option")),
                   NoOffer,
                   [last |-> {<<row.options.of, id>>},
                    ever |-> told.ever \cup {<<row.options.of, id>>},
                    mixed |-> told.mixed \/ mixed])

\* An answer to "details" is stored as an argument no tool accepts.
DetailsAnswer ==
    /\ Awaiting({"details"})
    /\ \E m \in Messages :
          GoOn(m.mention, row.args, row.subject, NoOffer, Forget)

TurnFails ==
    /\ turn.at # "idle"
    /\ turn' = NoTurn
    /\ UNCHANGED <<actor, row, told, read>>

-----------------------------------------------------------------------------
(* The nodes after it                                                      *)

\* Mutant of Arguments: the id of the subject goes wherever an id is wanted.
ArgumentsOfAnyKind(tool, args, subject) ==
    LET id == IF subject.employee # None THEN subject.employee
              ELSE subject.department
    IN  [k \in Kinds |-> IF k \in Tools[tool].accepts /\ id # None
                         THEN id ELSE args[k]]

\* The ids of the subject take the place of those the tool accepts.
Arguments(tool, args, subject) ==
    [k \in Kinds |-> IF k \in Tools[tool].accepts /\ subject[k] # None
                     THEN subject[k] ELSE args[k]]

\* ArgumentResolver: the required arguments that are still None.
Missing(tool, args) == {k \in Tools[tool].requires : args[k] = None}

\* What is missing is found out before the subject is.  Without a subject of
\* its own, the message leaves the resolution that merge_clarification made.
ResolveArguments ==
    /\ turn.at = "resolve"
    /\ \E found \in Lookups(turn.mention) :
          turn' = [turn EXCEPT
                !.at = "validate",
                !.missing = Missing(turn.tool, turn.args),
                !.args = Arguments(turn.tool, @, found.subject),
                !.subject = IF found.reason = "none" THEN @ ELSE found,
                !.options = IF found.options.ids # {} THEN found.options ELSE @,
                !.told = Tell(@, found.subject)]
    /\ UNCHANGED <<actor, row, told, read>>

\* validate_selection ends the workflow of someone who is no employee, or of
\* no department, where the question needs it.
Unlinked ==
    \/ turn.subject.reason \in {"not_linked", "no_department"}
    \/ /\ turn.tool = "employee_check_department_membership"
       /\ None \in {actor.employee, actor.department}
Incomplete == turn.missing # {} \/ turn.low

Reject ==
    /\ turn.at = "validate" /\ Unlinked
    /\ row' = Cleared("failed")
    /\ turn' = NoTurn
    /\ UNCHANGED <<actor, told, read>>

AskClarification ==
    /\ turn.at = "validate" /\ ~Unlinked /\ Incomplete
    /\ \E field \in IF turn.missing = {} THEN {"details"} ELSE turn.missing :
          row' = Row("awaiting", field, turn)
    /\ told' = turn.told
    /\ turn' = NoTurn
    /\ UNCHANGED <<actor, read>>

\* Mutant of Authorized: a named employee need not be resolved.
AuthorizedByScope(scope, subject) ==
    scope = "self" => /\ actor.employee # None
                      /\ subject.of \in {"nobody", "self"}

\* AuthorizationPolicyService.authorize, as far as it depends on the subject.
Authorized(scope, subject) ==
    /\ scope = "self" => /\ actor.employee # None
                         /\ subject.of \in {"nobody", "self"}
    /\ scope = "named_employee" =>
          /\ subject.of = "employee"
          /\ subject.source \in {"structured_option", "odoo_lookup"}

\* The row keeps what it had: the next message is a new question.
Execute ==
    /\ turn.at = "validate" /\ ~Unlinked /\ ~Incomplete
    /\ read' = IF Authorized(turn.scope, turn.subject.subject)
               THEN [tool |-> turn.tool, scope |-> turn.scope,
                     args |-> turn.args, told |-> turn.told]
               ELSE read
    /\ \E status \in {"completed", "failed"} :
          /\ ~Authorized(turn.scope, turn.subject.subject) => status = "failed"
          /\ row' = [row EXCEPT !.status = status]
    /\ turn' = NoTurn
    /\ UNCHANGED <<actor, told>>

-----------------------------------------------------------------------------

Next ==
    \/ NewQuery \/ WorkflowCancel
    \/ TypedAnswer \/ Pick \/ DetailsAnswer \/ TurnFails
    \/ ResolveArguments \/ Reject \/ AskClarification \/ Execute

Spec == Init /\ [][Next]_vars

-----------------------------------------------------------------------------
(* Properties                                                              *)

\* What is read about a colleague is read about the one the last message
\* came to, by a lookup that matched nobody else or by a pick from the list:
\* never about one of an earlier message that the last one replaced, although
\* the earlier id is still among the arguments (execute_read_tool_node reads
\* by the arguments, authorize looks at the subject).  Exception: mixed.
ReadIsOfTheLastNamed ==
    read.args.employee # None /\ ~read.told.mixed
        => <<"employee", read.args.employee>> \in read.told.last

\* A department that is read is one that a message of this question came to,
\* itself or as the department of a colleague, or that was picked: no number
\* of another question and no number of another kind
\* (resolve_arguments_node).  Exception: mixed.
DepartmentWasNamed ==
    read.args.department # None /\ ~read.told.mixed
        => <<"department", read.args.department>> \in read.told.ever
=============================================================================
