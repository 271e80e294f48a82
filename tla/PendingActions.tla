--------------------------- MODULE PendingActions ---------------------------
(***************************************************************************)
(* The pending_action table and the operations PendingActionService runs   *)
(* on it (context/pending_action_service.py, over                          *)
(* persistence/repositories/pending_action_repository.py).                 *)
(*                                                                         *)
(* Many requests run at once.  An operation samples the clock, opens a     *)
(* transaction, reads the row and then issues a conditional UPDATE.        *)
(* PostgreSQL runs each transaction READ COMMITTED, so the row may change  *)
(* between the read and the UPDATE, and the UPDATE's WHERE clause is       *)
(* judged against the row as it is then.  Sampling, reading and writing    *)
(* are therefore three steps here.  What a transaction writes after its    *)
(* first UPDATE is one step with it: the UPDATE holds the row's lock until *)
(* the commit.                                                             *)
(***************************************************************************)
EXTENDS Integers, FiniteSets

CONSTANTS
    Actions,            \* action identifiers, drawn afresh by create
    Workers,            \* request handlers running at the same time
    Users,              \* odoo_user_id
    Conversations,      \* conversation_id
    NoAction,           \* "no action chosen yet"
    TTL,                \* pending_action_ttl_seconds
    Lease,              \* pending_execution_lease_seconds
    MaxTime             \* bound on the clock, for model checking

ASSUME NoActionAssumption == NoAction \notin Actions
ASSUME DurationsAssumption == TTL \in Nat \ {0} /\ Lease \in Nat \ {0}
ASSUME MaxTimeAssumption == MaxTime \in Nat

VARIABLES
    now,                \* the clock the handlers and the database share
    row,                \* row[a]: the pending_action row, or Absent
    call                \* call[w]: the operation worker w is running, or Idle

vars == <<now, row, call>>

-----------------------------------------------------------------------------
(* The data                                                                *)

NoTime == -1            \* a nullable timestamp that is NULL

Terminal == {"executed", "failed", "cancelled", "expired"}

\* get_active_for_conversation's filter.
ActiveStatuses == {"pending", "confirmed", "executing"}

Principals == [user : Users, conv : Conversations]

Absent == [status |-> "absent"]

Row == [status      : ActiveStatuses \cup Terminal,
        owner       : Principals,
        createdAt   : Nat,
        expiresAt   : Nat,
        confirmedAt : Nat \cup {NoTime},
        executingAt : Nat \cup {NoTime}]

Idle == [phase |-> "idle"]

\* The operation, the step it is about to take, the action it works on, the
\* caller it works for, and the clock as it was sampled on entry.
Call == [op     : {"create", "load", "claim", "cancel", "reset"},
         phase  : {"insert", "read", "select", "expire", "confirm",
                   "reclaim", "cancel", "discard", "hold"},
         action : Actions \cup {NoAction},
         who    : Principals,
         at     : Nat]

\* "confirmed" is written and overwritten inside one transaction: no other
\* session ever reads it.
TypeOK ==
    /\ now \in Nat
    /\ row \in [Actions -> {Absent} \cup Row]
    /\ call \in [Workers -> {Idle} \cup Call]
    /\ \A a \in Actions : row[a].status # "confirmed"
    /\ \A w \in Workers :
          call[w].phase \notin {"idle", "insert", "select"}
              => call[w].action \in Actions

Init ==
    /\ now = 0
    /\ row = [a \in Actions |-> Absent]
    /\ call = [w \in Workers |-> Idle]

-----------------------------------------------------------------------------
(* The repository                                                          *)

\* Mutation of Matches: transition without its from_statuses.
MatchesAnyStatus(a, user, from) == row[a].owner.user = user

\* The WHERE clause of PendingActionRepository.transition.
Matches(a, user, from) ==
    /\ row[a].status \in from
    /\ row[a].owner.user = user

\* ... and its UPDATE.
SetRow(a, r) == row' = [row EXCEPT ![a] = r]

\* The rows get_active_for_conversation may return: the newest active one,
\* any of the newest when they were inserted at the same instant.
NewestActive(who) ==
    LET active == {a \in Actions : /\ row[a].status \in ActiveStatuses
                                   /\ row[a].owner = who}
    IN  {a \in active : \A b \in active : row[b].createdAt <= row[a].createdAt}

-----------------------------------------------------------------------------
(* Helpers of the service                                                  *)

\* Mutation of Accessible: the conversation is not compared.
AccessibleToUser(c) ==
    /\ row[c.action].status # "absent"
    /\ row[c.action].owner.user = c.who.user

\* _assert_access: the row exists and belongs to this user's conversation.
Accessible(c) ==
    /\ row[c.action].status # "absent"
    /\ row[c.action].owner = c.who

\* Mutations of two of the tests below: each forgets the clock.
ConfirmableAnyTime(r, at) == r.status = "pending"
LeaseLapsedAnyTime(r, at) == r.status = "executing"

\* Judged with the time sampled on entry, which may be long past.
Overdue(r, at) == r.status = "pending" /\ r.expiresAt <= at
Confirmable(r, at) == r.status = "pending" /\ r.expiresAt > at
LeaseLapsed(r, at) == r.status = "executing" /\ r.executingAt <= at - Lease

Goto(w, phase) == call' = [call EXCEPT ![w].phase = phase]

\* The operation returns, or raises, or its transaction rolls back.
End(w) == call' = [call EXCEPT ![w] = Idle]

Ready(w, op, phase) ==
    /\ call[w].phase = phase
    /\ call[w].op = op

-----------------------------------------------------------------------------
(* Entering an operation: datetime.now() is sampled before the transaction *)

Enter(w, op, phase, a, p) ==
    /\ call[w] = Idle
    /\ call' = [call EXCEPT ![w] = [op |-> op, phase |-> phase, action |-> a,
                                    who |-> p, at |-> now]]
    /\ UNCHANGED <<now, row>>

\* Bound: uuid4 never runs out of identifiers, the model does.
IdentifierLeft ==
    Cardinality({v \in Workers : call[v].phase = "insert"})
        < Cardinality({a \in Actions : row[a].status = "absent"})

\* The action id comes from the client: it may name an action that does not
\* exist, or somebody else's.
Request(w) ==
    \E p \in Principals :
        \/ IdentifierLeft /\ Enter(w, "create", "insert", NoAction, p)
        \/ Enter(w, "reset", "select", NoAction, p)
        \/ \E op \in {"load", "claim", "cancel"}, a \in Actions :
              Enter(w, op, "read", a, p)

-----------------------------------------------------------------------------
(* create                                                                  *)

\* expires_at counts from the time sampled on entry, created_at is the
\* database's own time at the INSERT.
Insert(w) ==
    /\ Ready(w, "create", "insert")
    /\ \E a \in Actions :
          /\ row[a].status = "absent"
          /\ SetRow(a, [status      |-> "pending",
                        owner       |-> call[w].who,
                        createdAt   |-> now,
                        expiresAt   |-> call[w].at + TTL,
                        confirmedAt |-> NoTime,
                        executingAt |-> NoTime])
    /\ End(w)
    /\ UNCHANGED now

-----------------------------------------------------------------------------
(* claim_execution: the employee pressed "confirm"                         *)

ReadClaim(w) ==
    LET c == call[w]
        r == row[c.action]
    IN  /\ Ready(w, "claim", "read")
        /\ \/ Accessible(c) /\ Overdue(r, c.at) /\ Goto(w, "expire")
           \/ Accessible(c) /\ LeaseLapsed(r, c.at) /\ Goto(w, "reclaim")
           \/ Accessible(c) /\ Confirmable(r, c.at) /\ Goto(w, "confirm")
           \/ /\ ~ ( /\ Accessible(c)
                     /\ \/ Overdue(r, c.at)
                        \/ LeaseLapsed(r, c.at)
                        \/ Confirmable(r, c.at) )
              /\ End(w)
        /\ UNCHANGED <<now, row>>

\* Mutation of ConfirmRow: the second UPDATE is missing.
ConfirmRowHalf(w) ==
    LET c == call[w]
    IN  /\ Ready(w, "claim", "confirm")
        /\ Matches(c.action, c.who.user, {"pending"})
        /\ SetRow(c.action, [row[c.action] EXCEPT !.status = "confirmed",
                                                  !.confirmedAt = c.at])
        /\ Goto(w, "hold")
        /\ UNCHANGED now

\* Mutation of ConfirmRow: the UPDATE's result is not looked at.
ConfirmRowUnchecked(w) ==
    LET c == call[w]
    IN  /\ Ready(w, "claim", "confirm")
        /\ \/ /\ Matches(c.action, c.who.user, {"pending"})
              /\ SetRow(c.action,
                        [row[c.action] EXCEPT !.status = "executing",
                                              !.confirmedAt = c.at,
                                              !.executingAt = c.at])
           \/ ~Matches(c.action, c.who.user, {"pending"}) /\ UNCHANGED row
        /\ Goto(w, "hold")
        /\ UNCHANGED now

\* pending -> confirmed -> executing, two UPDATEs under one row lock.
ConfirmRow(w) ==
    LET c == call[w]
    IN  /\ Ready(w, "claim", "confirm")
        /\ \/ /\ Matches(c.action, c.who.user, {"pending"})
              /\ SetRow(c.action,
                        [row[c.action] EXCEPT !.status = "executing",
                                              !.confirmedAt = c.at,
                                              !.executingAt = c.at])
              /\ Goto(w, "hold")
           \/ /\ ~Matches(c.action, c.who.user, {"pending"})
              /\ UNCHANGED row
              /\ End(w)
        /\ UNCHANGED now

\* executing -> executing with a new lease.  The WHERE clause does not
\* compare executing_at with the value that was read.
ReclaimRow(w) ==
    LET c == call[w]
    IN  /\ Ready(w, "claim", "reclaim")
        /\ \/ /\ Matches(c.action, c.who.user, {"executing"})
              /\ SetRow(c.action, [row[c.action] EXCEPT !.executingAt = c.at])
              /\ Goto(w, "hold")
           \/ /\ ~Matches(c.action, c.who.user, {"executing"})
              /\ UNCHANGED row
              /\ End(w)
        /\ UNCHANGED now

-----------------------------------------------------------------------------
(* load_owned, alone and as the first transaction of cancel                *)

ReadOwned(w) ==
    LET c == call[w]
        r == row[c.action]
    IN  /\ c.phase = "read"
        /\ c.op \in {"load", "cancel"}
        /\ \/ Accessible(c) /\ Overdue(r, c.at) /\ Goto(w, "expire")
           \/ /\ Accessible(c) /\ ~Overdue(r, c.at)
              /\ \/ c.op = "cancel" /\ Goto(w, "cancel")
                 \/ c.op = "load" /\ End(w)
           \/ ~Accessible(c) /\ End(w)
        /\ UNCHANGED <<now, row>>

\* Whoever finds a pending row overdue marks it.  The result of the UPDATE is
\* ignored: ACTION_EXPIRED is raised even when the row is no longer pending.
ExpireRow(w) ==
    LET c == call[w]
    IN  /\ c.phase = "expire"
        /\ \/ /\ Matches(c.action, c.who.user, {"pending"})
              /\ SetRow(c.action, [row[c.action] EXCEPT !.status = "expired"])
           \/ /\ ~Matches(c.action, c.who.user, {"pending"})
              /\ UNCHANGED row
        /\ End(w)
        /\ UNCHANGED now

\* Mutation of CancelRow: an action that is executing can be cancelled.
CancelRowExecuting(w) ==
    LET c == call[w]
    IN  /\ Ready(w, "cancel", "cancel")
        /\ \/ /\ Matches(c.action, c.who.user, {"pending", "executing"})
              /\ SetRow(c.action, [row[c.action] EXCEPT !.status = "cancelled"])
           \/ /\ ~Matches(c.action, c.who.user, {"pending", "executing"})
              /\ UNCHANGED row
        /\ End(w)
        /\ UNCHANGED now

\* The second transaction of cancel: a row that is not pending any more makes
\* it raise ACTION_NOT_CANCELLABLE.  The expiry is not looked at again.
CancelRow(w) ==
    LET c == call[w]
    IN  /\ Ready(w, "cancel", "cancel")
        /\ \/ /\ Matches(c.action, c.who.user, {"pending"})
              /\ SetRow(c.action, [row[c.action] EXCEPT !.status = "cancelled"])
           \/ /\ ~Matches(c.action, c.who.user, {"pending"})
              /\ UNCHANGED row
        /\ End(w)
        /\ UNCHANGED now

-----------------------------------------------------------------------------
(* cancel_for_conversation: the conversation is reset                      *)

SelectActive(w) ==
    LET candidates == NewestActive(call[w].who)
    IN  /\ Ready(w, "reset", "select")
        /\ \/ \E a \in candidates :
                 \/ /\ row[a].status # "executing"
                    /\ call' = [call EXCEPT ![w].action = a,
                                            ![w].phase = "discard"]
                 \/ row[a].status = "executing" /\ End(w)
           \/ candidates = {} /\ End(w)
        /\ UNCHANGED <<now, row>>

DiscardRow(w) ==
    LET c == call[w]
    IN  /\ Ready(w, "reset", "discard")
        /\ \/ /\ Matches(c.action, c.who.user, {"pending", "confirmed"})
              /\ SetRow(c.action, [row[c.action] EXCEPT !.status = "cancelled"])
           \/ /\ ~Matches(c.action, c.who.user, {"pending", "confirmed"})
              /\ UNCHANGED row
        /\ End(w)
        /\ UNCHANGED now

-----------------------------------------------------------------------------
(* finish, by the worker that holds the execution                          *)

\* Mutation of FinishRow: whatever became of the row, the end is recorded.
FinishAnyRow(w, to) ==
    /\ call[w].phase = "hold"
    /\ SetRow(call[w].action, [row[call[w].action] EXCEPT !.status = to])
    /\ End(w)
    /\ UNCHANGED now

FinishRow(w, to) ==
    LET c == call[w]
    IN  /\ c.phase = "hold"
        /\ \/ /\ Matches(c.action, c.who.user, {"executing"})
              /\ SetRow(c.action, [row[c.action] EXCEPT !.status = to])
           \/ /\ ~Matches(c.action, c.who.user, {"executing"})
              /\ UNCHANGED row
        /\ End(w)
        /\ UNCHANGED now

-----------------------------------------------------------------------------

\* The handler is cancelled (the client hung up), raises, or dies with its
\* process.  A transaction that was open rolls back; the row stays as it is.
Crash(w) ==
    /\ call[w] # Idle
    /\ End(w)
    /\ UNCHANGED <<now, row>>

Tick ==
    /\ now < MaxTime
    /\ now' = now + 1
    /\ UNCHANGED <<row, call>>

\* What the handler of w does next, between a request and the moment it holds
\* an execution.
ServiceStep(w) ==
    \/ Insert(w)
    \/ ReadClaim(w)
    \/ ConfirmRow(w)
    \/ ReclaimRow(w)
    \/ ReadOwned(w)
    \/ ExpireRow(w)
    \/ CancelRow(w)
    \/ SelectActive(w)
    \/ DiscardRow(w)

Next ==
    \/ Tick
    \/ \E w \in Workers :
          \/ Request(w)
          \/ ServiceStep(w)
          \/ \E to \in {"executed", "failed"} : FinishRow(w, to)
          \/ Crash(w)

Spec == Init /\ [][Next]_vars

-----------------------------------------------------------------------------
(* Properties                                                              *)

Confirmed(a) ==
    row[a].status \in {"executing", "executed", "failed"}

\* An action that was ever handed to an executor had been confirmed, by a
\* request that arrived before the action expired; however late that
\* request's UPDATE ran, and whoever reclaimed the lease afterwards
\* (claim_execution).
ConfirmedBeforeExpiry ==
    \A a \in Actions :
        Confirmed(a) => /\ row[a].confirmedAt # NoTime
                        /\ row[a].confirmedAt < row[a].expiresAt

\* An action that ended cancelled or expired, or is still pending, was never
\* confirmed: cancel, reset and lazy expiry race the confirmation and lose to
\* it (the conditional UPDATEs of cancel, load_owned, claim_execution and
\* cancel_for_conversation).
WithdrawnNeverConfirmed ==
    \A a \in Actions :
        row[a].status \in {"pending", "cancelled", "expired"}
            => row[a].confirmedAt = NoTime

\* An action is marked expired only once its time is up, and only by a call
\* that found it so (load_owned, claim_execution).
ExpiredOnlyWhenDue ==
    \A a \in Actions : row[a].status = "expired" => row[a].expiresAt <= now

Holds(w, a) == call[w].phase = "hold" /\ call[w].action = a

\* For the length of the first lease one worker at most executes an action,
\* however many confirmations arrive at once: of two workers that hold it, at
\* most one claimed it before confirmed_at + lease (claim_execution).
FirstLeaseExclusive ==
    \A a \in Actions : \A v, w \in Workers :
        /\ v # w
        /\ Holds(v, a) /\ Holds(w, a)
        => \/ call[v].at >= row[a].confirmedAt + Lease
           \/ call[w].at >= row[a].confirmedAt + Lease

\* A row that has ended never changes again, whatever calls were under way
\* when it ended (PendingActionRepository.transition's from_statuses).
TerminalIsFinal ==
    [][\A a \in Actions : row[a].status \in Terminal => row'[a] = row[a]]_vars

\* An existing row changes only in a step of a worker that acts for the
\* row's own user and conversation, although transition's WHERE clause
\* compares the user only (_assert_access, get_active_for_conversation).
OnlyOwnerChanges ==
    [][\A a \in Actions :
          row[a].status # "absent" /\ row'[a] # row[a]
              => \E w \in Workers :
                    call[w] # Idle /\ call'[w] # call[w]
                                   /\ call[w].who = row[a].owner]_vars
=============================================================================
