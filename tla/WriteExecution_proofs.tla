------------------------ MODULE WriteExecution_proofs ------------------------
(***************************************************************************)
(* Proofs about PendingActions and WriteExecution, for any number of       *)
(* actions, workers, users and conversations, any TTL and lease, any       *)
(* clock, and any interleaving of the calls with Odoo's late answers.      *)
(*                                                                         *)
(* The invariants of the table speak of rows only, and none of them is     *)
(* inductive: what keeps a row right is what each worker learnt from it    *)
(* before its UPDATE.  CallInv says what that is, phase by phase, and      *)
(* RowInv adds to the row invariants what the lease argument needs.        *)
(*                                                                         *)
(* Every step of WriteExecution is a step of PendingActions, so what is    *)
(* proved of the table holds there.  ExecIInv adds what a worker knows of  *)
(* Odoo at each stage of execute_write_tool_node, and what a request that  *)
(* nobody waits for any more still guarantees.                             *)
(***************************************************************************)
EXTENDS WriteExecution, FiniteSetTheorems, TLAPS

-----------------------------------------------------------------------------
(* PendingActions: the inductive invariant                                 *)

Exists(a) == row[a].status # "absent"

\* What worker w may still rely on when its UPDATE runs.
CallInv(w) ==
    LET c == call[w]
        r == row[c.action]
    IN  /\ c.phase # "idle" => c.at <= now
        /\ c.phase \in {"expire", "confirm", "reclaim", "cancel", "discard",
                        "hold"}
              => Exists(c.action) /\ r.owner = c.who
        /\ c.phase = "expire" => r.expiresAt <= c.at
        /\ c.phase = "confirm" => c.at < r.expiresAt
        /\ c.phase = "reclaim" => /\ Confirmed(c.action)
                                  /\ c.at >= r.confirmedAt + Lease
        /\ c.phase = "hold" => Confirmed(c.action)

RowInv(a) ==
    /\ Confirmed(a) => /\ row[a].confirmedAt \in Nat
                       /\ row[a].confirmedAt < row[a].expiresAt
                       /\ row[a].executingAt >= row[a].confirmedAt
    /\ row[a].status \in {"pending", "cancelled", "expired"}
          => row[a].confirmedAt = NoTime
    /\ row[a].status = "expired" => row[a].expiresAt <= now

IInv ==
    /\ TypeOK
    /\ \A w \in Workers : CallInv(w)
    /\ \A a \in Actions : RowInv(a)
    /\ FirstLeaseExclusive

-----------------------------------------------------------------------------

LEMMA InitIInv == Init => IInv
  BY DEF Init, IInv, TypeOK, CallInv, RowInv, FirstLeaseExclusive, Exists,
         Confirmed, Holds, Idle, Absent

(* Type correctness                                                        *)

\* The calls a step leaves behind: the worker is idle, or its call is still a
\* well-formed one.
LEMMA EndTypes ==
    ASSUME TypeOK, NEW w \in Workers, End(w)
    PROVE  /\ call' \in [Workers -> {Idle} \cup Call]
           /\ \A v \in Workers :
                 call'[v].phase \notin {"idle", "insert", "select"}
                    => call'[v].action \in Actions
  BY DEF TypeOK, End, Idle

LEMMA GotoTypes ==
    ASSUME TypeOK, NEW w \in Workers, NEW phase, Goto(w, phase),
           call[w].phase \notin {"idle", "insert", "select"},
           phase \in {"expire", "confirm", "reclaim", "cancel", "hold"}
    PROVE  /\ call' \in [Workers -> {Idle} \cup Call]
           /\ \A v \in Workers :
                 call'[v].phase \notin {"idle", "insert", "select"}
                    => call'[v].action \in Actions
  <1>1. call[w] \in Call
    BY DEF TypeOK, Idle
  <1>2. [call[w] EXCEPT !.phase = phase] \in Call
    BY <1>1 DEF Call
  <1>3. call[w].action \in Actions
    BY DEF TypeOK
  <1> QED
    BY <1>1, <1>2, <1>3 DEF TypeOK, Goto, Call

\* A row that is replaced by a row, none of them "confirmed".
LEMMA RowTypes ==
    ASSUME TypeOK, NEW a \in Actions, NEW r \in Row, SetRow(a, r),
           r.status # "confirmed"
    PROVE  /\ row' \in [Actions -> {Absent} \cup Row]
           /\ \A b \in Actions : row'[b].status # "confirmed"
  BY DEF TypeOK, SetRow

LEMMA StatusTypes ==
    ASSUME TypeOK, NEW a \in Actions, NEW s \in Terminal, row[a] # Absent
    PROVE  /\ [row[a] EXCEPT !.status = s] \in Row
           /\ [row[a] EXCEPT !.status = s].status # "confirmed"
  <1>1. row[a] \in Row
    BY DEF TypeOK
  <1> QED
    BY <1>1 DEF Row, Terminal

\* Expiring, cancelling, discarding and finishing all end the call with one
\* conditional UPDATE that moves the row to a terminal status.
LastWrite(w, from, s) ==
    LET c == call[w]
    IN  /\ c.phase \in {"expire", "cancel", "discard", "hold"}
        /\ \/ /\ Matches(c.action, c.who.user, from)
              /\ SetRow(c.action, [row[c.action] EXCEPT !.status = s])
           \/ /\ ~Matches(c.action, c.who.user, from)
              /\ UNCHANGED row
        /\ End(w)
        /\ UNCHANGED now

LEMMA LastWriteTypes ==
    ASSUME TypeOK, NEW w \in Workers, NEW s \in Terminal,
           NEW from \in SUBSET ActiveStatuses, LastWrite(w, from, s)
    PROVE  TypeOK'
  <1> DEFINE a == call[w].action
             r == [row[a] EXCEPT !.status = s]
  <1>1. a \in Actions
    BY DEF LastWrite, TypeOK
  <1>2. CASE Matches(a, call[w].who.user, from)
    <2>1. row[a] # Absent
      BY <1>2 DEF Matches, Absent, ActiveStatuses
    <2>2. r \in Row /\ r.status # "confirmed"
      BY <1>1, <2>1, StatusTypes
    <2> HIDE DEF r
    <2>3. SetRow(a, r) /\ End(w) /\ now' = now
      BY <1>2 DEF LastWrite, r
    <2> QED
      BY <1>1, <2>2, <2>3, RowTypes, EndTypes DEF TypeOK
  <1>3. CASE ~Matches(a, call[w].who.user, from)
    BY <1>3, EndTypes DEF LastWrite, TypeOK
  <1> QED
    BY <1>2, <1>3

LEMMA Typing == TypeOK /\ [Next]_vars => TypeOK'
  <1> SUFFICES ASSUME TypeOK, [Next]_vars PROVE TypeOK'
    OBVIOUS
  <1>1. CASE Tick
    BY <1>1 DEF Tick, TypeOK
  <1>2. ASSUME NEW w \in Workers, Request(w) PROVE TypeOK'
    <2> SUFFICES ASSUME NEW p \in Principals, NEW op, NEW phase, NEW a,
                        Enter(w, op, phase, a, p),
                        \/ op = "create" /\ phase = "insert" /\ a = NoAction
                        \/ op = "reset" /\ phase = "select" /\ a = NoAction
                        \/ /\ op \in {"load", "claim", "cancel"}
                           /\ phase = "read"
                           /\ a \in Actions
                 PROVE  TypeOK'
      BY <1>2 DEF Request
    <2> DEFINE c == [op |-> op, phase |-> phase, action |-> a,
                     who |-> p, at |-> now]
    <2>1. c \in Call
      BY DEF Call, TypeOK
    <2>2. call' = [call EXCEPT ![w] = c] /\ row' = row /\ now' = now
      BY DEF Enter
    <2> QED
      BY <2>1, <2>2 DEF TypeOK
  <1>3. ASSUME NEW w \in Workers, Insert(w) PROVE TypeOK'
    <2> PICK a \in Actions :
            /\ row[a].status = "absent"
            /\ SetRow(a, [status      |-> "pending",
                          owner       |-> call[w].who,
                          createdAt   |-> now,
                          expiresAt   |-> call[w].at + TTL,
                          confirmedAt |-> NoTime,
                          executingAt |-> NoTime])
      BY <1>3 DEF Insert
    <2>1. call[w] \in Call
      BY <1>3 DEF Insert, Ready, TypeOK, Idle
    <2>2. [status |-> "pending", owner |-> call[w].who, createdAt |-> now,
           expiresAt |-> call[w].at + TTL, confirmedAt |-> NoTime,
           executingAt |-> NoTime] \in Row
      BY <2>1, DurationsAssumption DEF TypeOK, Call, Row, ActiveStatuses
    <2> QED
      BY <1>3, <2>2, RowTypes, EndTypes DEF Insert, TypeOK
  <1>4. ASSUME NEW w \in Workers, ReadClaim(w) PROVE TypeOK'
    BY <1>4, EndTypes, GotoTypes DEF ReadClaim, Ready, TypeOK
  <1>5. ASSUME NEW w \in Workers, ConfirmRow(w) PROVE TypeOK'
    <2> DEFINE a == call[w].action
               r == [row[a] EXCEPT !.status = "executing",
                                   !.confirmedAt = call[w].at,
                                   !.executingAt = call[w].at]
    <2>1. call[w] \in Call /\ a \in Actions
      BY <1>5 DEF ConfirmRow, Ready, TypeOK, Idle
    <2>2. CASE Matches(a, call[w].who.user, {"pending"})
      <3>1. row[a] \in Row
        BY <2>1, <2>2 DEF Matches, TypeOK, Absent
      <3>2. r \in Row /\ r.status # "confirmed"
        BY <2>1, <3>1 DEF Row, Call, ActiveStatuses
      <3> HIDE DEF r
      <3>3. SetRow(a, r) /\ Goto(w, "hold") /\ now' = now
        BY <1>5, <2>2 DEF ConfirmRow, r
      <3> QED
        BY <1>5, <2>1, <3>2, <3>3, RowTypes, GotoTypes
           DEF ConfirmRow, Ready, TypeOK
    <2>3. CASE ~Matches(a, call[w].who.user, {"pending"})
      BY <1>5, <2>3, EndTypes DEF ConfirmRow, TypeOK
    <2> QED
      BY <2>2, <2>3
  <1>6. ASSUME NEW w \in Workers, ReclaimRow(w) PROVE TypeOK'
    <2> DEFINE a == call[w].action
               r == [row[a] EXCEPT !.executingAt = call[w].at]
    <2>1. call[w] \in Call /\ a \in Actions
      BY <1>6 DEF ReclaimRow, Ready, TypeOK, Idle
    <2>2. CASE Matches(a, call[w].who.user, {"executing"})
      <3>1. row[a] \in Row /\ row[a].status # "confirmed"
        BY <2>1, <2>2 DEF Matches, TypeOK, Absent
      <3>2. r \in Row /\ r.status # "confirmed"
        BY <2>1, <3>1 DEF Row, Call
      <3> HIDE DEF r
      <3>3. SetRow(a, r) /\ Goto(w, "hold") /\ now' = now
        BY <1>6, <2>2 DEF ReclaimRow, r
      <3> QED
        BY <1>6, <2>1, <3>2, <3>3, RowTypes, GotoTypes
           DEF ReclaimRow, Ready, TypeOK
    <2>3. CASE ~Matches(a, call[w].who.user, {"executing"})
      BY <1>6, <2>3, EndTypes DEF ReclaimRow, TypeOK
    <2> QED
      BY <2>2, <2>3
  <1>7. ASSUME NEW w \in Workers, ReadOwned(w) PROVE TypeOK'
    BY <1>7, EndTypes, GotoTypes DEF ReadOwned, TypeOK
  <1>8. ASSUME NEW w \in Workers, SelectActive(w) PROVE TypeOK'
    <2>1. call[w] \in Call
      BY <1>8 DEF SelectActive, Ready, TypeOK, Idle
    <2>2. ASSUME NEW a \in Actions,
                 call' = [call EXCEPT ![w].action = a, ![w].phase = "discard"]
          PROVE  TypeOK'
      <3>1. [call[w] EXCEPT !.action = a, !.phase = "discard"] \in Call
        BY <2>1 DEF Call
      <3> QED
        BY <1>8, <2>1, <2>2, <3>1 DEF SelectActive, TypeOK, Call
    <2>3. CASE End(w)
      BY <1>8, <2>3, EndTypes DEF SelectActive, TypeOK
    <2> QED
      BY <1>8, <2>2, <2>3 DEF SelectActive, NewestActive
  <1>9. ASSUME NEW w \in Workers, ExpireRow(w) PROVE TypeOK'
    <2> LastWrite(w, {"pending"}, "expired")
      BY <1>9 DEF ExpireRow, LastWrite
    <2> QED
      BY LastWriteTypes DEF Terminal, ActiveStatuses
  <1>10. ASSUME NEW w \in Workers, CancelRow(w) PROVE TypeOK'
    <2> LastWrite(w, {"pending"}, "cancelled")
      BY <1>10 DEF CancelRow, Ready, LastWrite
    <2> QED
      BY LastWriteTypes DEF Terminal, ActiveStatuses
  <1>11. ASSUME NEW w \in Workers, DiscardRow(w) PROVE TypeOK'
    <2> LastWrite(w, {"pending", "confirmed"}, "cancelled")
      BY <1>11 DEF DiscardRow, Ready, LastWrite
    <2> QED
      BY LastWriteTypes DEF Terminal, ActiveStatuses
  <1>12. ASSUME NEW w \in Workers, NEW to \in {"executed", "failed"},
                FinishRow(w, to)
         PROVE  TypeOK'
    <2> LastWrite(w, {"executing"}, to)
      BY <1>12 DEF FinishRow, LastWrite
    <2> QED
      BY LastWriteTypes DEF Terminal, ActiveStatuses
  <1>13. ASSUME NEW w \in Workers, Crash(w) PROVE TypeOK'
    BY <1>13, EndTypes DEF Crash, TypeOK
  <1>14. CASE UNCHANGED vars
    BY <1>14 DEF vars, TypeOK
  <1> QED
    BY <1>1, <1>2, <1>3, <1>4, <1>5, <1>6, <1>7, <1>8, <1>9, <1>10, <1>11,
       <1>12, <1>13, <1>14 DEF Next, ServiceStep

-----------------------------------------------------------------------------
(* How a row evolves                                                       *)

\* What no step takes back: a row is never deleted nor handed to somebody
\* else, its deadline never moves, and a confirmation stays on record.
Evolution(a) ==
    /\ Exists(a) => /\ Exists(a)'
                    /\ row'[a].owner = row[a].owner
                    /\ row'[a].expiresAt = row[a].expiresAt
    /\ Confirmed(a) => /\ Confirmed(a)'
                       /\ row'[a].confirmedAt = row[a].confirmedAt

LEMMA SetRowEvolves ==
    ASSUME TypeOK, NEW a \in Actions, NEW r, SetRow(a, r),
           Exists(a) => /\ r.status # "absent"
                        /\ r.owner = row[a].owner
                        /\ r.expiresAt = row[a].expiresAt,
           Confirmed(a) => /\ r.status \in {"executing", "executed", "failed"}
                           /\ r.confirmedAt = row[a].confirmedAt
    PROVE  \A b \in Actions : Evolution(b)
  <1>1. row'[a] = r /\ \A b \in Actions : b # a => row'[b] = row[b]
    BY DEF SetRow, TypeOK
  <1> QED
    BY <1>1 DEF Evolution, Exists, Confirmed

LEMMA LastWriteEvolves ==
    ASSUME TypeOK, NEW w \in Workers, NEW s \in Terminal,
           NEW from \in SUBSET ActiveStatuses, LastWrite(w, from, s),
           \/ "executing" \notin from
           \/ s \in {"executed", "failed"}
    PROVE  \A b \in Actions : Evolution(b)
  <1> DEFINE a == call[w].action
             r == [row[a] EXCEPT !.status = s]
  <1>1. a \in Actions
    BY DEF LastWrite, TypeOK
  <1>2. CASE Matches(a, call[w].who.user, from)
    <2>1. row[a] \in Row
      BY <1>1, <1>2 DEF Matches, Absent, ActiveStatuses, TypeOK
    <2>2. /\ r.status = s
          /\ r.owner = row[a].owner
          /\ r.expiresAt = row[a].expiresAt
          /\ r.confirmedAt = row[a].confirmedAt
      BY <2>1 DEF Row
    <2>3. SetRow(a, r)
      BY <1>2 DEF LastWrite
    <2> HIDE DEF r
    <2>4. Confirmed(a) => s \in {"executed", "failed"}
      BY <1>2 DEF Matches, Confirmed, ActiveStatuses
    <2> QED
      BY <1>1, <2>2, <2>3, <2>4, SetRowEvolves DEF Terminal
  <1>3. CASE ~Matches(a, call[w].who.user, from)
    BY <1>3 DEF LastWrite, Evolution, Exists, Confirmed
  <1> QED
    BY <1>2, <1>3

LEMMA Evolves ==
    ASSUME TypeOK, [Next]_vars
    PROVE  /\ now <= now'
           /\ \A a \in Actions : Evolution(a)
  <1> DEFINE Goal == \A a \in Actions : Evolution(a)
  <1>1. now <= now'
    <2>1. CASE Tick
      BY <2>1 DEF Tick, TypeOK
    <2>2. CASE UNCHANGED now
      BY <2>2 DEF TypeOK
    <2>3. ASSUME NEW w \in Workers, ServiceStep(w) PROVE UNCHANGED now
      BY <2>3 DEF ServiceStep, Insert, ReadClaim, ConfirmRow, ReclaimRow,
                  ReadOwned, ExpireRow, CancelRow, SelectActive, DiscardRow
    <2>4. ASSUME NEW w \in Workers,
                 \/ Request(w)
                 \/ \E to \in {"executed", "failed"} : FinishRow(w, to)
                 \/ Crash(w)
          PROVE  UNCHANGED now
      BY <2>4 DEF Request, Enter, FinishRow, Crash
    <2> QED
      BY <2>1, <2>2, <2>3, <2>4 DEF Next, vars
  <1>2. ASSUME UNCHANGED row PROVE Goal
    BY <1>2 DEF Evolution, Exists, Confirmed
  <1>3. ASSUME NEW w \in Workers, Insert(w) PROVE Goal
    <2> PICK a \in Actions, r \in {[status      |-> "pending",
                                    owner       |-> call[w].who,
                                    createdAt   |-> now,
                                    expiresAt   |-> call[w].at + TTL,
                                    confirmedAt |-> NoTime,
                                    executingAt |-> NoTime]} :
            row[a].status = "absent" /\ SetRow(a, r)
      BY <1>3 DEF Insert
    <2> QED
      BY SetRowEvolves DEF Exists, Confirmed
  <1>4. ASSUME NEW w \in Workers, ConfirmRow(w) PROVE Goal
    <2> DEFINE a == call[w].action
               r == [row[a] EXCEPT !.status = "executing",
                                   !.confirmedAt = call[w].at,
                                   !.executingAt = call[w].at]
    <2>1. a \in Actions
      BY <1>4 DEF ConfirmRow, Ready, TypeOK
    <2>2. CASE Matches(a, call[w].who.user, {"pending"})
      <3>1. row[a] \in Row /\ ~Confirmed(a)
        BY <2>1, <2>2 DEF Matches, TypeOK, Absent, Confirmed
      <3>2. /\ r.status = "executing"
            /\ r.owner = row[a].owner
            /\ r.expiresAt = row[a].expiresAt
        BY <3>1 DEF Row
      <3>3. SetRow(a, r)
        BY <1>4, <2>2 DEF ConfirmRow
      <3> HIDE DEF r
      <3> QED
        BY <2>1, <3>1, <3>2, <3>3, SetRowEvolves
    <2>3. CASE ~Matches(a, call[w].who.user, {"pending"})
      BY <1>4, <2>3 DEF ConfirmRow, Evolution, Exists, Confirmed
    <2> QED
      BY <2>2, <2>3
  <1>5. ASSUME NEW w \in Workers, ReclaimRow(w) PROVE Goal
    <2> DEFINE a == call[w].action
               r == [row[a] EXCEPT !.executingAt = call[w].at]
    <2>1. a \in Actions
      BY <1>5 DEF ReclaimRow, Ready, TypeOK
    <2>2. CASE Matches(a, call[w].who.user, {"executing"})
      <3>1. row[a] \in Row /\ row[a].status = "executing"
        BY <2>1, <2>2 DEF Matches, TypeOK, Absent
      <3>2. /\ r.status = "executing"
            /\ r.owner = row[a].owner
            /\ r.expiresAt = row[a].expiresAt
            /\ r.confirmedAt = row[a].confirmedAt
        BY <3>1 DEF Row
      <3>3. SetRow(a, r)
        BY <1>5, <2>2 DEF ReclaimRow
      <3> HIDE DEF r
      <3> QED
        BY <2>1, <3>2, <3>3, SetRowEvolves
    <2>3. CASE ~Matches(a, call[w].who.user, {"executing"})
      BY <1>5, <2>3 DEF ReclaimRow, Evolution, Exists, Confirmed
    <2> QED
      BY <2>2, <2>3
  <1>6. ASSUME NEW w \in Workers, ExpireRow(w) PROVE Goal
    <2> LastWrite(w, {"pending"}, "expired")
      BY <1>6 DEF ExpireRow, LastWrite
    <2> QED
      BY LastWriteEvolves DEF Terminal, ActiveStatuses
  <1>7. ASSUME NEW w \in Workers, CancelRow(w) PROVE Goal
    <2> LastWrite(w, {"pending"}, "cancelled")
      BY <1>7 DEF CancelRow, Ready, LastWrite
    <2> QED
      BY LastWriteEvolves DEF Terminal, ActiveStatuses
  <1>8. ASSUME NEW w \in Workers, DiscardRow(w) PROVE Goal
    <2> LastWrite(w, {"pending", "confirmed"}, "cancelled")
      BY <1>8 DEF DiscardRow, Ready, LastWrite
    <2> QED
      BY LastWriteEvolves DEF Terminal, ActiveStatuses
  <1>9. ASSUME NEW w \in Workers, NEW to \in {"executed", "failed"},
               FinishRow(w, to)
        PROVE  Goal
    <2> LastWrite(w, {"executing"}, to)
      BY <1>9 DEF FinishRow, LastWrite
    <2> QED
      BY LastWriteEvolves DEF Terminal, ActiveStatuses
  <1> QED
    BY <1>1, <1>2, <1>3, <1>4, <1>5, <1>6, <1>7, <1>8, <1>9
       DEF Next, vars, Tick, Request, Enter, ServiceStep, ReadClaim,
           ReadOwned, SelectActive, Crash

-----------------------------------------------------------------------------
(* Three facts that leave, of every step, only what its worker did         *)

LEMMA BystandersKeep ==
    ASSUME TypeOK, NEW w \in Workers, CallInv(w), call'[w] = call[w],
           now <= now', now' \in Nat, \A a \in Actions : Evolution(a)
    PROVE  CallInv(w)'
  <1>1. CASE call[w].phase \in {"idle", "insert", "select"}
    <2>1. call[w].phase # "idle" => call[w].at \in Nat
      BY DEF TypeOK, Idle, Call
    <2> QED
      BY <1>1, <2>1 DEF CallInv, TypeOK
  <1>2. CASE call[w].phase \notin {"idle", "insert", "select"}
    <2>1. call[w].action \in Actions /\ call[w].at \in Nat
      BY <1>2 DEF TypeOK, Idle, Call
    <2>2. Evolution(call[w].action)
      BY <2>1
    <2> QED
      BY <1>2, <2>1, <2>2 DEF CallInv, Evolution, TypeOK, Exists, Confirmed
  <1> QED
    BY <1>1, <1>2

LEMMA UntouchedRowKeeps ==
    ASSUME TypeOK, NEW a \in Actions, RowInv(a), row'[a] = row[a],
           now <= now', now' \in Nat
    PROVE  RowInv(a)'
  <1>1. row[a].status = "expired" => row[a].expiresAt \in Nat
    BY DEF TypeOK, Absent, Row
  <1> QED
    BY <1>1 DEF RowInv, Confirmed, TypeOK

LEMMA NoNewHolder ==
    ASSUME IInv, \A a \in Actions : Evolution(a),
           \A w \in Workers : call'[w].phase = "hold" => call'[w] = call[w]
    PROVE  FirstLeaseExclusive'
  <1> SUFFICES ASSUME NEW a \in Actions, NEW v \in Workers, NEW w \in Workers,
                      v # w, Holds(v, a)', Holds(w, a)'
               PROVE  (\/ call[v].at >= row[a].confirmedAt + Lease
                       \/ call[w].at >= row[a].confirmedAt + Lease)'
    BY DEF FirstLeaseExclusive
  <1>1. /\ call'[v] = call[v] /\ call'[w] = call[w]
        /\ Holds(v, a) /\ Holds(w, a)
    BY DEF Holds
  <1>2. row'[a].confirmedAt = row[a].confirmedAt
    BY <1>1 DEF IInv, CallInv, Holds, Evolution
  <1> QED
    BY <1>1, <1>2 DEF IInv, FirstLeaseExclusive

-----------------------------------------------------------------------------
(* The inductive step                                                      *)

\* A step that touches no row and takes no execution: all that is left to show
\* is what its worker has learnt.
LEMMA ReadingStep ==
    ASSUME IInv, TypeOK', UNCHANGED <<now, row>>, NEW w \in Workers,
           \A v \in Workers \ {w} : call'[v] = call[v],
           call'[w].phase # "hold",
           CallInv(w)'
    PROVE  IInv'
  <1>1. now <= now' /\ now' \in Nat /\ \A a \in Actions : Evolution(a)
    BY DEF IInv, TypeOK, Evolution, Exists, Confirmed
  <1>2. \A v \in Workers : CallInv(v)'
    BY <1>1, BystandersKeep DEF IInv
  <1>3. \A a \in Actions : RowInv(a)'
    BY <1>1, UntouchedRowKeeps DEF IInv
  <1>4. FirstLeaseExclusive'
    BY <1>1, NoNewHolder
  <1> QED
    BY <1>2, <1>3, <1>4 DEF IInv

LEMMA EndingStep ==
    ASSUME IInv, TypeOK', UNCHANGED <<now, row>>, NEW w \in Workers, End(w)
    PROVE  IInv'
  <1>1. /\ call'[w] = Idle
        /\ \A v \in Workers \ {w} : call'[v] = call[v]
    BY DEF End, IInv, TypeOK
  <1>2. CallInv(w)' /\ call'[w].phase # "hold"
    BY <1>1 DEF CallInv, Idle
  <1> QED
    BY <1>1, <1>2, ReadingStep

LEMMA LastWriteKeeps ==
    ASSUME IInv, TypeOK', NEW w \in Workers, NEW s \in Terminal,
           NEW from \in SUBSET ActiveStatuses, LastWrite(w, from, s),
           \A a \in Actions : Evolution(a),
           \/ from = {"executing"} /\ s \in {"executed", "failed"}
           \/ from \subseteq {"pending", "confirmed"} /\ s = "cancelled"
           \/ /\ from = {"pending"} /\ s = "expired"
              /\ call[w].phase = "expire"
    PROVE  IInv'
  <1>1. call[w].action \in Actions /\ End(w) /\ UNCHANGED now
    BY DEF LastWrite, IInv, TypeOK
  <1> PICK a \in Actions : a = call[w].action
    BY <1>1
  <1> DEFINE r == [row[a] EXCEPT !.status = s]
  <1>2. CASE Matches(a, call[w].who.user, from)
    <2>1. row[a] \in Row /\ row[a].status # "confirmed"
      BY <1>1, <1>2 DEF Matches, Absent, ActiveStatuses, IInv, TypeOK
    <2>2. /\ r.status = s
          /\ r.expiresAt = row[a].expiresAt
          /\ r.confirmedAt = row[a].confirmedAt
          /\ r.executingAt = row[a].executingAt
      BY <2>1 DEF Row
    <2>3. SetRow(a, r)
      BY <1>2 DEF LastWrite
    <2> HIDE DEF r
    <2>4. row'[a] = r /\ \A b \in Actions : b # a => row'[b] = row[b]
      BY <1>1, <2>3 DEF SetRow, IInv, TypeOK
    <2>5. call'[w] = Idle /\ \A v \in Workers \ {w} : call'[v] = call[v]
      BY <1>1 DEF End, IInv, TypeOK
    <2>6. now <= now' /\ now' \in Nat
      BY <1>1 DEF IInv, TypeOK
    <2>7. RowInv(a)'
      <3>1. s = "expired" => row[a].expiresAt <= now
        <4>1. call[w] \in Call /\ row[a].expiresAt \in Nat /\ now \in Nat
          BY <2>1 DEF LastWrite, IInv, TypeOK, Idle, Row
        <4>2. call[w].at \in Nat
          BY <4>1 DEF Call
        <4> QED
          BY <4>1, <4>2 DEF IInv, CallInv
      <3>2. RowInv(a) /\ (Confirmed(a) <=> row[a].status = "executing")
        BY <1>1, <1>2, <2>1
           DEF IInv, Matches, Confirmed, ActiveStatuses, Terminal
      <3>3. row[a].status \in from
        BY <1>2 DEF Matches
      <3>4. CASE from = {"executing"} /\ s \in {"executed", "failed"}
        BY <2>2, <2>4, <3>2, <3>3, <3>4 DEF RowInv, Confirmed
      <3>5. CASE from # {"executing"}
        <4>1. row[a].status = "pending" /\ s \in {"cancelled", "expired"}
          BY <2>1, <3>3, <3>5
        <4> QED
          BY <1>1, <2>2, <2>4, <3>1, <3>2, <4>1 DEF RowInv, Confirmed
      <3> QED
        BY <3>4, <3>5
    <2>8. \A b \in Actions : RowInv(b)'
      BY <2>4, <2>6, <2>7, UntouchedRowKeeps DEF IInv
    <2>9. CallInv(w)'
      BY <2>5 DEF CallInv, Idle
    <2>10. \A v \in Workers : CallInv(v)'
      BY <2>5, <2>6, <2>9, BystandersKeep DEF IInv
    <2>11. FirstLeaseExclusive'
      BY <2>5, NoNewHolder DEF Idle
    <2> QED
      BY <2>8, <2>10, <2>11 DEF IInv
  <1>3. CASE ~Matches(a, call[w].who.user, from)
    BY <1>1, <1>3, EndingStep DEF LastWrite
  <1> QED
    BY <1>2, <1>3

\* A worker that takes the execution: what it must know of the row it wrote,
\* and why no other holder is within the first lease with it.
LEMMA TakingStep ==
    ASSUME IInv, TypeOK', UNCHANGED now, NEW w \in Workers, NEW a \in Actions,
           NEW r \in Row,
           a = call[w].action, Goto(w, "hold"), SetRow(a, r),
           call[w].phase \in {"confirm", "reclaim"},
           \A b \in Actions : Evolution(b),
           r.status = "executing",
           RowInv(a)',
           \/ ~Confirmed(a)
           \/ Confirmed(a) /\ call[w].at >= row[a].confirmedAt + Lease
    PROVE  IInv'
  <1>1. call[w] \in Call
    BY DEF IInv, TypeOK, Idle
  <1>2. /\ call'[w].phase = "hold"
        /\ call'[w].action = a
        /\ call'[w].who = call[w].who
        /\ call'[w].at = call[w].at
        /\ \A v \in Workers \ {w} : call'[v] = call[v]
    BY <1>1 DEF Goto, IInv, TypeOK, Call
  <1>3. row'[a] = r /\ \A b \in Actions : b # a => row'[b] = row[b]
    BY DEF SetRow, IInv, TypeOK
  <1>4. now <= now' /\ now' \in Nat
    BY DEF IInv, TypeOK
  <1>5. CallInv(w)'
    <2>1. /\ call[w].at <= now
          /\ Exists(a) /\ row[a].owner = call[w].who
      BY DEF IInv, CallInv
    <2>2. Evolution(a)
      OBVIOUS
    <2> QED
      BY <1>2, <1>3, <1>4, <2>1, <2>2
         DEF CallInv, Evolution, Exists, Confirmed
  <1>6. \A v \in Workers : CallInv(v)'
    BY <1>2, <1>4, <1>5, BystandersKeep DEF IInv
  <1>7. \A b \in Actions : RowInv(b)'
    BY <1>3, <1>4, UntouchedRowKeeps DEF IInv
  <1>8. FirstLeaseExclusive'
    <2> SUFFICES ASSUME NEW b \in Actions, NEW u \in Workers, NEW v \in Workers,
                        u # v, Holds(u, b)', Holds(v, b)'
                 PROVE  (\/ call[u].at >= row[b].confirmedAt + Lease
                         \/ call[v].at >= row[b].confirmedAt + Lease)'
      BY DEF FirstLeaseExclusive
    <2>1. CASE u # w /\ v # w
      <3>1. /\ call'[u] = call[u] /\ call'[v] = call[v]
            /\ Holds(u, b) /\ Holds(v, b)
        BY <1>2, <2>1 DEF Holds
      <3>2. row'[b].confirmedAt = row[b].confirmedAt
        BY <3>1 DEF IInv, CallInv, Holds, Evolution
      <3> QED
        BY <3>1, <3>2 DEF IInv, FirstLeaseExclusive
    <2>2. ASSUME NEW x \in Workers, x # w, Holds(x, a)'
          PROVE  call'[w].at >= row'[a].confirmedAt + Lease
      <3>1. Holds(x, a)
        BY <1>2, <2>2 DEF Holds
      <3>2. Confirmed(a)
        BY <3>1 DEF IInv, CallInv, Holds
      <3>3. row'[a].confirmedAt = row[a].confirmedAt
        BY <3>2 DEF Evolution
      <3> QED
        BY <1>2, <3>2, <3>3
    <2>3. CASE u = w
      BY <1>2, <2>2, <2>3 DEF Holds
    <2>4. CASE v = w
      BY <1>2, <2>2, <2>4 DEF Holds
    <2> QED
      BY <2>1, <2>3, <2>4
  <1> QED
    BY <1>6, <1>7, <1>8 DEF IInv

LEMMA GotoKeeps ==
    ASSUME IInv, TypeOK', UNCHANGED <<now, row>>, NEW w \in Workers,
           NEW phase \in {"expire", "confirm", "reclaim", "cancel"},
           call[w].phase \notin {"idle", "insert", "select"},
           Accessible(call[w]),
           phase = "expire" => Overdue(row[call[w].action], call[w].at),
           phase = "confirm" => Confirmable(row[call[w].action], call[w].at),
           phase = "reclaim" => LeaseLapsed(row[call[w].action], call[w].at),
           Goto(w, phase)
    PROVE  IInv'
  <1>1. call[w] \in Call /\ call[w].action \in Actions
    BY DEF IInv, TypeOK, Idle
  <1> PICK a \in Actions : a = call[w].action
    BY <1>1
  <1>2. /\ call'[w].phase = phase
        /\ call'[w].action = a
        /\ call'[w].who = call[w].who
        /\ call'[w].at = call[w].at
        /\ \A v \in Workers \ {w} : call'[v] = call[v]
    BY <1>1 DEF Goto, IInv, TypeOK, Call
  <1>3. call[w].at <= now /\ call[w].at \in Nat
    BY <1>1 DEF IInv, CallInv, Call
  <1>4. phase = "reclaim" => /\ Confirmed(a)
                             /\ call[w].at >= row[a].confirmedAt + Lease
    <2> SUFFICES ASSUME phase = "reclaim"
                 PROVE  /\ Confirmed(a)
                        /\ call[w].at >= row[a].confirmedAt + Lease
      OBVIOUS
    <2>1. row[a].status = "executing" /\ row[a].executingAt <= call[w].at - Lease
      BY DEF LeaseLapsed
    <2>2. row[a] \in Row
      BY <2>1 DEF IInv, TypeOK, Absent
    <2>3. row[a].executingAt >= row[a].confirmedAt /\ row[a].confirmedAt \in Nat
      BY <2>1 DEF IInv, RowInv, Confirmed
    <2>4. row[a].executingAt \in Int
      BY <2>2 DEF Row, NoTime
    <2> QED
      BY <1>3, <2>1, <2>3, <2>4, DurationsAssumption DEF Confirmed
  <1>5. (phase = "expire" => row[a].expiresAt <= call[w].at)
        /\ (phase = "confirm" => call[w].at < row[a].expiresAt)
    <2>1. row[a].status = "pending" => row[a].expiresAt \in Nat
      BY DEF IInv, TypeOK, Absent, Row
    <2> QED
      BY <1>3, <2>1 DEF Overdue, Confirmable
  <1>6. Exists(a) /\ row[a].owner = call[w].who
    BY DEF Accessible, Exists
  <1>7. CallInv(w)'
    BY <1>2, <1>3, <1>4, <1>5, <1>6 DEF CallInv, Exists, Confirmed
  <1> QED
    BY <1>2, <1>7, ReadingStep

LEMMA Inductive == IInv /\ [Next]_vars => IInv'
  <1> SUFFICES ASSUME IInv, [Next]_vars PROVE IInv'
    OBVIOUS
  <1>1. TypeOK /\ TypeOK' /\ \A a \in Actions : Evolution(a)
    BY Typing, Evolves DEF IInv
  <1>2. now <= now' /\ now' \in Nat
    BY <1>1, Evolves DEF TypeOK
  <1>3. CASE Tick \/ UNCHANGED vars
    <2>1. UNCHANGED <<row, call>>
      BY <1>3 DEF Tick, vars
    <2>2. \A w \in Workers : CallInv(w)'
      BY <1>1, <1>2, <2>1, BystandersKeep DEF IInv
    <2>3. \A a \in Actions : RowInv(a)'
      BY <1>1, <1>2, <2>1, UntouchedRowKeeps DEF IInv
    <2>4. FirstLeaseExclusive'
      BY <1>1, <2>1, NoNewHolder
    <2> QED
      BY <1>1, <2>2, <2>3, <2>4 DEF IInv
  <1>4. ASSUME NEW w \in Workers, Request(w) PROVE IInv'
    <2> SUFFICES ASSUME NEW p \in Principals, NEW op, NEW a,
                        NEW phase \in {"insert", "select", "read"},
                        Enter(w, op, phase, a, p)
                 PROVE  IInv'
      BY <1>4 DEF Request
    <2>1. /\ call'[w].phase = phase /\ call'[w].at = now
          /\ \A v \in Workers \ {w} : call'[v] = call[v]
          /\ UNCHANGED <<now, row>>
      BY <1>1 DEF Enter, TypeOK
    <2>2. CallInv(w)'
      BY <1>1, <2>1 DEF CallInv, TypeOK
    <2> QED
      BY <1>1, <2>1, <2>2, ReadingStep
  <1>5. ASSUME NEW w \in Workers, Insert(w) PROVE IInv'
    <2> PICK a \in Actions, r \in {[status      |-> "pending",
                                    owner       |-> call[w].who,
                                    createdAt   |-> now,
                                    expiresAt   |-> call[w].at + TTL,
                                    confirmedAt |-> NoTime,
                                    executingAt |-> NoTime]} :
            row[a].status = "absent" /\ SetRow(a, r)
      BY <1>5 DEF Insert
    <2>1. row'[a] = r /\ \A b \in Actions : b # a => row'[b] = row[b]
      BY <1>1 DEF SetRow, TypeOK
    <2>2. call'[w] = Idle /\ \A v \in Workers \ {w} : call'[v] = call[v]
      BY <1>1, <1>5 DEF Insert, End, TypeOK
    <2>3. \A b \in Actions : RowInv(b)'
      BY <1>1, <1>2, <2>1, UntouchedRowKeeps DEF IInv, RowInv, Confirmed
    <2>4. \A v \in Workers : CallInv(v)'
      <3>1. CallInv(w)'
        BY <2>2 DEF CallInv, Idle
      <3> QED
        BY <1>1, <1>2, <2>2, <3>1, BystandersKeep DEF IInv
    <2>5. FirstLeaseExclusive'
      BY <1>1, <2>2, NoNewHolder DEF Idle
    <2> QED
      BY <1>1, <2>3, <2>4, <2>5 DEF IInv
  <1>6. ASSUME NEW w \in Workers, ReadClaim(w) PROVE IInv'
    <2>1. UNCHANGED <<now, row>> /\ call[w].phase = "read"
      BY <1>6 DEF ReadClaim, Ready
    <2>2. CASE End(w)
      BY <1>1, <2>1, <2>2, EndingStep
    <2>3. CASE /\ Accessible(call[w])
               /\ Overdue(row[call[w].action], call[w].at)
               /\ Goto(w, "expire")
      BY <1>1, <2>1, <2>3, GotoKeeps
    <2>4. CASE /\ Accessible(call[w])
               /\ LeaseLapsed(row[call[w].action], call[w].at)
               /\ Goto(w, "reclaim")
      BY <1>1, <2>1, <2>4, GotoKeeps
    <2>5. CASE /\ Accessible(call[w])
               /\ Confirmable(row[call[w].action], call[w].at)
               /\ Goto(w, "confirm")
      BY <1>1, <2>1, <2>5, GotoKeeps
    <2> QED
      BY <1>6, <2>2, <2>3, <2>4, <2>5 DEF ReadClaim
  <1>7. ASSUME NEW w \in Workers, ConfirmRow(w) PROVE IInv'
    <2>1. call[w] \in Call /\ call[w].action \in Actions
      BY <1>1, <1>7 DEF ConfirmRow, Ready, TypeOK, Idle
    <2> PICK a \in Actions : a = call[w].action
      BY <2>1
    <2> DEFINE r == [row[a] EXCEPT !.status = "executing",
                                   !.confirmedAt = call[w].at,
                                   !.executingAt = call[w].at]
    <2>2. CASE Matches(a, call[w].who.user, {"pending"})
      <3>1. row[a] \in Row /\ ~Confirmed(a)
        BY <1>1, <2>2 DEF Matches, TypeOK, Absent, Confirmed
      <3>2. /\ r \in Row
            /\ r.status = "executing"
            /\ r.confirmedAt = call[w].at
            /\ r.executingAt = call[w].at
            /\ r.expiresAt = row[a].expiresAt
        BY <2>1, <3>1 DEF Row, Call, ActiveStatuses
      <3>3. SetRow(a, r) /\ Goto(w, "hold") /\ UNCHANGED now
        BY <1>7, <2>2 DEF ConfirmRow
      <3> HIDE DEF r
      <3>4. RowInv(a)'
        <4>1. row'[a] = r
          BY <1>1, <3>3 DEF SetRow, TypeOK
        <4>2. call[w].at < row[a].expiresAt /\ call[w].at \in Nat
          BY <1>7, <2>1 DEF IInv, CallInv, ConfirmRow, Ready, Call
        <4> QED
          BY <3>2, <4>1, <4>2 DEF RowInv, Confirmed
      <3> QED
        BY <1>1, <1>7, <3>1, <3>2, <3>3, <3>4, TakingStep
           DEF ConfirmRow, Ready
    <2>3. CASE ~Matches(a, call[w].who.user, {"pending"})
      BY <1>1, <1>7, <2>3, EndingStep DEF ConfirmRow
    <2> QED
      BY <2>2, <2>3
  <1>8. ASSUME NEW w \in Workers, ReclaimRow(w) PROVE IInv'
    <2>1. call[w] \in Call /\ call[w].action \in Actions
      BY <1>1, <1>8 DEF ReclaimRow, Ready, TypeOK, Idle
    <2> PICK a \in Actions : a = call[w].action
      BY <2>1
    <2> DEFINE r == [row[a] EXCEPT !.executingAt = call[w].at]
    <2>2. CASE Matches(a, call[w].who.user, {"executing"})
      <3>1. row[a] \in Row /\ row[a].status = "executing"
        BY <1>1, <2>2 DEF Matches, TypeOK, Absent
      <3>2. /\ r \in Row
            /\ r.status = "executing"
            /\ r.confirmedAt = row[a].confirmedAt
            /\ r.executingAt = call[w].at
            /\ r.expiresAt = row[a].expiresAt
        BY <2>1, <3>1 DEF Row, Call
      <3>3. SetRow(a, r) /\ Goto(w, "hold") /\ UNCHANGED now
        BY <1>8, <2>2 DEF ReclaimRow
      <3> HIDE DEF r
      <3>4. Confirmed(a) /\ call[w].at >= row[a].confirmedAt + Lease
        BY <1>8 DEF IInv, CallInv, ReclaimRow, Ready
      <3>5. RowInv(a)'
        <4>1. row'[a] = r
          BY <1>1, <3>3 DEF SetRow, TypeOK
        <4>2. call[w].at >= row[a].confirmedAt
          BY <2>1, <3>4, DurationsAssumption DEF IInv, RowInv, Call
        <4> QED
          BY <3>1, <3>2, <3>4, <4>1, <4>2 DEF IInv, RowInv, Confirmed
      <3> QED
        BY <1>1, <1>8, <3>2, <3>3, <3>4, <3>5, TakingStep
           DEF ReclaimRow, Ready
    <2>3. CASE ~Matches(a, call[w].who.user, {"executing"})
      BY <1>1, <1>8, <2>3, EndingStep DEF ReclaimRow
    <2> QED
      BY <2>2, <2>3
  <1>9. ASSUME NEW w \in Workers, ReadOwned(w) PROVE IInv'
    <2>1. UNCHANGED <<now, row>> /\ call[w].phase = "read"
      BY <1>9 DEF ReadOwned
    <2>2. CASE End(w)
      BY <1>1, <2>1, <2>2, EndingStep
    <2>3. CASE /\ Accessible(call[w])
               /\ Overdue(row[call[w].action], call[w].at)
               /\ Goto(w, "expire")
      BY <1>1, <2>1, <2>3, GotoKeeps
    <2>4. CASE Accessible(call[w]) /\ Goto(w, "cancel")
      BY <1>1, <2>1, <2>4, GotoKeeps
    <2> QED
      BY <1>9, <2>2, <2>3, <2>4 DEF ReadOwned
  <1>10. ASSUME NEW w \in Workers, SelectActive(w) PROVE IInv'
    <2>1. UNCHANGED <<now, row>> /\ call[w] \in Call
      BY <1>1, <1>10 DEF SelectActive, Ready, TypeOK, Idle
    <2>2. ASSUME NEW a \in NewestActive(call[w].who),
                 call' = [call EXCEPT ![w].action = a, ![w].phase = "discard"]
          PROVE  IInv'
      <3>1. a \in Actions /\ Exists(a) /\ row[a].owner = call[w].who
        BY <2>2 DEF NewestActive, ActiveStatuses, Exists
      <3>2. /\ call'[w].phase = "discard" /\ call'[w].action = a
            /\ call'[w].who = call[w].who /\ call'[w].at = call[w].at
            /\ \A v \in Workers \ {w} : call'[v] = call[v]
        BY <1>1, <2>1, <2>2 DEF TypeOK, Call
      <3>3. call[w].at <= now
        BY <1>10 DEF IInv, CallInv, SelectActive, Ready
      <3>4. CallInv(w)'
        BY <2>1, <3>1, <3>2, <3>3 DEF CallInv, Exists
      <3> QED
        BY <1>1, <2>1, <3>2, <3>4, ReadingStep
    <2>3. CASE End(w)
      BY <1>1, <2>1, <2>3, EndingStep
    <2> QED
      BY <1>10, <2>2, <2>3 DEF SelectActive
  <1>11. ASSUME NEW w \in Workers, ExpireRow(w) PROVE IInv'
    <2> LastWrite(w, {"pending"}, "expired") /\ call[w].phase = "expire"
      BY <1>11 DEF ExpireRow, LastWrite
    <2> QED
      BY <1>1, LastWriteKeeps DEF Terminal, ActiveStatuses
  <1>12. ASSUME NEW w \in Workers, CancelRow(w) PROVE IInv'
    <2> LastWrite(w, {"pending"}, "cancelled")
      BY <1>12 DEF CancelRow, Ready, LastWrite
    <2> QED
      BY <1>1, LastWriteKeeps DEF Terminal, ActiveStatuses
  <1>13. ASSUME NEW w \in Workers, DiscardRow(w) PROVE IInv'
    <2> LastWrite(w, {"pending", "confirmed"}, "cancelled")
      BY <1>13 DEF DiscardRow, Ready, LastWrite
    <2> QED
      BY <1>1, LastWriteKeeps DEF Terminal, ActiveStatuses
  <1>14. ASSUME NEW w \in Workers, NEW to \in {"executed", "failed"},
                FinishRow(w, to)
         PROVE  IInv'
    <2> LastWrite(w, {"executing"}, to)
      BY <1>14 DEF FinishRow, LastWrite
    <2> QED
      BY <1>1, LastWriteKeeps DEF Terminal, ActiveStatuses
  <1>15. ASSUME NEW w \in Workers, Crash(w) PROVE IInv'
    BY <1>1, <1>15, EndingStep DEF Crash
  <1> QED
    BY <1>3, <1>4, <1>5, <1>6, <1>7, <1>8, <1>9, <1>10, <1>11, <1>12, <1>13,
       <1>14, <1>15 DEF Next, ServiceStep

-----------------------------------------------------------------------------
(* The theorems                                                            *)

LEMMA Invariance == Spec => []IInv
  BY InitIInv, Inductive, PTL DEF Spec

\* The rows, the calls under way and the clock always have their types; in
\* particular no transaction ever commits a row that is "confirmed".
THEOREM TypeCorrect == Spec => []TypeOK
  <1>1. Init => TypeOK
    BY InitIInv DEF IInv
  <1> QED
    BY <1>1, Typing, PTL DEF Spec

\* However late its UPDATE runs, a confirmation is recorded only if it arrived
\* before the action expired.
THEOREM ConfirmationInTime == Spec => []ConfirmedBeforeExpiry
  <1>1. IInv => ConfirmedBeforeExpiry
    BY DEF IInv, RowInv, ConfirmedBeforeExpiry, NoTime
  <1> QED
    BY <1>1, Invariance, PTL

\* Cancelling, resetting and expiring never undo a confirmation.
THEOREM WithdrawalIsSafe == Spec => []WithdrawnNeverConfirmed
  <1>1. IInv => WithdrawnNeverConfirmed
    BY DEF IInv, RowInv, WithdrawnNeverConfirmed
  <1> QED
    BY <1>1, Invariance, PTL

\* No action is marked expired before its time.
THEOREM ExpiryIsDue == Spec => []ExpiredOnlyWhenDue
  <1>1. IInv => ExpiredOnlyWhenDue
    BY DEF IInv, RowInv, ExpiredOnlyWhenDue
  <1> QED
    BY <1>1, Invariance, PTL

\* Of any number of concurrent confirmations, one executes during the first
\* lease.
THEOREM FirstLease == Spec => []FirstLeaseExclusive
  <1>1. IInv => FirstLeaseExclusive
    BY DEF IInv
  <1> QED
    BY <1>1, Invariance, PTL

\* A row changes only while it is active, and only by a call of its owner.
OwnChange(a) ==
    row[a].status # "absent" /\ row'[a] # row[a]
        => /\ row[a].status \in ActiveStatuses
           /\ \E w \in Workers :
                 call[w] # Idle /\ call'[w] # call[w]
                                /\ call[w].who = row[a].owner

LEMMA ConditionalUpdate ==
    ASSUME IInv, NEW w \in Workers, NEW from \in SUBSET ActiveStatuses,
           call[w].phase \in {"expire", "confirm", "reclaim", "cancel",
                              "discard", "hold"},
           \/ UNCHANGED row
           \/ Matches(call[w].action, call[w].who.user, from)
              /\ \E r : SetRow(call[w].action, r),
           \/ End(w)
           \/ Goto(w, "hold") /\ call[w].phase # "hold",
           NEW b \in Actions
    PROVE  OwnChange(b)
  <1> DEFINE a == call[w].action
  <1>1. call[w] \in Call /\ a \in Actions /\ call[w] # Idle
    BY DEF IInv, TypeOK, Idle
  <1>2. CASE UNCHANGED row
    BY <1>2 DEF OwnChange
  <1>3. CASE Matches(a, call[w].who.user, from)
              /\ \E r : SetRow(a, r)
    <2>1. row'[b] # row[b] => b = a
      BY <1>1, <1>3 DEF SetRow, IInv, TypeOK
    <2>2. row[a].owner = call[w].who /\ row[a].status \in ActiveStatuses
      BY <1>3 DEF IInv, CallInv, Matches
    <2>3. call'[w] # call[w]
      BY <1>1 DEF End, Goto, Idle, IInv, TypeOK, Call
    <2> QED
      BY <1>1, <2>1, <2>2, <2>3 DEF OwnChange
  <1> QED
    BY <1>2, <1>3

LEMMA OwnChanges ==
    ASSUME IInv, [Next]_vars, NEW a \in Actions
    PROVE  OwnChange(a)
  <1> USE DEF ActiveStatuses
  <1>1. CASE UNCHANGED row
    BY <1>1 DEF OwnChange
  <1>2. ASSUME NEW w \in Workers, Insert(w) PROVE OwnChange(a)
    BY <1>2 DEF Insert, SetRow, OwnChange, IInv, TypeOK
  <1>3. ASSUME NEW w \in Workers, ConfirmRow(w) PROVE OwnChange(a)
    <2>1. /\ call[w].phase = "confirm"
          /\ \/ UNCHANGED row
             \/ Matches(call[w].action, call[w].who.user, {"pending"})
                /\ \E r : SetRow(call[w].action, r)
          /\ Goto(w, "hold") \/ End(w)
      BY <1>3 DEF ConfirmRow, Ready
    <2> QED
      BY <2>1, ConditionalUpdate
  <1>4. ASSUME NEW w \in Workers, ReclaimRow(w) PROVE OwnChange(a)
    <2>1. /\ call[w].phase = "reclaim"
          /\ \/ UNCHANGED row
             \/ Matches(call[w].action, call[w].who.user, {"executing"})
                /\ \E r : SetRow(call[w].action, r)
          /\ Goto(w, "hold") \/ End(w)
      BY <1>4 DEF ReclaimRow, Ready
    <2> QED
      BY <2>1, ConditionalUpdate
  <1>5. ASSUME NEW w \in Workers, NEW s \in Terminal,
               NEW from \in SUBSET ActiveStatuses, LastWrite(w, from, s)
        PROVE  OwnChange(a)
    BY <1>5, ConditionalUpdate DEF LastWrite
  <1>6. ASSUME NEW w \in Workers,
               \/ ExpireRow(w) \/ CancelRow(w) \/ DiscardRow(w)
               \/ \E to \in {"executed", "failed"} : FinishRow(w, to)
        PROVE  OwnChange(a)
    <2>1. \E s \in Terminal, from \in SUBSET ActiveStatuses :
             LastWrite(w, from, s)
      <3>1. CASE ExpireRow(w)
        <4> LastWrite(w, {"pending"}, "expired")
          BY <3>1 DEF ExpireRow, LastWrite
        <4> QED
          BY DEF Terminal
      <3>2. CASE CancelRow(w)
        <4> LastWrite(w, {"pending"}, "cancelled")
          BY <3>2 DEF CancelRow, Ready, LastWrite
        <4> QED
          BY DEF Terminal
      <3>3. CASE DiscardRow(w)
        <4> LastWrite(w, {"pending", "confirmed"}, "cancelled")
          BY <3>3 DEF DiscardRow, Ready, LastWrite
        <4> QED
          BY DEF Terminal
      <3>4. ASSUME NEW to \in {"executed", "failed"}, FinishRow(w, to)
            PROVE  \E s \in Terminal, from \in SUBSET ActiveStatuses :
                      LastWrite(w, from, s)
        <4> LastWrite(w, {"executing"}, to)
          BY <3>4 DEF FinishRow, LastWrite
        <4> QED
          BY DEF Terminal
      <3> QED
        BY <1>6, <3>1, <3>2, <3>3, <3>4
    <2> QED
      BY <1>5, <2>1
  <1> QED
    BY <1>1, <1>2, <1>3, <1>4, <1>6
       DEF Next, vars, Tick, Request, Enter, ServiceStep, ReadClaim,
           ReadOwned, SelectActive, Crash

\* A row that has ended never changes again.
THEOREM EndIsFinal == Spec => TerminalIsFinal
  <1>1. IInv /\ [Next]_vars
           => [\A a \in Actions :
                  row[a].status \in Terminal => row'[a] = row[a]]_vars
    BY OwnChanges DEF OwnChange, Terminal, ActiveStatuses
  <1> QED
    BY <1>1, Invariance, PTL DEF Spec, TerminalIsFinal

\* Only calls made for a row's own user and conversation change it.
THEOREM OwnersOnly == Spec => OnlyOwnerChanges
  <1>1. IInv /\ [Next]_vars
           => [\A a \in Actions :
                  row[a].status # "absent" /\ row'[a] # row[a]
                      => \E w \in Workers :
                            call[w] # Idle /\ call'[w] # call[w]
                                           /\ call[w].who = row[a].owner]_vars
    BY OwnChanges DEF OwnChange
  <1> QED
    BY <1>1, Invariance, PTL DEF Spec, OnlyOwnerChanges

-----------------------------------------------------------------------------
(* WriteExecution: the inductive invariant                                 *)

\* What worker w knows: how many attempts it has left, and that an answer
\* "done" means that Odoo did it.
StageInv(w) ==
    /\ stage[w] = "claimed" => attempts[w] = 0
    /\ stage[w] = "send" => attempts[w] < MaxAttempts
    /\ wire[w] = "done" \/ stage[w] = "succeeded" => Applied(call[w].action)

\* A request in flight names an action that was confirmed, by the key of its
\* row.
OrphanInv ==
    \A req \in orphans : Confirmed(req.action) /\ req.key = "persisted"

EffectInv ==
    \A a \in Actions : /\ effects[a]["fresh"] = 0
                       /\ Applied(a) => Confirmed(a)
                       /\ row[a].status = "executed" => Applied(a)

ExecIInv ==
    /\ IInv
    /\ ExecTypeOK
    /\ \A w \in Workers : StageInv(w)
    /\ OrphanInv
    /\ EffectInv

-----------------------------------------------------------------------------
(* The table                                                               *)

LEMMA InitExecIInv == ExecInit => ExecIInv
  <1> SUFFICES ASSUME ExecInit PROVE ExecIInv
    OBVIOUS
  <1>1. IInv /\ Init
    BY InitIInv DEF ExecInit
  <1>2. ExecTypeOK
    BY DEF ExecInit, ExecTypeOK, Stages, Requests, Keys, MaxAttempts
  <1>3. \A w \in Workers : StageInv(w)
    BY DEF ExecInit, StageInv, Applied, Keys
  <1>4. OrphanInv /\ EffectInv
    BY <1>1 DEF ExecInit, Init, OrphanInv, EffectInv, Applied, Keys, Absent
  <1> QED
    BY <1>1, <1>2, <1>3, <1>4 DEF ExecIInv

\* A worker that leaves the node is, to the table, a call that ends.
LEMMA TableSteps == ExecNext => [Next]_vars
  <1> SUFFICES ASSUME ExecNext PROVE [Next]_vars
    OBVIOUS
  <1>1. CASE Tick \/ UNCHANGED vars
    BY <1>1 DEF Next
  <1>2. ASSUME NEW w \in Workers, Request(w) \/ ServiceStep(w) PROVE Next
    BY <1>2 DEF Next
  <1>3. ASSUME NEW w \in Workers, call[w].phase = "hold", End(w),
               UNCHANGED <<now, row>>
        PROVE  Next
    BY <1>3 DEF Next, Crash, Idle
  <1>4. ASSUME NEW w \in Workers, Prepare(w) PROVE [Next]_vars
    BY <1>3, <1>4 DEF Prepare, In, vars
  <1>5. ASSUME NEW w \in Workers, RetriesExhausted(w) \/ ProfileCallRaises(w)
        PROVE  Next
    BY <1>3, <1>5 DEF RetriesExhausted, ProfileCallRaises, In
  <1>6. ASSUME NEW w \in Workers, Finish(w) PROVE Next
    BY <1>6 DEF Finish, Next
  <1>7. ASSUME NEW w \in Workers, Abort(w) PROVE Next
    BY <1>7 DEF Abort, Next
  <1>8. ASSUME NEW w \in Workers,
               Send(w) \/ Answered(w) \/ Transient(w) \/ Unclear(w)
                       \/ OdooHandles(w)
        PROVE  UNCHANGED vars
    BY <1>8 DEF Send, Answered, Transient, Unclear, OdooHandles
  <1>9. ASSUME NEW req \in orphans, OdooHandlesOrphan(req)
        PROVE  UNCHANGED vars
    BY <1>9 DEF OdooHandlesOrphan
  <1> QED
    BY <1>1, <1>2, <1>4, <1>5, <1>6, <1>7, <1>8, <1>9 DEF ExecNext, WorkerStep

\* What every step keeps of the table: a confirmation is never taken back.
LEMMA TableKeeps ==
    ASSUME ExecIInv, ExecNext
    PROVE  /\ IInv'
           /\ \A a \in Actions : Confirmed(a) => Confirmed(a)'
  <1>1. [Next]_vars /\ TypeOK
    BY TableSteps DEF ExecIInv, IInv
  <1> QED
    BY <1>1, Inductive, Evolves DEF ExecIInv, Evolution

\* Before it holds an execution, a worker changes its own call and no row to
\* "executed".
LEMMA ServiceFrame ==
    ASSUME TypeOK, NEW w \in Workers, Request(w) \/ ServiceStep(w)
    PROVE  /\ call[w].phase # "hold"
           /\ \A v \in Workers \ {w} : call'[v] = call[v]
           /\ \A a \in Actions :
                 row'[a].status = "executed" => row[a].status = "executed"
  <1>1. \A v \in Workers \ {w} : call'[v] = call[v]
    BY DEF Request, ServiceStep, Enter, Insert, ReadClaim, ConfirmRow,
           ReclaimRow, ReadOwned, ExpireRow, CancelRow, SelectActive,
           DiscardRow, End, Goto, TypeOK
  <1>2. call[w].phase # "hold"
    BY DEF Request, ServiceStep, Enter, Insert, ReadClaim, ConfirmRow,
           ReclaimRow, ReadOwned, ExpireRow, CancelRow, SelectActive,
           DiscardRow, Ready, Idle
  <1>3. ASSUME NEW a \in Actions, row'[a].status = "executed"
        PROVE  row[a].status = "executed"
    <2>1. row[a].status \in ActiveStatuses => row[a] \in Row
      BY DEF TypeOK, Absent, ActiveStatuses
    <2>2. ASSUME NEW b, NEW r, SetRow(b, r),
                 b = a => r.status # "executed"
          PROVE  row[a].status = "executed"
      BY <1>3, <2>2 DEF SetRow, TypeOK
    <2>3. CASE UNCHANGED row
      BY <1>3, <2>3
    <2>4. CASE Insert(w)
      BY <2>2, <2>4 DEF Insert
    <2>5. CASE ConfirmRow(w)
      BY <2>1, <2>2, <2>3, <2>5 DEF ConfirmRow, Matches, ActiveStatuses, Row
    <2>6. CASE ReclaimRow(w)
      BY <2>1, <2>2, <2>3, <2>6 DEF ReclaimRow, Matches, ActiveStatuses, Row
    <2>7. CASE ExpireRow(w)
      BY <2>1, <2>2, <2>3, <2>7 DEF ExpireRow, Matches, ActiveStatuses, Row
    <2>8. CASE CancelRow(w)
      BY <2>1, <2>2, <2>3, <2>8 DEF CancelRow, Matches, ActiveStatuses, Row
    <2>9. CASE DiscardRow(w)
      BY <2>1, <2>2, <2>3, <2>9 DEF DiscardRow, Matches, ActiveStatuses, Row
    <2> QED
      BY <2>3, <2>4, <2>5, <2>6, <2>7, <2>8, <2>9
         DEF Request, Enter, ServiceStep, ReadClaim, ReadOwned, SelectActive
  <1> QED
    BY <1>1, <1>2, <1>3

-----------------------------------------------------------------------------
(* A step of one worker                                                    *)

Same(v) == UNCHANGED <<call[v], stage[v], attempts[v], wire[v]>>

\* The types of the node's variables, worker by worker.
WorkerTypes(w) ==
    /\ stage[w] \in Stages
    /\ attempts[w] \in 0 .. MaxAttempts
    /\ wire[w] \in {"silent", "request", "done", "declined"}
    /\ stage[w] # "claimed" => call[w].phase = "hold"
    /\ wire[w] # "silent" => stage[w] = "wait"

Functions ==
    /\ DOMAIN stage = Workers /\ stage = [v \in Workers |-> stage[v]]
    /\ DOMAIN attempts = Workers
    /\ attempts = [v \in Workers |-> attempts[v]]
    /\ DOMAIN wire = Workers /\ wire = [v \in Workers |-> wire[v]]

\* A step of w that leaves the other workers alone, and Odoo too, keeps the
\* invariant if w is left as it should be: with its types, an attempt to
\* spare, and a success that is one.  If it hangs up, its request may become
\* an orphan.
LEMMA WorkerStepKeeps ==
    ASSUME ExecIInv, ExecNext, NEW w \in Workers,
           Functions', \A v \in Workers \ {w} : Same(v),
           WorkerTypes(w)', StageInv(w)',
           \/ orphans' = orphans
           \/ wire[w] = "request" /\ orphans' = orphans \cup {RequestOf(w)},
           UNCHANGED effects,
           \A a \in Actions : row'[a].status = "executed"
                                 => row[a].status = "executed" \/ Applied(a)
    PROVE  ExecIInv'
  <1>1. IInv' /\ \A a \in Actions : Confirmed(a) => Confirmed(a)'
    BY TableKeeps
  <1>2. \A a \in Actions : Applied(a)' <=> Applied(a)
    BY DEF Applied
  <1>3. \A v \in Workers : WorkerTypes(v)' /\ StageInv(v)'
    <2> SUFFICES ASSUME NEW v \in Workers \ {w}
                 PROVE  WorkerTypes(v)' /\ StageInv(v)'
      OBVIOUS
    <2>1. Same(v) /\ WorkerTypes(v) /\ StageInv(v)
      BY DEF ExecIInv, ExecTypeOK, WorkerTypes
    <2>2. WorkerTypes(v)'
      BY <2>1 DEF Same, WorkerTypes
    <2>3. StageInv(v)'
      BY <2>1 DEF Same, StageInv, Applied
    <2> QED
      BY <2>2, <2>3
  <1>4. wire[w] = "request"
           => /\ RequestOf(w) \in Requests
              /\ Confirmed(RequestOf(w).action)
              /\ RequestOf(w).key = "persisted"
    BY DEF ExecIInv, ExecTypeOK, IInv, TypeOK, CallInv, RequestOf, KeyFor,
           Requests, Keys
  <1>5. \A req \in orphans : req.action \in Actions
    BY DEF ExecIInv, ExecTypeOK, Requests
  <1>6. OrphanInv'
    <2>1. \A req \in orphans' :
             /\ req.action \in Actions /\ Confirmed(req.action)
             /\ req.key = "persisted"
      BY <1>4, <1>5 DEF ExecIInv, OrphanInv, Requests
    <2> QED
      BY <1>1, <2>1 DEF OrphanInv
  <1>7. EffectInv'
    BY <1>1, <1>2 DEF ExecIInv, EffectInv
  <1>8. ExecTypeOK'
    <2>1. orphans' \subseteq Requests
      BY <1>4 DEF ExecIInv, ExecTypeOK
    <2>2. effects' \in [Actions -> [Keys -> {0, 1}]]
      BY DEF ExecIInv, ExecTypeOK
    <2>3. /\ stage' \in [Workers -> Stages]
          /\ attempts' \in [Workers -> 0 .. MaxAttempts]
          /\ wire' \in [Workers -> {"silent", "request", "done", "declined"}]
      BY <1>3 DEF Functions, WorkerTypes
    <2> QED
      BY <1>3, <2>1, <2>2, <2>3 DEF WorkerTypes, ExecTypeOK
  <1> QED
    BY <1>1, <1>3, <1>6, <1>7, <1>8 DEF ExecIInv

LEMMA NodeKeeps ==
    ASSUME ExecIInv, ExecNext, NEW w \in Workers,
           \/ Prepare(w) \/ Send(w) \/ Answered(w) \/ Transient(w)
           \/ RetriesExhausted(w) \/ Unclear(w) \/ ProfileCallRaises(w)
           \/ Finish(w) \/ Abort(w)
    PROVE  ExecIInv'
  <1> USE DEF Advance, Leave, HangUp, In, End, Stages, MaxAttempts
  <1>1. /\ call \in [Workers -> {Idle} \cup Call]
        /\ stage \in [Workers -> Stages]
        /\ attempts \in [Workers -> 0 .. MaxAttempts]
        /\ wire \in [Workers -> {"silent", "request", "done", "declined"}]
        /\ WorkerTypes(w) /\ StageInv(w)
    BY DEF ExecIInv, IInv, TypeOK, ExecTypeOK, WorkerTypes
  <1>2. UNCHANGED effects
    BY DEF Prepare, Send, Answered, Transient, RetriesExhausted, Unclear,
           ProfileCallRaises, Finish, Abort
  <1>3. \A a \in Actions : Applied(a)' <=> Applied(a)
    BY <1>2 DEF Applied
  <1>4. CASE Prepare(w)
    <2>1. Functions' /\ \A v \in Workers \ {w} : Same(v)
      BY <1>1, <1>4 DEF Prepare, Functions, Same
    <2>2. WorkerTypes(w)' /\ StageInv(w)'
      BY <1>1, <1>4 DEF Prepare, WorkerTypes, StageInv
    <2> QED
      BY <1>2, <1>4, <2>1, <2>2, WorkerStepKeeps DEF Prepare
  <1>5. CASE Send(w)
    <2>1. Functions' /\ \A v \in Workers \ {w} : Same(v)
      BY <1>1, <1>5 DEF Send, Functions, Same, vars
    <2>2. WorkerTypes(w)' /\ StageInv(w)'
      BY <1>1, <1>5 DEF Send, WorkerTypes, StageInv, vars
    <2> QED
      BY <1>2, <1>5, <2>1, <2>2, WorkerStepKeeps DEF Send, vars
  <1>6. CASE Answered(w)
    <2>1. Functions' /\ \A v \in Workers \ {w} : Same(v)
      BY <1>1, <1>6 DEF Answered, Functions, Same, vars
    <2>2. WorkerTypes(w)' /\ StageInv(w)'
      BY <1>1, <1>2, <1>6
         DEF Answered, WorkerTypes, StageInv, Applied, vars
    <2> QED
      BY <1>2, <1>6, <2>1, <2>2, WorkerStepKeeps DEF Answered, vars
  <1>7. CASE Transient(w)
    <2>1. Functions' /\ \A v \in Workers \ {w} : Same(v)
      BY <1>1, <1>7 DEF Transient, Functions, Same, vars
    <2>2. WorkerTypes(w)' /\ StageInv(w)'
      BY <1>1, <1>7 DEF Transient, WorkerTypes, StageInv, vars
    <2> QED
      BY <1>2, <1>7, <2>1, <2>2, WorkerStepKeeps DEF Transient, vars
  <1>8. CASE RetriesExhausted(w) \/ ProfileCallRaises(w)
    <2>1. Functions' /\ \A v \in Workers \ {w} : Same(v)
      BY <1>1, <1>8 DEF RetriesExhausted, ProfileCallRaises, Functions, Same
    <2>2. WorkerTypes(w)' /\ StageInv(w)'
      BY <1>1, <1>8 DEF RetriesExhausted, ProfileCallRaises, WorkerTypes,
                        StageInv
    <2> QED
      BY <1>2, <1>8, <2>1, <2>2, WorkerStepKeeps
         DEF RetriesExhausted, ProfileCallRaises
  <1>9. CASE Unclear(w)
    <2>1. Functions' /\ \A v \in Workers \ {w} : Same(v)
      BY <1>1, <1>9 DEF Unclear, Functions, Same, vars
    <2>2. WorkerTypes(w)' /\ StageInv(w)'
      BY <1>1, <1>9 DEF Unclear, WorkerTypes, StageInv, vars
    <2> QED
      BY <1>2, <1>9, <2>1, <2>2, WorkerStepKeeps DEF Unclear, vars
  <1>10. CASE Abort(w)
    <2>1. Functions' /\ \A v \in Workers \ {w} : Same(v)
      BY <1>1, <1>10 DEF Abort, Crash, Functions, Same
    <2>2. WorkerTypes(w)' /\ StageInv(w)'
      BY <1>1, <1>10 DEF Abort, WorkerTypes, StageInv
    <2> QED
      BY <1>2, <1>10, <2>1, <2>2, WorkerStepKeeps DEF Abort, Crash
  <1>11. CASE Finish(w)
    <2>1. Functions' /\ \A v \in Workers \ {w} : Same(v)
      BY <1>1, <1>11 DEF Finish, FinishRow, Functions, Same
    <2>2. WorkerTypes(w)' /\ StageInv(w)'
      <3>1. /\ stage'[w] = "claimed" /\ attempts'[w] = 0
            /\ wire'[w] = wire[w] /\ stage[w] # "wait"
        BY <1>1, <1>11 DEF Finish
      <3> QED
        BY <1>1, <3>1 DEF WorkerTypes, StageInv
    <2>3. ASSUME NEW a \in Actions, row'[a].status = "executed"
          PROVE  row[a].status = "executed" \/ Applied(a)
      <3>1. CASE In(w, "succeeded") /\ FinishRow(w, "executed")
        BY <1>1, <2>3, <3>1 DEF FinishRow, SetRow, StageInv, ExecIInv, IInv,
                                 TypeOK
      <3>2. CASE In(w, "refused") /\ FinishRow(w, "failed")
        <4>1. row[a].status = "executing" => row[a] \in Row
          BY DEF ExecIInv, IInv, TypeOK, Absent
        <4> QED
          BY <2>3, <3>2, <4>1 DEF FinishRow, Matches, SetRow, Row, ExecIInv,
                                  IInv, TypeOK
      <3> QED
        BY <1>11, <3>1, <3>2 DEF Finish
    <2> QED
      BY <1>2, <1>11, <2>1, <2>2, <2>3, WorkerStepKeeps DEF Finish
  <1> QED
    BY <1>4, <1>5, <1>6, <1>7, <1>8, <1>9, <1>10, <1>11

\* Requests and the operations of the service leave the node alone.
LEMMA ServiceKeeps ==
    ASSUME ExecIInv, ExecNext, UNCHANGED execVars,
           \/ Tick \/ UNCHANGED vars
           \/ \E w \in Workers : Request(w) \/ ServiceStep(w)
    PROVE  ExecIInv'
  <1> USE DEF execVars
  <1>1. IInv' /\ \A a \in Actions : Confirmed(a) => Confirmed(a)'
    BY TableKeeps
  <1>2. \A a \in Actions : Applied(a)' <=> Applied(a)
    BY DEF Applied
  <1>3. \A w \in Workers : call[w].phase = "hold" => call'[w] = call[w]
    BY ServiceFrame DEF Tick, vars, ExecIInv, IInv
  <1>4. \A a \in Actions : row'[a].status = "executed"
                              => row[a].status = "executed"
    BY ServiceFrame DEF Tick, vars, ExecIInv, IInv
  <1>5. ExecTypeOK'
    BY <1>3 DEF ExecIInv, ExecTypeOK
  <1>6. \A w \in Workers : StageInv(w)'
    BY <1>3 DEF ExecIInv, ExecTypeOK, StageInv, Applied
  <1>7. OrphanInv'
    BY <1>1 DEF ExecIInv, OrphanInv, ExecTypeOK, Requests
  <1>8. EffectInv'
    BY <1>1, <1>2, <1>4 DEF ExecIInv, EffectInv
  <1> QED
    BY <1>1, <1>5, <1>6, <1>7, <1>8 DEF ExecIInv

-----------------------------------------------------------------------------
(* A step of Odoo                                                          *)

\* Odoo handles a request with the key of a confirmed action.
LEMMA EffectKeeps ==
    ASSUME ExecIInv, NEW a \in Actions, Confirmed(a), UNCHANGED row,
           \/ Effect([action |-> a, key |-> "persisted"])
           \/ UNCHANGED effects
    PROVE  /\ effects' \in [Actions -> [Keys -> {0, 1}]]
           /\ EffectInv'
           /\ \A b \in Actions : Applied(b) => Applied(b)'
           /\ Effect([action |-> a, key |-> "persisted"]) => Applied(a)'
           /\ \A b \in Actions : Applied(b)' => Applied(b) \/ b = a
  <1> DEFINE k == "persisted"
  <1>1. effects \in [Actions -> [Keys -> {0, 1}]] /\ k \in Keys
    BY DEF ExecIInv, ExecTypeOK, Keys
  <1>2. /\ effects' \in [Actions -> [Keys -> {0, 1}]]
        /\ \A b \in Actions, j \in Keys :
              effects'[b][j] # effects[b][j]
                  => b = a /\ j = k /\ effects'[b][j] = 1
        /\ Effect([action |-> a, key |-> k]) => effects'[a][k] > 0
    <2>1. CASE UNCHANGED effects /\ ~Effect([action |-> a, key |-> k])
      BY <1>1, <2>1
    <2>2. CASE Effect([action |-> a, key |-> k]) /\ effects[a][k] > 0
      BY <1>1, <2>2 DEF Effect, CarriedOut
    <2>3. CASE Effect([action |-> a, key |-> k]) /\ ~(effects[a][k] > 0)
      <3>1. effects[a][k] = 0
        BY <1>1, <2>3
      <3> DEFINE req == [action |-> a, key |-> k]
      <3>2. req.action = a /\ req.key = k
        OBVIOUS
      <3> HIDE DEF req
      <3>3. effects' = [effects EXCEPT ![a][k] = @ + 1]
        BY <2>3, <3>2 DEF Effect, CarriedOut, req
      <3> HIDE DEF k
      <3>4. effects' = [effects EXCEPT ![a] = [effects[a] EXCEPT ![k] = 1]]
        BY <1>1, <3>1, <3>3
      <3> QED
        BY <1>1, <2>3, <3>4
    <2> QED
      BY <2>1, <2>2, <2>3
  <1>3. \A b \in Actions : Applied(b) => Applied(b)'
    BY <1>1, <1>2 DEF Applied
  <1>4. \A b \in Actions : Applied(b)' => Applied(b) \/ b = a
    BY <1>1, <1>2 DEF Applied
  <1>5. \A b \in Actions : effects'[b]["fresh"] = 0
    BY <1>1, <1>2 DEF ExecIInv, EffectInv, Keys
  <1>6. EffectInv'
    BY <1>3, <1>4, <1>5 DEF ExecIInv, EffectInv, Confirmed
  <1>7. Effect([action |-> a, key |-> k]) => Applied(a)'
    BY <1>1, <1>2 DEF Applied
  <1> QED
    BY <1>2, <1>3, <1>4, <1>6, <1>7

LEMMA OdooKeeps ==
    ASSUME ExecIInv, ExecNext,
           \/ \E w \in Workers : OdooHandles(w)
           \/ \E req \in orphans : OdooHandlesOrphan(req)
    PROVE  ExecIInv'
  <1>1. IInv'
    BY TableKeeps
  <1>2. ASSUME NEW w \in Workers, OdooHandles(w) PROVE ExecIInv'
    <2> DEFINE a == call[w].action
    <2>1. /\ a \in Actions /\ Confirmed(a)
          /\ RequestOf(w) = [action |-> a, key |-> "persisted"]
          /\ stage[w] = "wait"
      BY <1>2 DEF OdooHandles, ExecIInv, ExecTypeOK, IInv, TypeOK, CallInv,
                  RequestOf, KeyFor
    <2>2. /\ Effect([action |-> a, key |-> "persisted"]) \/ UNCHANGED effects
          /\ UNCHANGED <<now, row, call, stage, attempts, orphans>>
      BY <1>2, <2>1 DEF OdooHandles, vars
    <2>3. /\ effects' \in [Actions -> [Keys -> {0, 1}]]
          /\ EffectInv'
          /\ \A b \in Actions : Applied(b) => Applied(b)'
          /\ Effect([action |-> a, key |-> "persisted"]) => Applied(a)'
      BY <2>1, <2>2, EffectKeeps
    <2>4. ExecTypeOK'
      BY <1>2, <2>1, <2>2, <2>3 DEF OdooHandles, ExecIInv, ExecTypeOK
    <2>5. OrphanInv'
      BY <2>2 DEF ExecIInv, OrphanInv, Confirmed
    <2>6. ASSUME NEW v \in Workers PROVE StageInv(v)'
      <3>1. call[v].action \in Actions
            \/ (wire[v] = "silent" /\ stage[v] = "claimed")
        BY DEF ExecIInv, ExecTypeOK, IInv, TypeOK
      <3>2. wire'[v] = "done" => wire[v] = "done" \/ Applied(call[v].action)'
        BY <1>2, <2>1, <2>3 DEF OdooHandles, ExecIInv, ExecTypeOK
      <3>3. wire'[v] = "done" => wire[v] # "silent"
        BY <1>2 DEF OdooHandles, ExecIInv, ExecTypeOK
      <3> QED
        BY <2>2, <2>3, <3>1, <3>2, <3>3 DEF ExecIInv, StageInv
    <2> QED
      BY <1>1, <2>3, <2>4, <2>5, <2>6 DEF ExecIInv
  <1>3. ASSUME NEW req \in orphans, OdooHandlesOrphan(req) PROVE ExecIInv'
    <2> DEFINE a == req.action
    <2>1. /\ a \in Actions /\ Confirmed(a)
          /\ req = [action |-> a, key |-> "persisted"]
      BY DEF ExecIInv, ExecTypeOK, OrphanInv, Requests
    <2>2. /\ Effect([action |-> a, key |-> "persisted"]) \/ UNCHANGED effects
          /\ UNCHANGED <<now, row, call, stage, attempts, wire>>
          /\ orphans' \subseteq orphans
      BY <1>3, <2>1 DEF OdooHandlesOrphan, vars
    <2>3. /\ effects' \in [Actions -> [Keys -> {0, 1}]]
          /\ EffectInv'
          /\ \A b \in Actions : Applied(b) => Applied(b)'
      BY <2>1, <2>2, EffectKeeps
    <2>4. ExecTypeOK'
      BY <2>2, <2>3 DEF ExecIInv, ExecTypeOK
    <2>5. OrphanInv'
      BY <2>2 DEF ExecIInv, OrphanInv, Confirmed
    <2>6. ASSUME NEW v \in Workers PROVE StageInv(v)'
      <3>1. call[v].action \in Actions
            \/ (wire[v] = "silent" /\ stage[v] = "claimed")
        BY DEF ExecIInv, ExecTypeOK, IInv, TypeOK
      <3> QED
        BY <2>2, <2>3, <3>1 DEF ExecIInv, StageInv
    <2> QED
      BY <1>1, <2>3, <2>4, <2>5, <2>6 DEF ExecIInv
  <1> QED
    BY <1>2, <1>3

LEMMA ExecInductive == ExecIInv /\ [ExecNext]_allVars => ExecIInv'
  <1> SUFFICES ASSUME ExecIInv, [ExecNext]_allVars PROVE ExecIInv'
    OBVIOUS
  <1>1. CASE UNCHANGED allVars
    <2>1. IInv'
      BY <1>1, Inductive DEF ExecIInv, allVars
    <2>2. /\ ExecTypeOK' /\ OrphanInv' /\ EffectInv'
          /\ \A w \in Workers : StageInv(w)'
      BY <1>1 DEF ExecIInv, allVars, execVars, vars, ExecTypeOK, OrphanInv,
                  EffectInv, StageInv, Applied, Confirmed
    <2> QED
      BY <2>1, <2>2 DEF ExecIInv
  <1>2. CASE ExecNext
    <2>1. CASE Tick /\ UNCHANGED execVars
      BY <1>2, <2>1, ServiceKeeps
    <2>2. ASSUME NEW w \in Workers, Request(w) /\ UNCHANGED execVars
          PROVE  ExecIInv'
      BY <1>2, <2>2, ServiceKeeps
    <2>3. ASSUME NEW w \in Workers, WorkerStep(w) PROVE ExecIInv'
      <3>1. CASE ServiceStep(w) /\ UNCHANGED execVars
        BY <1>2, <3>1, ServiceKeeps
      <3> QED
        BY <1>2, <2>3, <3>1, NodeKeeps DEF WorkerStep
    <2>4. ASSUME NEW w \in Workers, Abort(w) PROVE ExecIInv'
      BY <1>2, <2>4, NodeKeeps
    <2>5. CASE \/ \E w \in Workers : OdooHandles(w)
               \/ \E req \in orphans : OdooHandlesOrphan(req)
      BY <1>2, <2>5, OdooKeeps
    <2> QED
      BY <1>2, <2>1, <2>2, <2>3, <2>4, <2>5 DEF ExecNext
  <1> QED
    BY <1>1, <1>2

LEMMA ExecInvariance == ExecSpec => []ExecIInv
  BY InitExecIInv, ExecInductive, PTL DEF ExecSpec

-----------------------------------------------------------------------------
(* What follows from the invariant                                         *)

\* Stages, attempts, exchanges and Odoo's records keep their types: in
\* particular no claim makes more than three calls, and Odoo never carries
\* out one key twice.
THEOREM ExecTypeCorrect == ExecSpec => []ExecTypeOK
  BY ExecInvariance, PTL DEF ExecIInv

\* Whatever reaches Odoo, or may still reach it, was confirmed.
THEOREM OnlyConfirmedIsSent == ExecSpec => []NothingSentUnconfirmed
  <1>1. ExecIInv => NothingSentUnconfirmed
    BY DEF ExecIInv, ExecTypeOK, IInv, CallInv, OrphanInv, EffectInv,
           NothingSentUnconfirmed
  <1> QED
    BY <1>1, ExecInvariance, PTL

\* The table says "executed" only of what Odoo did.
THEOREM ExecutedWasApplied == ExecSpec => []ExecutedIsApplied
  <1>1. ExecIInv => ExecutedIsApplied
    BY DEF ExecIInv, EffectInv, ExecutedIsApplied
  <1> QED
    BY <1>1, ExecInvariance, PTL

\* Retries, reclaimed leases and late requests leave one effect per action.
THEOREM OneEffect == ExecSpec => []AtMostOneEffect
  <1>1. ExecIInv => AtMostOneEffect
    <2> SUFFICES ASSUME ExecIInv, NEW a \in Actions
                 PROVE  Cardinality({k \in Keys : effects[a][k] > 0}) <= 1
      BY DEF AtMostOneEffect
    <2>1. effects[a]["fresh"] = 0
      BY DEF ExecIInv, EffectInv
    <2> DEFINE used == {k \in Keys : effects[a][k] > 0}
    <2>2. used = {} \/ used = {"persisted"}
      BY <2>1 DEF Keys
    <2>3. Cardinality({}) = 0 /\ Cardinality({"persisted"}) = 1
      BY FS_EmptySet, FS_Singleton
    <2> HIDE DEF used
    <2>4. Cardinality(used) <= 1
      BY <2>2, <2>3
    <2> QED
      BY <2>4 DEF used
  <1> QED
    BY <1>1, ExecInvariance, PTL

-----------------------------------------------------------------------------
(* The refinement of ActionLifecycle                                       *)

\* The moves of one row that the lifecycle knows.
Moves == {<<"absent", "pending">>, <<"pending", "executing">>,
          <<"pending", "cancelled">>, <<"pending", "expired">>,
          <<"executing", "failed">>, <<"executing", "executed">>}

\* A step of the table changes no status, or that of one action by one move.
StatusMove ==
    \/ \A b \in Actions : row'[b].status = row[b].status
    \/ \E a \in Actions :
          /\ <<row[a].status, row'[a].status>> \in Moves
          /\ \A b \in Actions \ {a} : row'[b].status = row[b].status

LEMMA SetRowMoves ==
    ASSUME TypeOK, NEW a \in Actions, NEW r, SetRow(a, r),
           \/ r.status = row[a].status
           \/ <<row[a].status, r.status>> \in Moves
    PROVE  StatusMove
  BY DEF TypeOK, SetRow, StatusMove

LEMMA UpdateMoves ==
    ASSUME TypeOK, NEW w \in Workers, NEW s,
           call[w].phase \notin {"idle", "insert", "select"},
           NEW from \in {"pending", "executing"}, <<from, s>> \in Moves,
           Matches(call[w].action, call[w].who.user, {from}),
           SetRow(call[w].action, [row[call[w].action] EXCEPT !.status = s])
    PROVE  StatusMove
  <1> PICK a \in Actions : a = call[w].action
    BY DEF TypeOK
  <1>1. row[a].status = from
    BY DEF Matches
  <1>2. row[a] \in Row
    BY <1>1 DEF TypeOK, Absent
  <1>3. [row[a] EXCEPT !.status = s].status = s
    BY <1>2 DEF Row
  <1> QED
    BY <1>1, <1>3, SetRowMoves

LEMMA TableMoves ==
    ASSUME TypeOK, [Next]_vars
    PROVE  StatusMove
  <1>1. CASE UNCHANGED row
    BY <1>1 DEF StatusMove
  <1>2. ASSUME NEW w \in Workers, Insert(w) PROVE StatusMove
    BY <1>2, SetRowMoves DEF Insert, Moves
  <1>3. ASSUME NEW w \in Workers, ConfirmRow(w) PROVE StatusMove
    <2>1. CASE ~UNCHANGED row
      <3> PICK a \in Actions : a = call[w].action
        BY <1>3 DEF ConfirmRow, Ready, TypeOK
      <3> DEFINE r == [row[a] EXCEPT !.status = "executing",
                                     !.confirmedAt = call[w].at,
                                     !.executingAt = call[w].at]
      <3>1. row[a].status = "pending" /\ SetRow(a, r)
        BY <1>3, <2>1 DEF ConfirmRow, Matches
      <3>2. row[a] \in Row
        BY <3>1 DEF TypeOK, Absent
      <3>3. r.status = "executing"
        BY <3>2 DEF Row
      <3> HIDE DEF r
      <3> QED
        BY <3>1, <3>3, SetRowMoves DEF Moves
    <2> QED
      BY <1>1, <2>1
  <1>4. ASSUME NEW w \in Workers, ReclaimRow(w) PROVE StatusMove
    <2>1. CASE ~UNCHANGED row
      <3> PICK a \in Actions : a = call[w].action
        BY <1>4 DEF ReclaimRow, Ready, TypeOK
      <3> DEFINE r == [row[a] EXCEPT !.executingAt = call[w].at]
      <3>1. row[a].status = "executing" /\ SetRow(a, r)
        BY <1>4, <2>1 DEF ReclaimRow, Matches
      <3>2. row[a] \in Row
        BY <3>1 DEF TypeOK, Absent
      <3>3. r.status = row[a].status
        BY <3>2 DEF Row
      <3> HIDE DEF r
      <3> QED
        BY <3>1, <3>3, SetRowMoves
    <2> QED
      BY <1>1, <2>1
  <1>5. ASSUME NEW w \in Workers, ExpireRow(w) PROVE StatusMove
    BY <1>1, <1>5, UpdateMoves DEF ExpireRow, Moves
  <1>6. ASSUME NEW w \in Workers, CancelRow(w) PROVE StatusMove
    BY <1>1, <1>6, UpdateMoves DEF CancelRow, Ready, Moves
  <1>7. ASSUME NEW w \in Workers, DiscardRow(w) PROVE StatusMove
    <2>1. CASE ~UNCHANGED row
      <3>1. Matches(call[w].action, call[w].who.user, {"pending"})
        BY <1>7, <2>1 DEF DiscardRow, Ready, Matches, TypeOK
      <3> QED
        BY <1>7, <2>1, <3>1, UpdateMoves DEF DiscardRow, Ready, Moves
    <2> QED
      BY <1>1, <2>1
  <1>8. ASSUME NEW w \in Workers, NEW to \in {"executed", "failed"},
               FinishRow(w, to)
        PROVE  StatusMove
    BY <1>1, <1>8, UpdateMoves DEF FinishRow, Moves
  <1> QED
    BY <1>1, <1>2, <1>3, <1>4, <1>5, <1>6, <1>7, <1>8
       DEF Next, ServiceStep, Tick, Request, Enter, Crash, vars, ReadClaim,
           ReadOwned, SelectActive

\* The table and Odoo never move in one step; Odoo does one action at a time,
\* and only one that was confirmed.
LEMMA OdooMoves ==
    ASSUME ExecIInv, [ExecNext]_allVars
    PROVE  \/ UNCHANGED effects
           \/ /\ UNCHANGED row
              /\ \E a \in Actions :
                    /\ row[a].status \in {"executing", "executed", "failed"}
                    /\ \A b \in Actions : Applied(b) => Applied(b)'
                    /\ \A b \in Actions : Applied(b)' => Applied(b) \/ b = a
  <1>1. ASSUME NEW w \in Workers, OdooHandles(w), ~UNCHANGED effects
        PROVE  /\ UNCHANGED row
               /\ \E a \in Actions :
                     /\ Confirmed(a)
                     /\ Effect([action |-> a, key |-> "persisted"])
    BY <1>1 DEF OdooHandles, vars, ExecIInv, ExecTypeOK, IInv, TypeOK, CallInv,
                RequestOf, KeyFor
  <1>2. ASSUME NEW req \in orphans, OdooHandlesOrphan(req), ~UNCHANGED effects
        PROVE  /\ UNCHANGED row
               /\ \E a \in Actions :
                     /\ Confirmed(a)
                     /\ Effect([action |-> a, key |-> "persisted"])
    <2>1. /\ req.action \in Actions /\ Confirmed(req.action)
          /\ req = [action |-> req.action, key |-> "persisted"]
      BY DEF ExecIInv, ExecTypeOK, OrphanInv, Requests
    <2> QED
      BY <1>2, <2>1 DEF OdooHandlesOrphan, vars
  <1>3. ASSUME NEW a \in Actions, Confirmed(a), UNCHANGED row,
               Effect([action |-> a, key |-> "persisted"])
        PROVE  /\ \A b \in Actions : Applied(b) => Applied(b)'
               /\ \A b \in Actions : Applied(b)' => Applied(b) \/ b = a
    BY <1>3, EffectKeeps
  <1>4. \/ UNCHANGED effects
        \/ \E w \in Workers : OdooHandles(w)
        \/ \E req \in orphans : OdooHandlesOrphan(req)
    BY DEF ExecNext, allVars, execVars, WorkerStep, Prepare, Send, Answered,
           Transient, RetriesExhausted, Unclear, ProfileCallRaises, Finish,
           Abort
  <1> QED
    BY <1>1, <1>2, <1>3, <1>4 DEF Confirmed

\* What the service does is what it promises, action by action: rows move
\* along the lifecycle, and Odoo carries out only what was confirmed.
THEOREM LifecycleImplemented == ExecSpec => ImplementsLifecycle
  <1> DEFINE status == [a \in Actions |-> row[a].status]
             carried == {a \in Actions : Applied(a)}
  <1>1. ExecInit => Promise!Init
    BY DEF ExecInit, Init, Absent, Applied, Promise!Init
  <1>2. ExecIInv /\ [ExecNext]_allVars => [Promise!Next]_(Promise!vars)
    <2> SUFFICES ASSUME ExecIInv, [ExecNext]_allVars
                 PROVE  [Promise!Next]_(Promise!vars)
      OBVIOUS
    <2>1. ExecIInv'
      BY ExecInductive
    <2>2. CASE UNCHANGED effects
      <3>1. \A a \in Actions : Applied(a)' <=> Applied(a)
        BY <2>2 DEF Applied
      <3>2. carried' = carried
        BY <3>1
      <3>3. StatusMove
        <4>1. [Next]_vars
          BY TableSteps DEF allVars
        <4> QED
          BY <4>1, TableMoves DEF ExecIInv, IInv
      <3>4. CASE \A b \in Actions : row'[b].status = row[b].status
        BY <3>2, <3>4 DEF Promise!vars
      <3>5. ASSUME NEW a \in Actions,
                   <<row[a].status, row'[a].status>> \in Moves,
                   \A b \in Actions \ {a} : row'[b].status = row[b].status
            PROVE  Promise!Next
        <4>1. /\ status[a] = row[a].status
              /\ status' = [status EXCEPT ![a] = row'[a].status]
          BY <3>5
        <4>2. row'[a].status = "executed" => a \in carried
          BY <2>1, <3>1 DEF ExecIInv, EffectInv
        <4> HIDE DEF status, carried
        <4> QED
          BY <3>2, <3>5, <4>1, <4>2
             DEF Moves, status, carried, Promise!Next, Promise!Create,
                 Promise!Confirm, Promise!Cancel, Promise!Expire,
                 Promise!Fail, Promise!Execute, Promise!Move
      <3> QED
        BY <3>3, <3>4, <3>5 DEF StatusMove
    <2>3. ASSUME NEW a \in Actions, UNCHANGED row,
                 row[a].status \in {"executing", "executed", "failed"},
                 \A b \in Actions : Applied(b) => Applied(b)',
                 \A b \in Actions : Applied(b)' => Applied(b) \/ b = a
          PROVE  [Promise!Next]_(Promise!vars)
      <3>1. status' = status
        BY <2>3
      <3>2. CASE Applied(a)' => Applied(a)
        <4>1. carried' = carried
          BY <2>3, <3>2
        <4> QED
          BY <3>1, <4>1 DEF Promise!vars
      <3>3. CASE Applied(a)' /\ ~Applied(a)
        <4>1. carried' = carried \cup {a}
          BY <2>3, <3>3
        <4>2. status[a] \in {"executing", "failed"} /\ a \notin carried
          BY <2>3, <3>3 DEF ExecIInv, EffectInv
        <4> QED
          BY <3>1, <4>1, <4>2 DEF Promise!Next, Promise!CarryOut
      <3> QED
        BY <3>2, <3>3
    <2> QED
      BY <2>2, <2>3, OdooMoves
  <1> QED
    BY <1>1, <1>2, ExecInvariance, PTL
       DEF ExecSpec, ImplementsLifecycle, Promise!Spec
=============================================================================
