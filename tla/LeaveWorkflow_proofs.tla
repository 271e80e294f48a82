------------------------ MODULE LeaveWorkflow_proofs ------------------------
(***************************************************************************)
(* The leave workflows for any dates, requests, leave types and queries: a *)
(* card is about the request that was looked up, carries the answers the   *)
(* employee gave, as a change that can be applied, and what was answered   *)
(* is not asked again.                                                     *)
(*                                                                         *)
(* The arguments are computed afresh in every turn, from what the row has, *)
(* what was selected and what the message says.  LeaveIInv relates these   *)
(* to the answers accepted so far (told), in the row and at each stage of  *)
(* a turn.                                                                 *)
(***************************************************************************)
EXTENDS LeaveWorkflow, TLAPS

Creates(tool) == tool = "leave_create_request"
Updates(tool) == tool = "leave_update_request"

\* The changes collected are what differs of the answers, and can be applied.
Collected(data, tell) ==
    /\ data.snap # None
    /\ data.patch = Differing(data.snap, tell.said)
    /\ InOrder(With(data.patch, Original[data.snap]))

\* The changes among the arguments are those the model extracted, or those
\* collected.  A workflow of low confidence never makes a card.
Kept(args, data, tell) ==
    "changes" \in DOMAIN args /\ ~data.low
        => \/ args["changes"] = tell.extracted
           \/ data.patch # NoChanges /\ args["changes"] = data.patch

\* Where it is still open what is to be changed, nothing is, before the
\* details of the request are there.
StillOpen(args, data) ==
    data.snap = None
        /\ (data.multi \/ data.field \in {"changes", "changes_multi"})
        => "changes" \notin DOMAIN args

\* What holds of arguments and workflow data, in the row and in a turn.
Consistent(tool, args, data, tell) ==
    /\ tool \in Tools
    /\ args \in Arguments[tool]
    /\ Creates(tool) =>
         /\ data.snap = None
         /\ args = tell.said
         /\ data.field \notin DOMAIN args
    /\ data.patch # NoChanges => Updates(tool) /\ Collected(data, tell)
    /\ data.patch = NoChanges /\ ~Creates(tool) => tell.said = NoChanges
    /\ Updates(tool) => Kept(args, data, tell) /\ StillOpen(args, data)
    /\ data.field = "request_id" => data.snap = None
    /\ ~Creates(tool) /\ data.snap = None
            /\ data.field \in {"request_id", None}
         => data.options.ids \subseteq Requests \cup People

\* The request that was looked up is the one selected and the one among the
\* arguments.
Selected(args, data) ==
    data.snap # None =>
        /\ data.ref = data.snap
        /\ "request_id" \in DOMAIN args
        /\ args["request_id"] = data.snap

RowOK ==
    row.status = "awaiting" =>
        /\ Consistent(row.tool, row.args, row.data, told)
        /\ Selected(row.args, row.data)
        /\ Updates(row.tool) /\ row.data.multi /\ ~row.data.low
             => "changes" \notin DOMAIN row.args
        /\ Asked \in {"changes", "changes_multi"}
             => row.data.options.ids \subseteq
                    ChangeFields \cup {"multiple", "done"}

TurnOK ==
    turn.at # "idle" =>
        /\ Consistent(turn.tool, turn.args, turn.data, turn.told)
        /\ turn.asks => ~turn.data.multi
        /\ turn.at \in {"list", "details"}
             => turn.data.snap = None /\ ~Creates(turn.tool)
        /\ turn.at = "details" => turn.trust # None
        /\ turn.at = "fill" /\ turn.data.snap # None
             => turn.trust = turn.data.snap /\ turn.data.ref = turn.data.snap
        /\ turn.at = "validate" => Selected(turn.args, turn.data)

CardOK ==
    /\ turn.at # "idle" \/ row.status = "awaiting" => card.tool = None
    /\ card.snap # None =>
         "request_id" \in DOMAIN card.args /\ card.args["request_id"] = card.snap
    /\ Creates(card.tool) => card.args = told.said
    /\ Updates(card.tool) =>
         \/ card.args["changes"] = told.extracted
         \/ /\ card.snap # None
            /\ card.args["changes"] # NoChanges
            /\ card.args["changes"] = Differing(card.snap, told.said)
            /\ InOrder(With(card.args["changes"], Original[card.snap]))

LeaveIInv == LeaveTypeOK /\ RowOK /\ TurnOK /\ CardOK

-----------------------------------------------------------------------------
(* Lemmas about dictionaries                                               *)

\* The members of Changes, without the set of all dictionaries.
IsChanges(d) ==
    /\ d = [f \in DOMAIN d |-> d[f]]
    /\ DOMAIN d \subseteq ChangeFields
    /\ \A f \in DOMAIN d : d[f] \in Values(f)

LEMMA ChangesAre == ASSUME NEW d \in Changes PROVE IsChanges(d)
BY DEF Changes, PartialOver, IsChanges

LEMMA AreChanges == ASSUME NEW d, IsChanges(d) PROVE d \in Changes
<1> DEFINE All == UNION {Values(f) : f \in ChangeFields}
<1>1. \A f \in DOMAIN d : d[f] \in All
  BY DEF IsChanges
<1>2. d \in [DOMAIN d -> All]
  <2> HIDE DEF All
  <2> QED BY <1>1 DEF IsChanges
<1>3. d \in UNION {[K -> All] : K \in SUBSET ChangeFields}
  <2> HIDE DEF All
  <2> QED BY <1>2 DEF IsChanges
<1> QED BY <1>3 DEF IsChanges, Changes, PartialOver

LEMMA NoChangesAre == NoChanges \in Changes
<1>1. IsChanges(NoChanges)
  BY DEF IsChanges, NoChanges
<1> QED BY <1>1, AreChanges

LEMMA PutIsChanges ==
    ASSUME NEW d \in Changes, NEW f \in ChangeFields, NEW v \in Values(f)
    PROVE  Put(d, f, v) \in Changes
<1>1. IsChanges(d)
  BY ChangesAre
<1>2. IsChanges(Put(d, f, v))
  BY <1>1 DEF IsChanges, Put
<1> QED BY <1>2, AreChanges

LEMMA OnlyIsChanges ==
    ASSUME NEW f \in ChangeFields, NEW v \in Values(f)
    PROVE  Only(f, v) \in Changes
<1>1. IsChanges(Only(f, v))
  BY DEF IsChanges, Only
<1> QED BY <1>1, AreChanges

LEMMA WithoutIsChanges ==
    ASSUME NEW d \in Changes, NEW k
    PROVE  /\ Without(d, k) \in Changes
           /\ k \notin DOMAIN d => Without(d, k) = d
<1>1. IsChanges(d)
  BY ChangesAre
<1>2. IsChanges(Without(d, k))
  BY <1>1 DEF IsChanges, Without
<1>3. k \notin DOMAIN d => Without(d, k) = d
  BY <1>1 DEF IsChanges, Without
<1> QED BY <1>2, <1>3, AreChanges

LEMMA DifferingIsChanges ==
    ASSUME NEW r, NEW d \in Changes
    PROVE  Differing(r, d) \in Changes
<1>1. IsChanges(d)
  BY ChangesAre
<1>2. IsChanges(Differing(r, d))
  BY <1>1 DEF IsChanges, Differing
<1> QED BY <1>2, AreChanges

LEMMA PatchIsChanges ==
    ASSUME NEW r, NEW d \in Changes
    PROVE  ValidatedPatch(r, d) \in Changes
BY DifferingIsChanges, NoChangesAre DEF ValidatedPatch

\* What differs of what differs, and of one more answer on top of it.
LEMMA DifferingTwice ==
    ASSUME NEW r, NEW d
    PROVE  Differing(r, Differing(r, d)) = Differing(r, d)
BY DEF Differing

LEMMA DifferingPut ==
    ASSUME NEW r, NEW d, NEW f, NEW v
    PROVE  Differing(r, Put(Differing(r, d), f, v)) = Differing(r, Put(d, f, v))
<1> DEFINE p == Differing(r, d)
           a == Put(p, f, v)
           b == Put(d, f, v)
<1>1. /\ DOMAIN p = {x \in DOMAIN d : d[x] # Original[r][x]}
      /\ \A x \in DOMAIN p : p[x] = d[x]
  BY DEF Differing
<1>2. /\ DOMAIN a = DOMAIN p \cup {f} /\ DOMAIN b = DOMAIN d \cup {f}
      /\ a[f] = v /\ b[f] = v
      /\ \A x \in DOMAIN p \ {f} : a[x] = p[x]
      /\ \A x \in DOMAIN d \ {f} : b[x] = d[x]
  BY DEF Put
<1> HIDE DEF p, a, b
<1>3. {x \in DOMAIN a : a[x] # Original[r][x]}
        = {x \in DOMAIN b : b[x] # Original[r][x]}
  BY <1>1, <1>2
<1>4. \A x \in {y \in DOMAIN b : b[y] # Original[r][y]} : a[x] = b[x]
  BY <1>1, <1>2
<1>5. Differing(r, a) = Differing(r, b)
  BY <1>3, <1>4 DEF Differing
<1> QED BY <1>5 DEF a, b, p

\* A patch that is not empty.
LEMMA PatchFacts ==
    ASSUME NEW r, NEW d, ValidatedPatch(r, d) # NoChanges
    PROVE  /\ ValidatedPatch(r, d) = Differing(r, d)
           /\ InOrder(With(Differing(r, d), Original[r]))
BY DEF ValidatedPatch

\* The arguments of the two tools that work on a request.
IsUpdate(a) ==
    /\ a = [x \in DOMAIN a |-> a[x]]
    /\ DOMAIN a \subseteq {"request_id", "changes"}
    /\ "request_id" \in DOMAIN a => a["request_id"] \in Requests \cup People
    /\ "changes" \in DOMAIN a => a["changes"] \in Changes

LEMMA UpdatesAre ==
    ASSUME NEW a
    PROVE  a \in Arguments["leave_update_request"] <=> IsUpdate(a)
<1> DEFINE All == Requests \cup People \cup Changes
<1>1. ASSUME IsUpdate(a) PROVE a \in UNION {[K -> All] :
                                    K \in SUBSET {"request_id", "changes"}}
  <2>1. \A x \in DOMAIN a : a[x] \in All
    BY <1>1 DEF IsUpdate
  <2>2. a \in [DOMAIN a -> All]
    BY <1>1, <2>1 DEF IsUpdate
  <2> QED BY <1>1, <2>2 DEF IsUpdate
<1>2. ASSUME a \in UNION {[K -> All] : K \in SUBSET {"request_id", "changes"}}
      PROVE  a = [x \in DOMAIN a |-> a[x]] /\ DOMAIN a \subseteq {"request_id", "changes"}
  BY <1>2
<1>3. Arguments["leave_update_request"] =
        {d \in UNION {[K -> All] : K \in SUBSET {"request_id", "changes"}} :
            /\ "request_id" \in DOMAIN d => d["request_id"] \in Requests \cup People
            /\ "changes" \in DOMAIN d => d["changes"] \in Changes}
  BY DEF Arguments
<1> HIDE DEF All
<1> QED BY <1>1, <1>2, <1>3 DEF IsUpdate

LEMMA CancelsAre ==
    ASSUME NEW a
    PROVE  a \in Arguments["leave_cancel_request"]
             <=> IsUpdate(a) /\ "changes" \notin DOMAIN a
<1> DEFINE All == Requests \cup People
<1>1. Arguments["leave_cancel_request"] =
        UNION {[K -> All] : K \in SUBSET {"request_id"}}
  BY DEF Arguments
<1>2. ASSUME IsUpdate(a), "changes" \notin DOMAIN a
      PROVE  a \in UNION {[K -> All] : K \in SUBSET {"request_id"}}
  <2>1. DOMAIN a \subseteq {"request_id"} /\ \A x \in DOMAIN a : a[x] \in All
    BY <1>2 DEF IsUpdate
  <2>2. a \in [DOMAIN a -> All]
    BY <1>2, <2>1 DEF IsUpdate
  <2> QED BY <2>1, <2>2
<1>3. ASSUME a \in UNION {[K -> All] : K \in SUBSET {"request_id"}}
      PROVE  IsUpdate(a) /\ "changes" \notin DOMAIN a
  <2>1. PICK K \in SUBSET {"request_id"} : a \in [K -> All]
    BY <1>3
  <2>2. /\ a = [x \in DOMAIN a |-> a[x]] /\ DOMAIN a \subseteq {"request_id"}
        /\ \A x \in DOMAIN a : a[x] \in All
    BY <2>1
  <2>3. "changes" \notin DOMAIN a
    BY <2>2
  <2> QED BY <2>2, <2>3 DEF IsUpdate
<1> HIDE DEF All
<1> QED BY <1>1, <1>2, <1>3

LEMMA CreatesAre == Arguments["leave_create_request"] = Changes
BY DEF Arguments

LEMMA NoArguments ==
    ASSUME NEW tool \in Tools PROVE <<>> \in Arguments[tool]
<1>1. IsUpdate(<<>>) /\ "changes" \notin DOMAIN <<>>
  BY DEF IsUpdate
<1>2. <<>> \in Changes
  BY NoChangesAre DEF NoChanges
<1> QED BY <1>1, <1>2, UpdatesAre, CancelsAre, CreatesAre DEF Tools

LEMMA PutRequest ==
    ASSUME NEW tool \in Tools, NEW a \in Arguments[tool], ~Creates(tool),
           NEW r \in Requests \cup People
    PROVE  /\ Put(a, "request_id", r) \in Arguments[tool]
           /\ "request_id" \in DOMAIN Put(a, "request_id", r)
           /\ Put(a, "request_id", r)["request_id"] = r
           /\ "changes" \in DOMAIN Put(a, "request_id", r)
                <=> "changes" \in DOMAIN a
           /\ "changes" \in DOMAIN a
                => Put(a, "request_id", r)["changes"] = a["changes"]
<1> DEFINE b == Put(a, "request_id", r)
<1>1. IsUpdate(a) /\ (tool = "leave_cancel_request" => "changes" \notin DOMAIN a)
  BY UpdatesAre, CancelsAre DEF Tools, Creates
<1>2. /\ DOMAIN b = DOMAIN a \cup {"request_id"} /\ b["request_id"] = r
      /\ b = [x \in DOMAIN b |-> b[x]]
      /\ \A x \in DOMAIN a \ {"request_id"} : b[x] = a[x]
  BY DEF Put
<1> HIDE DEF b
<1>3. IsUpdate(b) /\ (tool = "leave_cancel_request" => "changes" \notin DOMAIN b)
  BY <1>1, <1>2 DEF IsUpdate
<1>4. b \in Arguments[tool]
  BY <1>3, UpdatesAre, CancelsAre DEF Tools, Creates
<1>5. /\ "changes" \in DOMAIN b <=> "changes" \in DOMAIN a
      /\ "changes" \in DOMAIN a => b["changes"] = a["changes"]
  BY <1>2
<1> QED BY <1>2, <1>4, <1>5 DEF b

LEMMA PutChanges ==
    ASSUME NEW a \in Arguments["leave_update_request"], NEW c \in Changes
    PROVE  /\ Put(a, "changes", c) \in Arguments["leave_update_request"]
           /\ "changes" \in DOMAIN Put(a, "changes", c)
           /\ Put(a, "changes", c)["changes"] = c
           /\ "request_id" \in DOMAIN Put(a, "changes", c)
                <=> "request_id" \in DOMAIN a
           /\ "request_id" \in DOMAIN a
                => Put(a, "changes", c)["request_id"] = a["request_id"]
<1> DEFINE b == Put(a, "changes", c)
<1>1. IsUpdate(a)
  BY UpdatesAre
<1>2. /\ DOMAIN b = DOMAIN a \cup {"changes"} /\ b["changes"] = c
      /\ b = [x \in DOMAIN b |-> b[x]]
      /\ \A x \in DOMAIN a \ {"changes"} : b[x] = a[x]
  BY DEF Put
<1> HIDE DEF b
<1>3. IsUpdate(b)
  BY <1>1, <1>2 DEF IsUpdate
<1>4. /\ "request_id" \in DOMAIN b <=> "request_id" \in DOMAIN a
      /\ "request_id" \in DOMAIN a => b["request_id"] = a["request_id"]
  BY <1>2
<1> QED BY <1>2, <1>3, <1>4, UpdatesAre DEF b

LEMMA WithoutRequest ==
    ASSUME NEW tool \in Tools, NEW a \in Arguments[tool]
    PROVE  /\ Without(a, "request_id") \in Arguments[tool]
           /\ DOMAIN Without(a, "request_id") = DOMAIN a \ {"request_id"}
           /\ "changes" \in DOMAIN a
                => Without(a, "request_id")["changes"] = a["changes"]
           /\ Creates(tool) => Without(a, "request_id") = a
<1> DEFINE b == Without(a, "request_id")
<1>1. /\ DOMAIN b = DOMAIN a \ {"request_id"}
      /\ b = [x \in DOMAIN b |-> b[x]]
      /\ \A x \in DOMAIN a \ {"request_id"} : b[x] = a[x]
  BY DEF Without
<1>2. ASSUME Creates(tool) PROVE b \in Arguments[tool] /\ b = a
  <2>1. a \in Changes
    BY <1>2, CreatesAre DEF Creates
  <2>2. "request_id" \notin DOMAIN a
    BY <2>1, ChangesAre DEF IsChanges, ChangeFields
  <2> QED BY <1>2, <2>1, <2>2, WithoutIsChanges, CreatesAre DEF Creates
<1>3. ASSUME ~Creates(tool) PROVE b \in Arguments[tool]
  <2> HIDE DEF b
  <2>1. IsUpdate(a) /\ (tool = "leave_cancel_request" => "changes" \notin DOMAIN a)
    BY <1>3, UpdatesAre, CancelsAre DEF Tools, Creates
  <2>2. IsUpdate(b) /\ (tool = "leave_cancel_request" => "changes" \notin DOMAIN b)
    BY <1>1, <2>1 DEF IsUpdate
  <2> QED BY <1>3, <2>2, UpdatesAre, CancelsAre DEF Tools, Creates
<1> HIDE DEF b
<1> QED BY <1>1, <1>2, <1>3 DEF b

\* The next slot is one of the tool's that has no value.
LEMMA NextIsMissing ==
    ASSUME NEW tool \in Tools, NEW args
    PROVE  /\ NextSlot(tool, args) = None
                \/ NextSlot(tool, args) \notin DOMAIN args
           /\ Creates(tool) => NextSlot(tool, args) \in ChangeFields \cup {None}
           /\ ~Creates(tool) =>
                /\ NextSlot(tool, args) \in {"request_id", "changes", None}
                /\ Missing(tool, args) = {} => "request_id" \in DOMAIN args
           /\ Updates(tool) /\ Missing(tool, args) = {}
                => "changes" \in DOMAIN args
           /\ Updates(tool) /\ Missing(tool, args) # {}
                => "request_id" \notin DOMAIN args \/ "changes" \notin DOMAIN args
<1> DEFINE M == Missing(tool, args)
<1>1. /\ Creates(tool) => DOMAIN Slots[tool] = 1 .. 4
      /\ Updates(tool) => DOMAIN Slots[tool] = 1 .. 2
      /\ ~Creates(tool) /\ ~Updates(tool) => DOMAIN Slots[tool] = 1 .. 1
  BY DEF Slots, Tools, Creates, Updates
<1>2. M \subseteq 1 .. 4
  BY <1>1 DEF Missing
<1>3. ASSUME M # {}
      PROVE  \E i \in M : NextSlot(tool, args) = Slots[tool][i]
  <2>1. \E i \in M : \A j \in M : i <= j
    <3>1. CASE 1 \in M
      BY <1>2, <3>1
    <3>2. CASE 1 \notin M /\ 2 \in M
      BY <1>2, <3>2
    <3>3. CASE 1 \notin M /\ 2 \notin M /\ 3 \in M
      BY <1>2, <3>3
    <3>4. CASE M = {4}
      BY <3>4
    <3> QED BY <1>2, <1>3, <3>1, <3>2, <3>3, <3>4
  <2> DEFINE i == CHOOSE k \in M : \A j \in M : k <= j
  <2>2. i \in M
    BY <2>1
  <2>3. NextSlot(tool, args) = Slots[tool][i]
    BY <1>3 DEF NextSlot
  <2> QED BY <2>2, <2>3
<1>4. M = {} => NextSlot(tool, args) = None
  BY DEF NextSlot
<1>5. \A i \in M : Slots[tool][i] \notin DOMAIN args
  BY DEF Missing
<1>6. \A i \in M : /\ Creates(tool) => Slots[tool][i] \in ChangeFields
                   /\ ~Creates(tool) => Slots[tool][i] \in {"request_id", "changes"}
  BY <1>1, <1>2 DEF Slots, Tools, Creates, Updates, ChangeFields, Missing
<1>7. ~Creates(tool) /\ M = {} => "request_id" \in DOMAIN args
  <2>1. ~Creates(tool) => 1 \in DOMAIN Slots[tool] /\ Slots[tool][1] = "request_id"
    BY DEF Slots, Tools, Creates
  <2> QED BY <2>1 DEF Missing
<1>8. Updates(tool) /\ M = {} => "changes" \in DOMAIN args
  <2>1. Updates(tool) => 2 \in DOMAIN Slots[tool] /\ Slots[tool][2] = "changes"
    BY DEF Slots, Updates
  <2> QED BY <2>1 DEF Missing
<1>9. Updates(tool) => ~Creates(tool)
  BY DEF Updates, Creates
<1> HIDE DEF M
<1>10. ASSUME M # {} PROVE /\ NextSlot(tool, args) \notin DOMAIN args
                           /\ Creates(tool) => NextSlot(tool, args) \in ChangeFields
                           /\ ~Creates(tool) => NextSlot(tool, args) \in {"request_id", "changes"}
                           /\ ~Creates(tool) => \/ "request_id" \notin DOMAIN args
                                                \/ "changes" \notin DOMAIN args
  BY <1>10, <1>3, <1>5, <1>6
<1> QED BY <1>4, <1>7, <1>8, <1>9, <1>10 DEF M

-----------------------------------------------------------------------------
(* An answer: the turn goes on with what was merged                        *)

LEMMA GoOnKeeps ==
    ASSUME NEW text \in BOOLEAN, NEW args, NEW data \in Data, NEW tell \in Told,
           LeaveIInv, turn.at = "idle", row.status = "awaiting",
           Consistent(row.tool, args, data, tell), Selected(args, data),
           GoOn(text, args, data, tell)
    PROVE  LeaveIInv'
<1> DEFINE known == "request_id" \in DOMAIN args
                      /\ \/ args["request_id"] \in data.options.ids
                         \/ args["request_id"] = data.ref
           trust == IF known /\ row.tool # "leave_create_request"
                    THEN args["request_id"] ELSE None
           at == IF trust # None /\ data.snap = None THEN "details" ELSE "fill"
<1>1. /\ turn' = [at |-> at, text |-> text, tool |-> row.tool, args |-> args,
                  data |-> data, memory |-> row.memory, trust |-> trust,
                  asks |-> FALSE, told |-> tell]
      /\ row' = row /\ card' = card /\ told' = told
  BY DEF GoOn
<1>2. row.tool \in Tools /\ args \in Arguments[row.tool]
  BY DEF Consistent
<1>3. row.tool # "leave_create_request" /\ "request_id" \in DOMAIN args
        => args["request_id"] \in Requests \cup People
  BY <1>2, UpdatesAre, CancelsAre DEF Tools, IsUpdate
<1>4. trust \in Requests \cup People \cup {None}
  BY <1>3
<1>5. data.snap # None => trust = data.snap /\ data.ref = data.snap
  BY DEF Selected, Consistent, Creates
<1>6. trust # None => ~Creates(row.tool)
  BY DEF Creates
<1> HIDE DEF trust, known
<1>7. LeaveTypeOK'
  <2>1. /\ row.memory \in SUBSET Requests
        /\ row.args \in UNION {Arguments[t] : t \in Tools}
    BY DEF LeaveIInv, LeaveTypeOK
  <2>2. args \in UNION {Arguments[t] : t \in Tools}
    BY <1>2
  <2> QED BY <1>1, <1>2, <1>4, <2>1, <2>2 DEF LeaveIInv, LeaveTypeOK
<1>8. RowOK'
  <2>1. RowOK
    BY DEF LeaveIInv
  <2> QED BY <1>1, <2>1 DEF RowOK, Asked, Consistent, Collected, Kept,
              StillOpen, Selected
<1>9. TurnOK'
  <2>1. Consistent(turn'.tool, turn'.args, turn'.data, turn'.told)
    BY <1>1
  <2>2. /\ turn'.asks = FALSE
        /\ turn'.at \in {"details", "fill"}
        /\ turn'.at = "details" => trust # None /\ data.snap = None
        /\ turn'.data = data /\ turn'.trust = trust /\ turn'.tool = row.tool
    BY <1>1
  <2> QED BY <1>5, <1>6, <2>1, <2>2 DEF TurnOK, Consistent, Collected, Kept,
              StillOpen
<1>10. CardOK'
  <2>1. card.tool = None /\ CardOK
    BY DEF LeaveIInv, CardOK
  <2> QED BY <1>1, <2>1 DEF CardOK
<1> QED BY <1>7, <1>8, <1>9, <1>10 DEF LeaveIInv

LEMMA ResolvedIs ==
    ASSUME NEW d \in Data
    PROVE  /\ Resolved(d) \in Data
           /\ Resolved(d).field = None /\ Resolved(d).options.ids = {}
           /\ Resolved(d).snap = d.snap /\ Resolved(d).patch = d.patch
           /\ Resolved(d).ref = d.ref /\ Resolved(d).low = d.low
           /\ Resolved(d).multi = d.multi
BY DEF Resolved, Data, Dates, Options, NoOffer, Offer

\* The patch after one more answer is what differs of all the answers.
LEMMA OneMoreAnswer ==
    ASSUME NEW r, NEW patch, NEW said, NEW f, NEW v,
           patch = NoChanges => said = NoChanges,
           patch # NoChanges => patch = Differing(r, said),
           ValidatedPatch(r, Put(patch, f, v)) # NoChanges
    PROVE  LET p == ValidatedPatch(r, Put(patch, f, v))
           IN  /\ p = Differing(r, Put(said, f, v))
               /\ InOrder(With(p, Original[r]))
<1>1. Differing(r, Put(patch, f, v)) = Differing(r, Put(said, f, v))
  BY DifferingPut
<1> QED BY <1>1, PatchFacts

\* What the row has, for the answers.
LEMMA RowFacts ==
    ASSUME LeaveIInv, row.status = "awaiting"
    PROVE  /\ row.data \in Data /\ told \in Told
           /\ row.tool \in Tools /\ row.args \in Arguments[row.tool]
           /\ Consistent(row.tool, row.args, row.data, told)
           /\ Selected(row.args, row.data)
BY DEF LeaveIInv, LeaveTypeOK, RowOK, Consistent

LEMMA UnresolvedKeeps ==
    ASSUME NEW text \in BOOLEAN, LeaveIInv, turn.at = "idle",
           row.status = "awaiting", Unresolved(text)
    PROVE  LeaveIInv'
BY RowFacts, GoOnKeeps DEF Unresolved

\* The arguments go with new workflow data that keeps the request, the patch
\* and what was asked for; nothing was told.
LEMMA NothingToldKeeps ==
    ASSUME NEW text \in BOOLEAN, NEW data \in Data, LeaveIInv,
           turn.at = "idle", Open("leave_update_request"),
           GoOn(text, row.args, data, told),
           data.snap = row.data.snap, data.patch = row.data.patch,
           data.ref = row.data.ref, data.low = row.data.low,
           StillOpen(row.args, data), data.field # "request_id",
           data.field = None => data.options.ids = {}
    PROVE  LeaveIInv'
<1>1. row.status = "awaiting" /\ Updates(row.tool) /\ ~Creates(row.tool)
  BY DEF Open, Updates, Creates
<1>2. Consistent(row.tool, row.args, data, told) /\ Selected(row.args, data)
  BY <1>1, RowFacts DEF Consistent, Collected, Kept, Selected
<1> QED BY <1>1, <1>2, RowFacts, GoOnKeeps

LEMMA ValueKeeps ==
    ASSUME NEW text \in BOOLEAN, NEW f \in ChangeFields, NEW v \in Values(f),
           LeaveIInv, Asked = f, ValueAnswer(text, f, v)
    PROVE  LeaveIInv'
<1> DEFINE d == row.data
           tell == [told EXCEPT !.said = Put(@, f, v)]
<1>1. turn.at = "idle" /\ row.status = "awaiting"
  BY DEF ValueAnswer, Open
<1>2. /\ d \in Data /\ told \in Told /\ row.tool \in Tools
      /\ row.args \in Arguments[row.tool]
      /\ Consistent(row.tool, row.args, d, told) /\ Selected(row.args, d)
  BY <1>1, RowFacts
<1>3. tell \in Told /\ tell.said = Put(told.said, f, v)
        /\ tell.extracted = told.extracted
  <2>1. Put(told.said, f, v) \in Changes
    BY <1>2, PutIsChanges DEF Told
  <2> QED BY <1>2, <2>1 DEF Told
<1>4. /\ Resolved(d) \in Data
      /\ Resolved(d).field = None /\ Resolved(d).options.ids = {}
      /\ Resolved(d).snap = d.snap /\ Resolved(d).patch = d.patch
      /\ Resolved(d).ref = d.ref /\ Resolved(d).low = d.low
      /\ Resolved(d).multi = d.multi
  BY <1>2, ResolvedIs
<1>5. f \notin {"request_id", "changes", "changes_multi"}
  BY DEF ChangeFields
<1>6. CASE Open("leave_create_request")
  <2>1. GoOn(text, Put(row.args, f, v), Resolved(d), tell)
    BY <1>6 DEF ValueAnswer, Open
  <2>2. Creates(row.tool) /\ ~Updates(row.tool) /\ row.args = told.said
    BY <1>2, <1>6 DEF Creates, Updates, Open, Consistent
  <2>3. Put(row.args, f, v) \in Changes
    BY <1>2, <2>2, PutIsChanges, CreatesAre DEF Creates
  <2>4. None \notin DOMAIN Put(row.args, f, v)
    BY <2>3, ChangesAre, NoneAssumption DEF IsChanges
  <2>5. Consistent(row.tool, Put(row.args, f, v), Resolved(d), tell)
    BY <1>2, <1>3, <1>4, <2>2, <2>3, <2>4, CreatesAre, NoneAssumption
    DEF Consistent, Creates
  <2>6. Selected(Put(row.args, f, v), Resolved(d))
    BY <1>2, <1>4, <2>2 DEF Selected, Consistent
  <2> QED BY <1>1, <1>3, <1>4, <2>1, <2>5, <2>6, GoOnKeeps
<1>7. CASE Open("leave_update_request") /\ d.snap = None
  <2>1. GoOn(text, row.args, Resolved(d), told)
    BY <1>7 DEF ValueAnswer, Open
  <2>2. StillOpen(row.args, Resolved(d))
    BY <1>2, <1>4, <1>7, NoneAssumption DEF Consistent, StillOpen, Open, Updates
  <2>3. Resolved(d).field # "request_id"
    BY <1>4, NoneAssumption
  <2> QED BY <1>1, <1>4, <1>7, <2>1, <2>2, <2>3, NothingToldKeeps
<1>8. CASE Open("leave_update_request") /\ d.snap # None
  <2> DEFINE patch == PatchWith(d, f, v)
             data == [d EXCEPT !.patch = patch]
  <2>1. Updates(row.tool) /\ ~Creates(row.tool)
    BY <1>8 DEF Open, Updates, Creates
  <2>2. patch \in Changes
    <3>1. d.patch \in Changes
      BY <1>2 DEF Data
    <3> QED BY <3>1, PutIsChanges, PatchIsChanges DEF PatchWith
  <2>3. CASE patch = NoChanges
    <3>1. Unresolved(text)
      BY <1>8, <2>3 DEF ValueAnswer, Open
    <3> QED BY <1>1, <3>1, UnresolvedKeeps
  <2>4. ASSUME patch # NoChanges
        PROVE  patch = Differing(d.snap, tell.said)
                 /\ InOrder(With(patch, Original[d.snap]))
    <3>1. /\ d.patch = NoChanges => told.said = NoChanges
          /\ d.patch # NoChanges => d.patch = Differing(d.snap, told.said)
      BY <1>2, <2>1 DEF Consistent, Collected
    <3> QED BY <1>3, <2>4, <3>1, OneMoreAnswer DEF PatchWith
  <2>5. /\ data \in Data /\ data.patch = patch
        /\ data.snap = d.snap /\ data.ref = d.ref /\ data.low = d.low
        /\ data.multi = d.multi
    BY <1>2, <2>2 DEF Data
  <2>6. CASE patch # NoChanges /\ d.multi
    <3> DEFINE new == [data EXCEPT !.field = "changes_multi", !.options = NoOffer]
    <3>1. GoOn(text, row.args, new, tell)
      BY <1>8, <2>6 DEF ValueAnswer, Open
    <3>2. /\ new \in Data /\ new.patch = patch /\ new.snap = d.snap
          /\ new.ref = d.ref /\ new.low = d.low /\ new.multi = d.multi
          /\ new.field = "changes_multi"
      BY <2>5, <2>6 DEF Data, NoOffer, Offer, Options
    <3>3. d.low \/ "changes" \notin DOMAIN row.args
      BY <1>1, <2>1, <2>6 DEF LeaveIInv, RowOK
    <3> HIDE DEF new, patch, tell
    <3>4. Consistent(row.tool, row.args, new, tell)
      BY <1>2, <1>8, <2>1, <2>4, <2>6, <3>2, <3>3, NoneAssumption
      DEF Consistent, Collected, Kept, StillOpen
    <3>5. Selected(row.args, new)
      BY <1>2, <3>2 DEF Selected
    <3> QED BY <1>1, <1>3, <3>1, <3>2, <3>4, <3>5, GoOnKeeps
  <2>7. CASE patch # NoChanges /\ ~d.multi
    <3> DEFINE new == Resolved(data)
               args == Put(row.args, "changes", patch)
    <3>1. GoOn(text, args, new, tell)
      BY <1>8, <2>7 DEF ValueAnswer, Open
    <3>2. /\ new \in Data /\ new.patch = patch /\ new.snap = d.snap
          /\ new.ref = d.ref /\ new.low = d.low /\ new.multi = d.multi
          /\ new.field = None
      BY <2>5, ResolvedIs
    <3>3. /\ args \in Arguments[row.tool] /\ args["changes"] = patch
          /\ "request_id" \in DOMAIN args <=> "request_id" \in DOMAIN row.args
          /\ "request_id" \in DOMAIN row.args
               => args["request_id"] = row.args["request_id"]
      BY <1>2, <2>1, <2>2, PutChanges DEF Updates
    <3> HIDE DEF new, patch, tell, args
    <3>4. Consistent(row.tool, args, new, tell)
      BY <1>2, <1>8, <2>1, <2>4, <2>7, <3>2, <3>3, NoneAssumption
      DEF Consistent, Collected, Kept, StillOpen
    <3>5. Selected(args, new)
      BY <1>2, <3>2, <3>3 DEF Selected
    <3> QED BY <1>1, <1>3, <3>1, <3>2, <3>4, <3>5, GoOnKeeps
  <2> QED BY <2>3, <2>6, <2>7
<1> QED BY <1>6, <1>7, <1>8 DEF ValueAnswer

LEMMA ValueAnswersKeep ==
    ASSUME LeaveIInv, DateAnswer \/ LeaveTypeAnswer \/ ReasonAnswer
    PROVE  LeaveIInv'
<1>1. CASE DateAnswer
  <2>1. PICK text \in BOOLEAN, d \in 1 .. MaxDate : ValueAnswer(text, Asked, d)
    BY <1>1 DEF DateAnswer
  <2>2. Asked \in ChangeFields /\ d \in Values(Asked)
    BY <1>1 DEF DateAnswer, DateFields, ChangeFields, Values
  <2> QED BY <2>1, <2>2, ValueKeeps
<1>2. CASE LeaveTypeAnswer
  <2>1. PICK text \in BOOLEAN, v \in LeaveTypes :
            ValueAnswer(text, "leave_type_id", v)
    BY <1>2 DEF LeaveTypeAnswer
  <2>2. /\ Asked = "leave_type_id" /\ "leave_type_id" \in ChangeFields
        /\ v \in Values("leave_type_id")
    BY <1>2 DEF LeaveTypeAnswer, DateFields, ChangeFields, Values
  <2> QED BY <2>1, <2>2, ValueKeeps
<1>3. CASE ReasonAnswer
  <2>1. PICK v \in Reasons : ValueAnswer(TRUE, "reason", v)
    BY <1>3 DEF ReasonAnswer
  <2>2. /\ Asked = "reason" /\ "reason" \in ChangeFields
        /\ v \in Values("reason")
    BY <1>3 DEF ReasonAnswer, DateFields, ChangeFields, Values
  <2> QED BY <2>1, <2>2, ValueKeeps
<1> QED BY <1>1, <1>2, <1>3

LEMMA RequestAnswerKeeps ==
    ASSUME LeaveIInv, RequestAnswer PROVE LeaveIInv'
<1> DEFINE d == row.data
<1>1. /\ turn.at = "idle" /\ row.status = "awaiting" /\ d.field = "request_id"
      /\ ~Creates(row.tool)
  BY DEF RequestAnswer, Open, Asked, Creates
<1>2. /\ d \in Data /\ told \in Told /\ row.tool \in Tools
      /\ row.args \in Arguments[row.tool]
      /\ Consistent(row.tool, row.args, d, told)
  BY <1>1, RowFacts
<1>3. d.snap = None /\ d.options.ids \subseteq Requests \cup People
  BY <1>1, <1>2 DEF Consistent
<1>4. /\ Resolved(d) \in Data
      /\ Resolved(d).field = None /\ Resolved(d).options.ids = {}
      /\ Resolved(d).snap = None /\ Resolved(d).patch = d.patch
      /\ Resolved(d).low = d.low /\ Resolved(d).multi = d.multi
  BY <1>2, <1>3, ResolvedIs
<1>5. ASSUME NEW r \in d.options.ids, NEW data \in Data, NEW text \in BOOLEAN,
             data.field = None, data.options.ids = {}, data.snap = None,
             data.patch = d.patch, data.low = d.low, data.multi = d.multi,
             GoOn(text, Put(row.args, "request_id", r), data, told)
      PROVE  LeaveIInv'
  <2> DEFINE args == Put(row.args, "request_id", r)
  <2>1. /\ args \in Arguments[row.tool]
        /\ "changes" \in DOMAIN args <=> "changes" \in DOMAIN row.args
        /\ "changes" \in DOMAIN row.args => args["changes"] = row.args["changes"]
    BY <1>1, <1>2, <1>3, PutRequest
  <2>2. GoOn(text, args, data, told)
    BY <1>5
  <2> HIDE DEF args
  <2>3. Consistent(row.tool, args, data, told)
    BY <1>1, <1>2, <1>3, <1>5, <2>1, NoneAssumption
    DEF Consistent, Collected, Kept, StillOpen
  <2>4. Selected(args, data)
    BY <1>5 DEF Selected
  <2> QED BY <1>1, <1>2, <2>2, <2>3, <2>4, GoOnKeeps
<1>6. ASSUME NEW r \in d.options.ids,
             GoOn(FALSE, Put(row.args, "request_id", r),
                  [Resolved(d) EXCEPT !.ref = r], told)
      PROVE  LeaveIInv'
  <2> DEFINE data == [Resolved(d) EXCEPT !.ref = r]
  <2>1. /\ data \in Data /\ data.field = None /\ data.options.ids = {}
        /\ data.snap = None /\ data.patch = d.patch
        /\ data.low = d.low /\ data.multi = d.multi
    BY <1>3, <1>4 DEF Data
  <2> HIDE DEF data
  <2> QED BY <1>5, <1>6, <2>1 DEF data
<1>7. ASSUME NEW r \in d.options.ids,
             GoOn(TRUE, Put(row.args, "request_id", r), Resolved(d), told)
      PROVE  LeaveIInv'
  BY <1>4, <1>5, <1>7
<1> QED BY <1>6, <1>7 DEF RequestAnswer

LEMMA ChangeAnswersKeep ==
    ASSUME LeaveIInv, ChangeFieldChoice \/ ChangesDone \/ MultiText
    PROVE  LeaveIInv'
<1> DEFINE d == row.data
<1>1. /\ turn.at = "idle" /\ row.status = "awaiting"
      /\ Open("leave_update_request") /\ Updates(row.tool) /\ ~Creates(row.tool)
      /\ d.field \in {"changes", "changes_multi"}
  BY DEF ChangeFieldChoice, ChangesDone, MultiText, Open, Asked, Creates, Updates
<1>2. /\ d \in Data /\ told \in Told /\ row.tool \in Tools
      /\ row.args \in Arguments[row.tool]
      /\ Consistent(row.tool, row.args, d, told) /\ Selected(row.args, d)
  BY <1>1, RowFacts
<1>3. d.options.ids \subseteq ChangeFields \cup {"multiple", "done"}
  BY <1>1 DEF LeaveIInv, RowOK, Asked
<1>4. d.snap = None => "changes" \notin DOMAIN row.args
  BY <1>1, <1>2 DEF Consistent, StillOpen
<1>5. /\ Resolved(d) \in Data
      /\ Resolved(d).field = None /\ Resolved(d).options.ids = {}
      /\ Resolved(d).snap = d.snap /\ Resolved(d).patch = d.patch
      /\ Resolved(d).ref = d.ref /\ Resolved(d).low = d.low
  BY <1>2, ResolvedIs
<1>6. CASE ChangeFieldChoice
  <2>1. PICK f \in d.options.ids \ {"done"} :
          GoOn(FALSE, row.args,
               [d EXCEPT !.options = NoOffer,
                         !.field = IF f = "multiple" THEN "changes_multi" ELSE f,
                         !.multi = (f = "multiple")
                                      \/ (Asked = "changes_multi" /\ @)], told)
    BY <1>6 DEF ChangeFieldChoice
  <2> DEFINE m == (f = "multiple") \/ (Asked = "changes_multi" /\ d.multi)
             new == [d EXCEPT !.options = NoOffer,
                        !.field = IF f = "multiple" THEN "changes_multi" ELSE f,
                        !.multi = m]
  <2>2. m \in BOOLEAN
    BY <1>2 DEF Data
  <2>3. (IF f = "multiple" THEN "changes_multi" ELSE f)
            \in ChangeFields \cup {"changes_multi"}
    BY <1>3
  <2>4. /\ new \in Data /\ new.snap = d.snap /\ new.patch = d.patch
        /\ new.ref = d.ref /\ new.low = d.low
        /\ new.field \in ChangeFields \cup {"changes_multi"}
    <3> HIDE DEF m
    <3> QED BY <1>2, <2>2, <2>3 DEF Data, NoOffer, Offer, Options
  <2>5. GoOn(FALSE, row.args, new, told)
    BY <2>1
  <2>6. new.field # "request_id" /\ new.field # None
    BY <2>4, NoneAssumption DEF ChangeFields
  <2> HIDE DEF new
  <2>7. StillOpen(row.args, new)
    BY <1>4, <2>4 DEF StillOpen
  <2> QED BY <1>1, <2>4, <2>5, <2>6, <2>7, NothingToldKeeps
<1>7. CASE MultiText
  <2>1. GoOn(TRUE, row.args, Resolved(d), told)
    BY <1>7 DEF MultiText
  <2>2. StillOpen(row.args, Resolved(d))
    BY <1>4, <1>5 DEF StillOpen
  <2>3. Resolved(d).field # "request_id"
    BY <1>5, NoneAssumption
  <2> QED BY <1>1, <1>5, <2>1, <2>2, <2>3, NothingToldKeeps
<1>8. CASE ChangesDone
  <2> DEFINE new == [Resolved(d) EXCEPT !.multi = FALSE]
             args == Put(row.args, "changes", d.patch)
  <2>1. GoOn(FALSE, args, new, told) /\ d.patch # NoChanges
    BY <1>8 DEF ChangesDone
  <2>2. /\ new \in Data /\ new.patch = d.patch /\ new.snap = d.snap
        /\ new.ref = d.ref /\ new.low = d.low /\ new.field = None
        /\ new.options.ids = {}
    BY <1>5 DEF Data
  <2>3. d.patch \in Changes
    BY <1>2 DEF Data
  <2>4. /\ args \in Arguments[row.tool] /\ args["changes"] = d.patch
        /\ "request_id" \in DOMAIN args <=> "request_id" \in DOMAIN row.args
        /\ "request_id" \in DOMAIN row.args
             => args["request_id"] = row.args["request_id"]
    BY <1>1, <1>2, <2>3, PutChanges DEF Updates
  <2> HIDE DEF new, args
  <2>5. d.snap # None
    BY <1>2, <2>1 DEF Consistent, Collected
  <2>6. Consistent(row.tool, args, new, told)
    BY <1>1, <1>2, <2>1, <2>2, <2>4, <2>5, NoneAssumption
    DEF Consistent, Collected, Kept, StillOpen
  <2>7. Selected(args, new)
    BY <1>2, <2>2, <2>4 DEF Selected
  <2> QED BY <1>1, <1>2, <2>1, <2>2, <2>6, <2>7, GoOnKeeps
<1> QED BY <1>6, <1>7, <1>8

LEMMA ChangesTextKeeps ==
    ASSUME LeaveIInv, ChangesText PROVE LeaveIInv'
<1> DEFINE d == row.data
<1>1. /\ turn.at = "idle" /\ row.status = "awaiting"
      /\ Open("leave_update_request") /\ Updates(row.tool) /\ ~Creates(row.tool)
      /\ d.field = "changes"
  BY DEF ChangesText, Open, Asked, Creates, Updates
<1>2. /\ d \in Data /\ told \in Told /\ row.tool \in Tools
      /\ row.args \in Arguments[row.tool]
      /\ Consistent(row.tool, row.args, d, told) /\ Selected(row.args, d)
  BY <1>1, RowFacts
<1>3. PICK f \in ChangeFields :
          \/ GoOn(TRUE, row.args, [d EXCEPT !.field = f, !.options = NoOffer], told)
          \/ /\ d.snap # None
             /\ \E v \in Values(f) :
                  LET patch == ValidatedPatch(d.snap, Only(f, v))
                  IN  /\ patch # NoChanges
                      /\ GoOn(TRUE, Put(row.args, "changes", patch),
                              [Resolved(d) EXCEPT !.patch = patch],
                              [told EXCEPT !.said = Only(f, v)])
  BY DEF ChangesText
<1>4. CASE GoOn(TRUE, row.args, [d EXCEPT !.field = f, !.options = NoOffer], told)
  <2> DEFINE new == [d EXCEPT !.field = f, !.options = NoOffer]
  <2>1. /\ new \in Data /\ new.snap = d.snap /\ new.patch = d.patch
        /\ new.ref = d.ref /\ new.low = d.low /\ new.field = f
    BY <1>2 DEF Data, NoOffer, Offer, Options
  <2>2. new.field # "request_id" /\ new.field # None
    BY <2>1, NoneAssumption DEF ChangeFields
  <2>3. GoOn(TRUE, row.args, new, told)
    BY <1>4
  <2> HIDE DEF new
  <2>4. StillOpen(row.args, new)
    BY <1>1, <1>2, <2>1 DEF StillOpen, Consistent
  <2> QED BY <1>1, <2>1, <2>2, <2>3, <2>4, NothingToldKeeps
<1>5. ASSUME d.snap # None, NEW v \in Values(f),
             ValidatedPatch(d.snap, Only(f, v)) # NoChanges,
             GoOn(TRUE,
                  Put(row.args, "changes", ValidatedPatch(d.snap, Only(f, v))),
                  [Resolved(d) EXCEPT !.patch = ValidatedPatch(d.snap, Only(f, v))],
                  [told EXCEPT !.said = Only(f, v)])
      PROVE  LeaveIInv'
  <2> DEFINE patch == ValidatedPatch(d.snap, Only(f, v))
             new == [Resolved(d) EXCEPT !.patch = patch]
             args == Put(row.args, "changes", patch)
             tell == [told EXCEPT !.said = Only(f, v)]
  <2>1. patch \in Changes /\ Only(f, v) \in Changes
    BY OnlyIsChanges, PatchIsChanges
  <2>2. /\ patch = Differing(d.snap, Only(f, v))
        /\ InOrder(With(patch, Original[d.snap]))
    BY <1>5, PatchFacts
  <2>3. tell \in Told /\ tell.said = Only(f, v) /\ tell.extracted = told.extracted
    BY <1>2, <2>1 DEF Told
  <2>4. /\ new \in Data /\ new.patch = patch /\ new.snap = d.snap
        /\ new.ref = d.ref /\ new.low = d.low /\ new.field = None
    <3>1. /\ Resolved(d) \in Data /\ Resolved(d).field = None
          /\ Resolved(d).snap = d.snap /\ Resolved(d).ref = d.ref
          /\ Resolved(d).low = d.low
      BY <1>2, ResolvedIs
    <3> QED BY <2>1, <3>1 DEF Data
  <2>5. /\ args \in Arguments[row.tool] /\ args["changes"] = patch
        /\ "request_id" \in DOMAIN args <=> "request_id" \in DOMAIN row.args
        /\ "request_id" \in DOMAIN row.args
             => args["request_id"] = row.args["request_id"]
    BY <1>1, <1>2, <2>1, PutChanges DEF Updates
  <2>6. GoOn(TRUE, args, new, tell) /\ patch # NoChanges
    BY <1>5
  <2> HIDE DEF new, args, tell, patch
  <2>7. Consistent(row.tool, args, new, tell)
    BY <1>1, <1>2, <1>5, <2>2, <2>3, <2>4, <2>5, <2>6, NoneAssumption
    DEF Consistent, Collected, Kept, StillOpen
  <2>8. Selected(args, new)
    BY <1>2, <2>4, <2>5 DEF Selected
  <2> QED BY <1>1, <2>3, <2>4, <2>6, <2>7, <2>8, GoOnKeeps
<1> QED BY <1>3, <1>4, <1>5

LEMMA AnswerKeeps == ASSUME LeaveIInv, Answer PROVE LeaveIInv'
<1>1. CASE Unclear
  BY <1>1, UnresolvedKeeps DEF Unclear
<1> QED BY <1>1, ValueAnswersKeep, RequestAnswerKeeps, ChangeAnswersKeep,
        ChangesTextKeeps DEF Answer

-----------------------------------------------------------------------------
(* The rest of a turn                                                      *)

LEMMA ClearedIs ==
    ASSUME NEW memory \in SUBSET Requests
    PROVE  /\ Cleared(memory) \in
                [status : {"active", "awaiting", "confirm"},
                 tool : Tools \cup {None},
                 args : UNION {Arguments[t] : t \in Tools},
                 data : Data, memory : SUBSET Requests]
           /\ Cleared(memory).status = "active"
           /\ Cleared(memory).tool = None
           /\ Cleared(memory).memory = memory
<1>1. <<>> \in UNION {Arguments[t] : t \in Tools}
  BY NoArguments DEF Tools
<1>2. NoData \in Data
  BY NoChangesAre DEF NoData, Data, NoOffer, Offer, Options, Dates
<1> QED BY <1>1, <1>2 DEF Cleared, Row

LEMMA IdleIs ==
    /\ Idle \in [at : {"idle", "list", "details", "fill", "validate"},
                 text : BOOLEAN, tool : Tools \cup {None},
                 args : UNION {Arguments[t] : t \in Tools}, data : Data,
                 memory : SUBSET Requests,
                 trust : Requests \cup People \cup {None},
                 asks : BOOLEAN, told : Told]
    /\ Idle.at = "idle" /\ Idle.tool = None
<1>1. <<>> \in UNION {Arguments[t] : t \in Tools}
  BY NoArguments DEF Tools
<1>2. NoData \in Data
  BY NoChangesAre DEF NoData, Data, NoOffer, Offer, Options, Dates
<1>3. NothingTold \in Told
  BY NoChangesAre DEF NothingTold, Told
<1> QED BY <1>1, <1>2, <1>3 DEF Idle

LEMMA InitHolds == Init => LeaveIInv
<1> SUFFICES ASSUME Init PROVE LeaveIInv
  OBVIOUS
<1>1. /\ card.tool = None /\ card.snap = None
      /\ card \in [tool : Tools \cup {None},
                   args : UNION {Arguments[t] : t \in Tools},
                   snap : Requests \cup {None}]
  <2>1. <<>> \in UNION {Arguments[t] : t \in Tools}
    BY NoArguments DEF Tools
  <2> QED BY <2>1 DEF Init, NoCard
<1>2. PICK M \in SUBSET Requests : row = Cleared(M)
  BY DEF Init
<1>3. told \in Told
  BY NoChangesAre DEF Init, NothingTold, Told
<1>4. turn = Idle
  BY DEF Init
<1>5. LeaveTypeOK
  BY <1>1, <1>2, <1>3, <1>4, ClearedIs, IdleIs DEF LeaveTypeOK
<1>6. RowOK /\ TurnOK
  BY <1>2, <1>4, ClearedIs, IdleIs DEF RowOK, TurnOK
<1>7. CardOK
  BY <1>1, NoneAssumption DEF CardOK, Creates, Updates, Tools
<1> QED BY <1>5, <1>6, <1>7 DEF LeaveIInv

LEMMA NewQueryKeeps ==
    ASSUME LeaveIInv, NEW tool \in Tools, NewQuery(tool) PROVE LeaveIInv'
<1>1. PICK spoken \in Spoken[tool], natural \in Natural, low, asks \in BOOLEAN :
          /\ tool # "leave_update_request" => natural = NoChanges
          /\ asks => DateFields \cap DOMAIN spoken = {}
          /\ turn' = [Idle EXCEPT
                !.at = IF tool = "leave_create_request" THEN "fill" ELSE "list",
                !.text = TRUE, !.tool = tool, !.args = spoken,
                !.memory = row.memory, !.asks = asks,
                !.data = [NoData EXCEPT !.natural = natural, !.low = low],
                !.told = [said |-> IF tool = "leave_create_request"
                                   THEN spoken ELSE NoChanges,
                          extracted |-> IF "changes" \in DOMAIN spoken
                                        THEN spoken["changes"] ELSE None]]
  BY Zenon DEF NewQuery
<1> DEFINE data == [NoData EXCEPT !.natural = natural, !.low = low]
           tell == [said |-> IF tool = "leave_create_request"
                             THEN spoken ELSE NoChanges,
                    extracted |-> IF "changes" \in DOMAIN spoken
                                  THEN spoken["changes"] ELSE None]
           at == IF tool = "leave_create_request" THEN "fill" ELSE "list"
<1>2. spoken \in Arguments[tool]
  BY QueriesAssumption
<1>3. /\ data \in Data /\ data.snap = None /\ data.patch = NoChanges
      /\ data.multi = FALSE /\ data.field = None /\ data.options.ids = {}
  BY NoChangesAre DEF NoData, Data, NoOffer, Offer, Options, Dates
<1>4. tell \in Told
  <2>1. Creates(tool) => spoken \in Changes /\ "changes" \notin DOMAIN spoken
    BY <1>2, CreatesAre, ChangesAre DEF Creates, IsChanges, ChangeFields
  <2>2. ~Creates(tool) /\ "changes" \in DOMAIN spoken
          => spoken["changes"] \in Changes
    BY <1>2, UpdatesAre, CancelsAre DEF Creates, Tools, IsUpdate
  <2> QED BY <2>1, <2>2, NoChangesAre DEF Told, Creates
<1>5. /\ row' = Cleared(row.memory) /\ card' = NoCard /\ told' = NothingTold
      /\ row.memory \in SUBSET Requests
  BY DEF NewQuery, LeaveIInv, LeaveTypeOK
<1>6. /\ turn' = [at |-> at, text |-> TRUE, tool |-> tool, args |-> spoken,
                  data |-> data, memory |-> row.memory, trust |-> None,
                  asks |-> asks, told |-> tell]
  BY <1>1 DEF Idle
<1>7. Consistent(tool, spoken, data, tell)
  <2>1. None \notin DOMAIN spoken \/ ~Creates(tool)
    BY <1>2, CreatesAre, ChangesAre, NoneAssumption DEF Creates, IsChanges
  <2>2. Creates(tool) => tell.said = spoken
    BY DEF Creates
  <2>3. ~Creates(tool) => tell.said = NoChanges
    BY DEF Creates
  <2>4. Kept(spoken, data, tell)
    BY DEF Kept
  <2>5. StillOpen(spoken, data)
    BY <1>3, NoneAssumption DEF StillOpen
  <2> HIDE DEF data, tell
  <2> QED BY <1>2, <1>3, <2>1, <2>2, <2>3, <2>4, <2>5, NoneAssumption
      DEF Consistent
<1> HIDE DEF data, tell
<1>8. card'.tool = None /\ card'.snap = None
        /\ card' \in [tool : Tools \cup {None},
                      args : UNION {Arguments[t] : t \in Tools},
                      snap : Requests \cup {None}]
  <2>1. <<>> \in UNION {Arguments[t] : t \in Tools}
    BY NoArguments DEF Tools
  <2> QED BY <1>5, <2>1 DEF NoCard
<1>9. LeaveTypeOK'
  <2>1. spoken \in UNION {Arguments[t] : t \in Tools}
    BY <1>2
  <2>2. NothingTold \in Told
    BY NoChangesAre DEF NothingTold, Told
  <2>3. /\ turn' \in [at : {"idle", "list", "details", "fill", "validate"},
                 text : BOOLEAN, tool : Tools \cup {None},
                 args : UNION {Arguments[t] : t \in Tools}, data : Data,
                 memory : SUBSET Requests,
                 trust : Requests \cup People \cup {None},
                 asks : BOOLEAN, told : Told]
        /\ turn'.args \in Arguments[turn'.tool]
    BY <1>2, <1>3, <1>4, <1>5, <1>6, <2>1
  <2> QED BY <1>5, <1>8, <2>2, <2>3, ClearedIs DEF LeaveTypeOK
<1>10. RowOK'
  <2>1. row'.status = "active"
    BY <1>5, ClearedIs
  <2> QED BY <2>1 DEF RowOK
<1>11. TurnOK'
  <2>1. Consistent(turn'.tool, turn'.args, turn'.data, turn'.told)
    BY <1>6, <1>7
  <2>2. /\ turn'.at \in {"fill", "list"}
        /\ turn'.at = "list" => ~Creates(turn'.tool)
        /\ turn'.data.snap = None /\ turn'.data.multi = FALSE
    BY <1>3, <1>6 DEF Creates
  <2> QED BY <2>1, <2>2 DEF TurnOK, Consistent, Collected, Kept, StillOpen
<1>12. CardOK'
  BY <1>8, NoneAssumption DEF CardOK, Creates, Updates, Tools
<1> QED BY <1>9, <1>10, <1>11, <1>12 DEF LeaveIInv

LEMMA TurnEnds ==
    ASSUME LeaveIInv,
           \/ WorkflowCancel
           \/ SelectionFails
           \/ TurnFails
    PROVE  LeaveIInv'
<1>1. /\ row' = Cleared(row.memory) \/ row' = row
      /\ turn' = Idle \/ (turn' = turn /\ turn.at = "idle")
      /\ card' = card /\ told' = told
  BY DEF WorkflowCancel, SelectionFails, TurnFails
<1>2. row.memory \in SUBSET Requests
  BY DEF LeaveIInv, LeaveTypeOK
<1>3. LeaveTypeOK'
  <2>1. /\ row' \in [status : {"active", "awaiting", "confirm"},
                     tool : Tools \cup {None},
                     args : UNION {Arguments[t] : t \in Tools},
                     data : Data, memory : SUBSET Requests]
        /\ row'.tool # None => row'.args \in Arguments[row'.tool]
    BY <1>1, <1>2, ClearedIs DEF LeaveIInv, LeaveTypeOK
  <2>2. /\ turn' \in [at : {"idle", "list", "details", "fill", "validate"},
                      text : BOOLEAN, tool : Tools \cup {None},
                      args : UNION {Arguments[t] : t \in Tools}, data : Data,
                      memory : SUBSET Requests,
                      trust : Requests \cup People \cup {None},
                      asks : BOOLEAN, told : Told]
        /\ turn'.tool # None => turn'.args \in Arguments[turn'.tool]
    BY <1>1, IdleIs DEF LeaveIInv, LeaveTypeOK
  <2>3. /\ card' = card /\ told' = told
    BY <1>1
  <2> QED BY <2>1, <2>2, <2>3 DEF LeaveIInv, LeaveTypeOK
<1>4. row'.status = "awaiting" => row' = row
  BY <1>1, <1>2, ClearedIs
<1>5. RowOK'
  <2>1. RowOK
    BY DEF LeaveIInv
  <2> QED BY <1>1, <1>4, <2>1 DEF RowOK, Asked, Consistent, Collected, Kept,
              StillOpen, Selected
<1>6. turn'.at = "idle"
  BY <1>1, IdleIs
<1>7. TurnOK'
  BY <1>6 DEF TurnOK
<1>8. CardOK'
  BY <1>1, <1>4, <1>6 DEF LeaveIInv, CardOK
<1> QED BY <1>3, <1>5, <1>7, <1>8 DEF LeaveIInv

\* A step within a turn.
LEMMA TurnGoesOn ==
    ASSUME LeaveIInv, turn.at # "idle",
           UNCHANGED <<row, card, told>>,
           turn' \in [at : {"list", "details", "fill", "validate"},
                      text : BOOLEAN, tool : Tools \cup {None},
                      args : UNION {Arguments[t] : t \in Tools}, data : Data,
                      memory : SUBSET Requests,
                      trust : Requests \cup People \cup {None},
                      asks : BOOLEAN, told : Told],
           turn'.args \in Arguments[turn'.tool],
           TurnOK'
    PROVE  LeaveIInv'
<1>1. LeaveTypeOK'
  BY DEF LeaveIInv, LeaveTypeOK
<1>2. RowOK'
  <2>1. RowOK
    BY DEF LeaveIInv
  <2> QED BY <2>1 DEF RowOK, Asked, Consistent, Collected, Kept,
              StillOpen, Selected
<1>3. CardOK'
  BY DEF LeaveIInv, CardOK
<1> QED BY <1>1, <1>2, <1>3 DEF LeaveIInv

LEMMA TurnFacts ==
    ASSUME LeaveIInv, turn.at # "idle"
    PROVE  /\ turn \in [at : {"idle", "list", "details", "fill", "validate"},
                      text : BOOLEAN, tool : Tools \cup {None},
                      args : UNION {Arguments[t] : t \in Tools}, data : Data,
                      memory : SUBSET Requests,
                      trust : Requests \cup People \cup {None},
                      asks : BOOLEAN, told : Told]
           /\ turn.tool \in Tools /\ turn.args \in Arguments[turn.tool]
           /\ turn.data \in Data /\ turn.told \in Told
           /\ Consistent(turn.tool, turn.args, turn.data, turn.told)
<1>1. /\ turn \in [at : {"idle", "list", "details", "fill", "validate"},
                      text : BOOLEAN, tool : Tools \cup {None},
                      args : UNION {Arguments[t] : t \in Tools}, data : Data,
                      memory : SUBSET Requests,
                      trust : Requests \cup People \cup {None},
                      asks : BOOLEAN, told : Told]
  BY DEF LeaveIInv, LeaveTypeOK
<1>2. Consistent(turn.tool, turn.args, turn.data, turn.told)
  BY DEF LeaveIInv, TurnOK
<1>3. turn.tool \in Tools /\ turn.args \in Arguments[turn.tool]
  BY <1>2 DEF Consistent
<1> QED BY <1>1, <1>2, <1>3

LEMMA ListKeeps == ASSUME LeaveIInv, ListActionable PROVE LeaveIInv'
<1>0. PICK S \in SUBSET Requests \ {{}} : \E referred \in Referable(S) :
          turn' = [turn EXCEPT
                   !.at = IF referred # None THEN "details" ELSE "fill",
                   !.trust = referred, !.memory = S,
                   !.data.loaded = TRUE, !.data.field = "request_id",
                   !.data.options = Offer("requests", S)]
  BY DEF ListActionable
<1>1. PICK referred \in Referable(S) :
          turn' = [turn EXCEPT
                   !.at = IF referred # None THEN "details" ELSE "fill",
                   !.trust = referred, !.memory = S,
                   !.data.loaded = TRUE, !.data.field = "request_id",
                   !.data.options = Offer("requests", S)]
  BY <1>0
<1>2. turn.at = "list" /\ turn.at # "idle" /\ UNCHANGED <<row, card, told>>
  BY DEF ListActionable
<1> DEFINE d == turn.data
           new == [d EXCEPT !.loaded = TRUE, !.field = "request_id",
                            !.options = Offer("requests", S)]
           at == IF referred # None THEN "details" ELSE "fill"
<1>3. /\ turn \in [at : {"idle", "list", "details", "fill", "validate"},
                      text : BOOLEAN, tool : Tools \cup {None},
                      args : UNION {Arguments[t] : t \in Tools}, data : Data,
                      memory : SUBSET Requests,
                      trust : Requests \cup People \cup {None},
                      asks : BOOLEAN, told : Told]
      /\ turn.tool \in Tools /\ turn.args \in Arguments[turn.tool]
      /\ d \in Data /\ Consistent(turn.tool, turn.args, d, turn.told)
  BY <1>2, TurnFacts
<1>4. /\ d.snap = None /\ ~Creates(turn.tool)
      /\ turn.asks => ~d.multi
  BY <1>2 DEF LeaveIInv, TurnOK
<1>5. S \in SUBSET Requests /\ referred \in Requests \cup {None}
  BY DEF Referable
<1>6. /\ new \in Data /\ new.snap = None /\ new.patch = d.patch
      /\ new.multi = d.multi /\ new.low = d.low /\ new.field = "request_id"
      /\ new.options.ids \subseteq Requests
  BY <1>3, <1>4, <1>5 DEF Data, Offer, Options
<1>7. turn' = [turn EXCEPT !.at = at, !.trust = referred, !.memory = S,
                           !.data = new]
  BY <1>1, <1>3 DEF Data
<1> HIDE DEF new, at
<1>8. at \in {"details", "fill"} /\ (at = "details" => referred # None)
  BY DEF at
<1>9. /\ turn' \in [at : {"list", "details", "fill", "validate"},
                      text : BOOLEAN, tool : Tools \cup {None},
                      args : UNION {Arguments[t] : t \in Tools}, data : Data,
                      memory : SUBSET Requests,
                      trust : Requests \cup People \cup {None},
                      asks : BOOLEAN, told : Told]
      /\ turn'.tool = turn.tool /\ turn'.args = turn.args /\ turn'.at = at
      /\ turn'.data = new /\ turn'.told = turn.told /\ turn'.trust = referred
      /\ turn'.asks = turn.asks
  BY <1>3, <1>5, <1>6, <1>7, <1>8
<1>10. Consistent(turn.tool, turn.args, new, turn.told)
  <2>1. StillOpen(turn.args, d) => StillOpen(turn.args, new)
    BY <1>4, <1>6 DEF StillOpen
  <2>2. Kept(turn.args, d, turn.told) => Kept(turn.args, new, turn.told)
    BY <1>6 DEF Kept
  <2> QED BY <1>3, <1>4, <1>6, <2>1, <2>2 DEF Consistent, Collected
<1>11. TurnOK'
  <2>1. Consistent(turn'.tool, turn'.args, turn'.data, turn'.told)
    BY <1>9, <1>10
  <2> QED BY <1>4, <1>6, <1>8, <1>9, <2>1 DEF TurnOK, Consistent, Collected,
             Kept, StillOpen, Selected
<1> QED BY <1>2, <1>3, <1>9, <1>11, TurnGoesOn

LEMMA DetailsKeep == ASSUME LeaveIInv, LoadDetails PROVE LeaveIInv'
<1> DEFINE d == turn.data
           field == IF turn.tool = "leave_update_request"
                    THEN "changes" ELSE None
           new == [d EXCEPT !.ref = turn.trust, !.snap = turn.trust,
                            !.options = NoOffer, !.field = field]
<1>1. turn.at = "details" /\ turn.at # "idle" /\ turn.trust \in Requests
        /\ UNCHANGED <<row, card, told>>
  BY DEF LoadDetails, SnapshotOf
<1>2. /\ turn \in [at : {"idle", "list", "details", "fill", "validate"},
                      text : BOOLEAN, tool : Tools \cup {None},
                      args : UNION {Arguments[t] : t \in Tools}, data : Data,
                      memory : SUBSET Requests,
                      trust : Requests \cup People \cup {None},
                      asks : BOOLEAN, told : Told]
      /\ turn.tool \in Tools /\ turn.args \in Arguments[turn.tool]
      /\ d \in Data /\ Consistent(turn.tool, turn.args, d, turn.told)
  BY <1>1, TurnFacts
<1>3. /\ d.snap = None /\ ~Creates(turn.tool) /\ turn.trust # None
      /\ turn.asks => ~d.multi
  BY <1>1 DEF LeaveIInv, TurnOK
<1>4. /\ new \in Data /\ new.snap = turn.trust /\ new.ref = turn.trust
      /\ new.patch = d.patch /\ new.multi = d.multi /\ new.low = d.low
      /\ new.field \in {"changes", None}
  BY <1>1, <1>2 DEF Data, NoOffer, Offer, Options
<1>5. turn' = [turn EXCEPT !.at = "fill", !.data = new]
  BY <1>2 DEF LoadDetails, Data
<1> HIDE DEF new
<1>6. /\ turn' \in [at : {"list", "details", "fill", "validate"},
                      text : BOOLEAN, tool : Tools \cup {None},
                      args : UNION {Arguments[t] : t \in Tools}, data : Data,
                      memory : SUBSET Requests,
                      trust : Requests \cup People \cup {None},
                      asks : BOOLEAN, told : Told]
      /\ turn'.tool = turn.tool /\ turn'.args = turn.args /\ turn'.at = "fill"
      /\ turn'.data = new /\ turn'.told = turn.told
      /\ turn'.trust = turn.trust /\ turn'.asks = turn.asks
  BY <1>2, <1>4, <1>5
<1>7. d.patch = NoChanges
  BY <1>2, <1>3 DEF Consistent, Collected
<1>8. Consistent(turn.tool, turn.args, new, turn.told)
  <2>1. Kept(turn.args, d, turn.told) => Kept(turn.args, new, turn.told)
    BY <1>4 DEF Kept
  <2> QED BY <1>2, <1>3, <1>4, <1>7, <2>1, NoneAssumption
      DEF Consistent, StillOpen
<1>9. TurnOK'
  <2>1. Consistent(turn'.tool, turn'.args, turn'.data, turn'.told)
    BY <1>6, <1>8
  <2> QED BY <1>3, <1>4, <1>6, <2>1 DEF TurnOK, Consistent, Collected,
             Kept, StillOpen, Selected
<1> QED BY <1>1, <1>2, <1>6, <1>9, TurnGoesOn

\* What the changes the first query spelled out come to.
LEMMA NaturalIs ==
    ASSUME NEW d \in Data, NEW new \in WithNatural(d)
    PROVE  /\ new \in Data /\ new.snap = d.snap /\ new.ref = d.ref
           /\ new.low = d.low /\ new.multi = d.multi
           /\ new.options = d.options
           /\ \/ new = d
              \/ /\ new.field = None /\ new.patch # NoChanges
                 /\ new.patch = Differing(d.snap, new.patch)
                 /\ InOrder(With(new.patch, Original[d.snap]))
<1>1. d.natural \in Changes
  BY NoChangesAre, QueriesAssumption DEF Data
<1>2. Without(d.natural, "leave_type_id") \in Changes
  BY <1>1, WithoutIsChanges
<1>3. PICK c \in {d.natural, Without(d.natural, "leave_type_id")} :
        LET p == ValidatedPatch(d.snap, c)
        IN  new = IF p = NoChanges THEN d
                  ELSE [d EXCEPT !.patch = p, !.field = None]
  BY DEF WithNatural
<1> DEFINE p == ValidatedPatch(d.snap, c)
<1>4. CASE p = NoChanges
  BY <1>3, <1>4
<1>5. CASE p # NoChanges
  <2>1. p \in Changes
    BY <1>1, <1>2, PatchIsChanges
  <2>2. p = Differing(d.snap, c) /\ InOrder(With(p, Original[d.snap]))
    BY <1>5, PatchFacts
  <2>3. p = Differing(d.snap, p)
    BY <2>2, DifferingTwice
  <2>4. new = [d EXCEPT !.patch = p, !.field = None]
    BY <1>3, <1>5
  <2> HIDE DEF p
  <2>5. /\ new \in Data /\ new.snap = d.snap /\ new.ref = d.ref
        /\ new.low = d.low /\ new.multi = d.multi
        /\ new.options = d.options /\ new.field = None /\ new.patch = p
    BY <2>1, <2>4 DEF Data
  <2> QED BY <1>5, <2>2, <2>3, <2>5
<1> QED BY <1>4, <1>5

LEMMA FillKeeps == ASSUME LeaveIInv, FillSlots PROVE LeaveIInv'
<1> DEFINE d == turn.data
           Datas == IF /\ d.snap # None /\ d.patch = NoChanges
                       /\ turn.tool = "leave_update_request"
                    THEN WithNatural(d) ELSE {d}
           RequestOf(referred) == IF turn.tool = "leave_create_request" THEN None
                                  ELSE RequestId(referred)
           base == Without(turn.args, "request_id")
           NamedBy(request) == IF request = None THEN base
                               ELSE Put(base, "request_id", request)
           ArgsOf(data, named) == IF data.patch # NoChanges /\ ~data.multi
                                  THEN Put(named, "changes", data.patch)
                                  ELSE named
           SaidOf(data) == IF d.patch = data.patch THEN turn.told.said
                           ELSE data.patch
<1>1. turn.at = "fill" /\ turn.at # "idle" /\ UNCHANGED <<row, card, told>>
  BY DEF FillSlots
<1>2. /\ turn \in [at : {"idle", "list", "details", "fill", "validate"},
                      text : BOOLEAN, tool : Tools \cup {None},
                      args : UNION {Arguments[t] : t \in Tools}, data : Data,
                      memory : SUBSET Requests,
                      trust : Requests \cup People \cup {None},
                      asks : BOOLEAN, told : Told]
      /\ turn.tool \in Tools /\ turn.args \in Arguments[turn.tool]
      /\ d \in Data /\ turn.told \in Told
      /\ Consistent(turn.tool, turn.args, d, turn.told)
  BY <1>1, TurnFacts
<1>3. /\ turn.asks => ~d.multi
      /\ d.snap # None => turn.trust = d.snap /\ d.ref = d.snap
  BY <1>1 DEF LeaveIInv, TurnOK
<1>4. PICK data \in Datas, mentioned \in {{}, People},
           referred \in Referable(row.memory) \cup {None} :
        turn' = [turn EXCEPT
          !.at = "validate",
          !.args = ArgsOf(data, NamedBy(RequestOf(referred))),
          !.data = IF mentioned = {} THEN data
                   ELSE [data EXCEPT !.options = Offer("people", mentioned)],
          !.told.said = IF d.patch = data.patch THEN @ ELSE data.patch]
  <2>1. PICK data \in Datas,
             mentioned \in IF turn.text THEN {{}, People} ELSE {{}},
             referred \in Referable(IF turn.text THEN row.memory ELSE {}) :
          turn' = [turn EXCEPT
            !.at = "validate",
            !.args = ArgsOf(data, NamedBy(RequestOf(referred))),
            !.data = IF mentioned = {} THEN data
                     ELSE [data EXCEPT !.options = Offer("people", mentioned)],
            !.told.said = IF d.patch = data.patch THEN @ ELSE data.patch]
    BY DEF FillSlots
  <2>2. /\ mentioned \in {{}, People}
        /\ referred \in Referable(row.memory) \cup {None}
    BY <2>1 DEF Referable
  <2> QED BY <2>1, <2>2
<1> DEFINE request == RequestOf(referred)
           named == NamedBy(request)
           args == ArgsOf(data, named)
           new == IF mentioned = {} THEN data
                  ELSE [data EXCEPT !.options = Offer("people", mentioned)]
           tell == [turn.told EXCEPT !.said = SaidOf(data)]
\* The workflow data.
<1>5. /\ data \in Data /\ data.snap = d.snap /\ data.ref = d.ref
      /\ data.low = d.low /\ data.multi = d.multi
      /\ data.options = d.options
      /\ \/ data = d
         \/ /\ Updates(turn.tool) /\ d.snap # None /\ d.patch = NoChanges
            /\ data.field = None /\ data.patch # NoChanges
            /\ data.patch = Differing(d.snap, data.patch)
            /\ InOrder(With(data.patch, Original[d.snap]))
  BY <1>2, <1>4, NaturalIs DEF Updates
<1>6. /\ new \in Data /\ new.snap = d.snap /\ new.ref = d.ref
      /\ new.low = d.low /\ new.multi = d.multi /\ new.patch = data.patch
      /\ new.field = data.field
      /\ new.options.ids = d.options.ids \/ new.options.ids = People
  BY <1>4, <1>5 DEF Data, Offer, Options
<1>7. data.patch \in Changes
  BY <1>5 DEF Data
<1>8. tell \in Told /\ tell.extracted = turn.told.extracted
        /\ tell.said = SaidOf(data)
  BY <1>2, <1>7 DEF Told
\* The arguments.
<1>9. /\ request \in Requests \cup People \cup {None}
      /\ Creates(turn.tool) => request = None
      /\ d.snap # None => request = d.snap
  <2>1. referred \in Requests \cup {None}
    BY <1>4 DEF Referable, LeaveIInv, LeaveTypeOK
  <2>2. d.snap # None => ~Creates(turn.tool)
    BY <1>2 DEF Consistent
  <2> QED BY <1>2, <1>3, <2>1, <2>2 DEF RequestId, Creates
<1>10. /\ base \in Arguments[turn.tool]
       /\ DOMAIN base = DOMAIN turn.args \ {"request_id"}
       /\ "changes" \in DOMAIN turn.args => base["changes"] = turn.args["changes"]
       /\ Creates(turn.tool) => base = turn.args
  BY <1>2, WithoutRequest
<1> HIDE DEF base, request
<1>11. /\ named \in Arguments[turn.tool]
       /\ "changes" \in DOMAIN named <=> "changes" \in DOMAIN turn.args
       /\ "changes" \in DOMAIN turn.args => named["changes"] = turn.args["changes"]
       /\ Creates(turn.tool) => named = turn.args
       /\ request # None => "request_id" \in DOMAIN named
                              /\ named["request_id"] = request
  <2>1. CASE request = None
    BY <1>10, <2>1
  <2>2. CASE request # None
    BY <1>2, <1>9, <1>10, <2>2, PutRequest
  <2> QED BY <2>1, <2>2
<1> HIDE DEF named
<1>12. data.patch # NoChanges => Updates(turn.tool)
  BY <1>2, <1>5 DEF Consistent
<1>13. /\ args \in Arguments[turn.tool]
       /\ data.patch = NoChanges \/ data.multi => args = named
       /\ data.patch # NoChanges /\ ~data.multi
            => "changes" \in DOMAIN args /\ args["changes"] = data.patch
       /\ request # None => "request_id" \in DOMAIN args
                              /\ args["request_id"] = request
  BY <1>7, <1>11, <1>12, PutChanges DEF Updates
<1>14. turn' = [turn EXCEPT !.at = "validate", !.args = args, !.data = new,
                            !.told = tell]
  <2> HIDE DEF args, new
  <2>1. turn' = [turn EXCEPT !.at = "validate", !.args = args, !.data = new,
                   !.told.said = IF d.patch = data.patch THEN @ ELSE data.patch]
    BY <1>4 DEF args, named, request, new
  <2> QED BY <1>2, <2>1 DEF Told
<1> HIDE DEF args, new, tell, d
<1>15. /\ turn' \in [at : {"list", "details", "fill", "validate"},
                      text : BOOLEAN, tool : Tools \cup {None},
                      args : UNION {Arguments[t] : t \in Tools}, data : Data,
                      memory : SUBSET Requests,
                      trust : Requests \cup People \cup {None},
                      asks : BOOLEAN, told : Told]
       /\ turn'.tool = turn.tool /\ turn'.args = args /\ turn'.at = "validate"
       /\ turn'.data = new /\ turn'.told = tell /\ turn'.asks = turn.asks
  <2>1. args \in UNION {Arguments[t] : t \in Tools}
    BY <1>2, <1>13
  <2> QED BY <1>2, <1>6, <1>8, <1>14, <2>1
\* They still agree.
<1>16. Consistent(turn.tool, args, new, tell)
  <2>1. Creates(turn.tool) =>
          /\ args = tell.said /\ new.field \notin DOMAIN args
          /\ new.snap = None /\ new.patch = NoChanges
    <3> SUFFICES ASSUME Creates(turn.tool)
                 PROVE  /\ args = tell.said /\ new.field \notin DOMAIN args
                        /\ new.snap = None /\ new.patch = NoChanges
      OBVIOUS
    <3>1. /\ d.snap = None /\ d.field \notin DOMAIN turn.args
          /\ turn.args = turn.told.said
      BY <1>2 DEF Consistent
    <3>2. data = d
      BY <1>5, <3>1
    <3>3. data.patch = NoChanges
      BY <1>12 DEF Creates, Updates
    <3> QED BY <1>6, <1>8, <1>11, <1>13, <3>1, <3>2, <3>3
  <2>2. new.patch # NoChanges => Updates(turn.tool) /\ Collected(new, tell)
    <3> SUFFICES ASSUME new.patch # NoChanges PROVE Collected(new, tell)
      BY <1>6, <1>12
    <3>1. CASE data = d
      BY <1>2, <1>6, <1>8, <3>1 DEF Consistent, Collected
    <3>2. CASE data # d
      BY <1>5, <1>6, <1>8, <3>2 DEF Collected
    <3> QED BY <3>1, <3>2
  <2>3. new.patch = NoChanges /\ ~Creates(turn.tool) => tell.said = NoChanges
    BY <1>2, <1>5, <1>6, <1>8 DEF Consistent
  <2>4. Updates(turn.tool) => Kept(args, new, tell)
    <3> SUFFICES ASSUME Updates(turn.tool), "changes" \in DOMAIN args, ~new.low
                 PROVE  \/ args["changes"] = tell.extracted
                        \/ new.patch # NoChanges /\ args["changes"] = new.patch
      BY DEF Kept
    <3>1. CASE data.patch # NoChanges /\ ~data.multi
      BY <1>6, <1>13, <3>1
    <3>2. CASE data.patch = NoChanges \/ data.multi
      <4>1. /\ "changes" \in DOMAIN turn.args
            /\ args["changes"] = turn.args["changes"]
        BY <1>11, <1>13, <3>2
      <4>2. \/ turn.args["changes"] = turn.told.extracted
            \/ d.patch # NoChanges /\ turn.args["changes"] = d.patch
        BY <1>2, <1>6, <4>1 DEF Consistent, Kept
      <4> QED BY <1>5, <1>6, <1>8, <4>1, <4>2
    <3> QED BY <3>1, <3>2
  <2>5. Updates(turn.tool) => StillOpen(args, new)
    <3> SUFFICES ASSUME Updates(turn.tool), new.snap = None,
                        new.multi \/ new.field \in {"changes", "changes_multi"}
                 PROVE  "changes" \notin DOMAIN args
      BY DEF StillOpen
    <3>1. data = d /\ d.snap = None
      BY <1>5, <1>6
    <3>2. "changes" \notin DOMAIN turn.args
      BY <1>2, <1>6, <3>1 DEF Consistent, StillOpen
    <3>3. data.patch = NoChanges
      BY <1>2, <3>1 DEF Consistent, Collected
    <3> QED BY <1>11, <1>13, <3>2, <3>3
  <2>6. new.field = "request_id" => new.snap = None
    BY <1>2, <1>5, <1>6, NoneAssumption DEF Consistent
  <2>7. ~Creates(turn.tool) /\ new.snap = None /\ new.field \in {"request_id", None}
          => new.options.ids \subseteq Requests \cup People
    BY <1>2, <1>5, <1>6 DEF Consistent
  <2> QED BY <1>2, <1>13, <2>1, <2>2, <2>3, <2>4, <2>5, <2>6, <2>7
      DEF Consistent
<1>17. Selected(args, new)
  BY <1>3, <1>6, <1>9, <1>13 DEF Selected
<1>18. TurnOK'
  <2>1. /\ Consistent(turn'.tool, turn'.args, turn'.data, turn'.told)
        /\ Selected(turn'.args, turn'.data)
    BY <1>15, <1>16, <1>17
  <2> QED BY <1>3, <1>6, <1>15, <2>1 DEF TurnOK, Consistent, Collected,
             Kept, StillOpen, Selected
<1> QED BY <1>1, <1>2, <1>13, <1>15, <1>18, TurnGoesOn

-----------------------------------------------------------------------------
(* The next question, or the card                                          *)

LEMMA BoundsAre ==
    ASSUME NEW field, NEW d \in Data, NEW args,
           turn.tool = "leave_create_request" => args \in Changes
    PROVE  /\ Bounds(field, d, args).min \in Dates
           /\ Bounds(field, d, args).max \in Dates
<1> DEFINE now == IF d.snap = None THEN d.patch
                  ELSE With(d.patch, Original[d.snap])
           At(x, f) == IF f \in DOMAIN x THEN x[f] ELSE None
           create == turn.tool = "leave_create_request"
<1>1. ASSUME NEW x \in Changes, NEW f \in DateFields
      PROVE  f \in DOMAIN x => x[f] \in Dates
  <2>1. Values(f) = 1 .. MaxDate
    BY DEF Values, DateFields
  <2>2. f \in DOMAIN x => x[f] \in Values(f)
    BY ChangesAre DEF IsChanges
  <2> QED BY <2>1, <2>2 DEF Dates
<1>2. ASSUME NEW f \in DateFields
      PROVE  f \in DOMAIN now => now[f] \in Dates
  <2>1. d.patch \in Changes
    BY DEF Data
  <2>2. CASE d.snap = None
    BY <1>1, <2>1, <2>2
  <2>3. CASE d.snap # None
    <3>1. d.snap \in Requests
      BY <2>3 DEF Data
    <3>2. Original[d.snap] \in Changes
      BY <3>1, OriginalAssumption
    <3>3. /\ f \in DOMAIN d.patch => d.patch[f] \in Dates
          /\ f \in DOMAIN Original[d.snap] => Original[d.snap][f] \in Dates
      BY <1>1, <2>1, <3>2
    <3> QED BY <2>3, <3>3 DEF With
  <2> QED BY <2>2, <2>3
<1>3. /\ \A f \in DateFields : At(now, f) \in Dates
      /\ create => \A f \in DateFields : At(args, f) \in Dates
  <2>1. None \in Dates
    BY DEF Dates
  <2> HIDE DEF now
  <2> QED BY <1>1, <1>2, <2>1
<1>4. Today \in Dates /\ None \in Dates
  BY DatesAssumption DEF Dates
<1>5. Bounds(field, d, args) =
        [min |-> CASE field = "date_to" /\ create -> At(args, "date_from")
                   [] field = "date_to" /\ ~create -> At(now, "date_from")
                   [] field = "date_from" /\ create -> Today
                   [] OTHER -> None,
         max |-> IF field = "date_from" /\ ~create
                 THEN At(now, "date_to") ELSE None]
  BY DEF Bounds
<1>6. "date_from" \in DateFields /\ "date_to" \in DateFields
  BY DEF DateFields
<1> HIDE DEF now, At
<1>7. Bounds(field, d, args).max \in Dates
  BY <1>3, <1>4, <1>5, <1>6
<1>8. Bounds(field, d, args).min \in Dates
  <2>1. CASE field = "date_to" /\ create
    BY <1>3, <1>5, <1>6, <2>1
  <2>2. CASE field = "date_to" /\ ~create
    BY <1>3, <1>5, <1>6, <2>2
  <2>3. CASE field = "date_from" /\ create
    BY <1>4, <1>5, <2>3
  <2>4. CASE field # "date_to" /\ ~(field = "date_from" /\ create)
    BY <1>4, <1>5, <2>4
  <2> QED BY <2>1, <2>2, <2>3, <2>4
<1> QED BY <1>7, <1>8

LEMMA AskKeeps == ASSUME LeaveIInv, AskClarification PROVE LeaveIInv'
<1> DEFINE d == turn.data
           field == IF d.field # None THEN d.field
                    ELSE NextSlot(turn.tool, turn.args)
           b == Bounds(field, d, turn.args)
           OptionsOf(types) ==
               IF field \in {"changes", "changes_multi"}
               THEN Offer("fields", ChangeOptions(field, d.patch))
               ELSE IF field = "leave_type_id" /\ d.options.ids = {}
               THEN Offer("types", types)
               ELSE d.options
<1>1. /\ turn.at = "validate" /\ turn.at # "idle" /\ Incomplete
      /\ told' = turn.told /\ turn' = Idle /\ card' = card
  BY DEF AskClarification
<1>2. /\ turn.tool \in Tools /\ turn.args \in Arguments[turn.tool]
      /\ turn.memory \in SUBSET Requests
      /\ d \in Data /\ turn.told \in Told
      /\ Consistent(turn.tool, turn.args, d, turn.told)
  BY <1>1, TurnFacts
<1>3. (turn.asks => ~d.multi) /\ Selected(turn.args, d)
  BY <1>1 DEF LeaveIInv, TurnOK
<1>4. PICK types \in {{}, LeaveTypes} :
        row' = Row("awaiting", turn.tool, turn.args,
                   [d EXCEPT !.field = field, !.options = OptionsOf(types),
                             !.min = b.min, !.max = b.max],
                   turn.memory)
  BY DEF AskClarification
<1> DEFINE options == OptionsOf(types)
           new == [d EXCEPT !.field = field, !.options = options,
                            !.min = b.min, !.max = b.max]
<1>5. /\ NextSlot(turn.tool, turn.args) = None
           \/ NextSlot(turn.tool, turn.args) \notin DOMAIN turn.args
      /\ NextSlot(turn.tool, turn.args)
           \in ChangeFields \cup {"request_id", "changes", None}
      /\ Updates(turn.tool) /\ Missing(turn.tool, turn.args) # {}
           => \/ "request_id" \notin DOMAIN turn.args
              \/ "changes" \notin DOMAIN turn.args
  BY <1>2, NextIsMissing
<1>6. field \in ChangeFields \cup {"request_id", "changes", "changes_multi", None}
  BY <1>2, <1>5 DEF Data
<1>7. b.min \in Dates /\ b.max \in Dates
  <2>1. turn.tool = "leave_create_request" => turn.args \in Changes
    BY <1>2, CreatesAre
  <2> QED BY <1>2, <2>1, BoundsAre
<1>8. /\ options \in Options
      /\ field \in {"changes", "changes_multi"}
           => options.ids \subseteq ChangeFields \cup {"multiple", "done"}
      /\ field \in {"request_id", None} => options = d.options
  <2>1. d.options \in Options
    BY <1>2 DEF Data
  <2>2. ChangeOptions(field, d.patch) \subseteq ChangeFields \cup {"multiple", "done"}
    BY DEF ChangeOptions
  <2>3. field \in {"request_id", None} => field # "leave_type_id"
    BY NoneAssumption DEF ChangeFields
  <2>4. field \in {"request_id", None} => field \notin {"changes", "changes_multi"}
    BY NoneAssumption
  <2> HIDE DEF field
  <2>5. field \in {"changes", "changes_multi"}
          => options.ids = ChangeOptions(field, d.patch)
    BY DEF Offer
  <2>6. options \in Options
    <3>1. CASE field \in {"changes", "changes_multi"}
      BY <2>2, <3>1 DEF Options, Offer
    <3>2. CASE field \notin {"changes", "changes_multi"}
      BY <2>1, <3>2 DEF Options, Offer
    <3> QED BY <3>1, <3>2
  <2> QED BY <2>2, <2>3, <2>4, <2>5, <2>6
<1> HIDE DEF options, b, field
<1>9. /\ new \in Data /\ new.field = field /\ new.options = options
      /\ new.snap = d.snap /\ new.ref = d.ref /\ new.patch = d.patch
      /\ new.multi = d.multi /\ new.low = d.low
  BY <1>2, <1>6, <1>7, <1>8 DEF Data
<1>10. row' = Row("awaiting", turn.tool, turn.args, new, turn.memory)
  BY <1>4 DEF options, b, field
<1> HIDE DEF new
<1>11. /\ row'.status = "awaiting" /\ row'.tool = turn.tool
       /\ row'.args = turn.args /\ row'.data = new
       /\ row' \in [status : {"active", "awaiting", "confirm"},
                    tool : Tools \cup {None},
                    args : UNION {Arguments[t] : t \in Tools},
                    data : Data, memory : SUBSET Requests]
  <2>1. turn.args \in UNION {Arguments[t] : t \in Tools}
    BY <1>2
  <2> QED BY <1>2, <1>9, <1>10, <2>1 DEF Row
\* The question, and the arguments it comes with.
<1>12. \/ field = d.field
       \/ d.field = None /\ field = NextSlot(turn.tool, turn.args)
  BY DEF field
<1>13. Consistent(turn.tool, turn.args, new, turn.told)
  <2>1. Creates(turn.tool) => new.field \notin DOMAIN turn.args
    <3> SUFFICES ASSUME Creates(turn.tool) PROVE field \notin DOMAIN turn.args
      BY <1>9
    <3>1. d.field \notin DOMAIN turn.args
      BY <1>2 DEF Consistent
    <3>2. None \notin DOMAIN turn.args
      BY <1>2, CreatesAre, ChangesAre, NoneAssumption DEF Creates, IsChanges
    <3> QED BY <1>5, <1>12, <3>1, <3>2
  <2>2. Updates(turn.tool) => StillOpen(turn.args, new)
    <3> SUFFICES ASSUME Updates(turn.tool), d.snap = None,
                        d.multi \/ field \in {"changes", "changes_multi"}
                 PROVE  "changes" \notin DOMAIN turn.args
      BY <1>9 DEF StillOpen
    <3>1. CASE d.multi \/ d.field \in {"changes", "changes_multi"}
      BY <1>2, <3>1 DEF Consistent, StillOpen
    <3>2. CASE ~d.multi /\ field = NextSlot(turn.tool, turn.args)
      <4>1. field # None /\ field # "changes_multi"
        <5>1. field # None
          BY <3>2, NoneAssumption
        <5>2. NextSlot(turn.tool, turn.args) # "changes_multi"
          BY <1>2, NextIsMissing, NoneAssumption DEF Updates, Creates
        <5> QED BY <3>2, <5>1, <5>2
      <4> QED BY <1>5, <3>2, <4>1
    <3> QED BY <1>12, <3>1, <3>2
  <2>3. Updates(turn.tool) => Kept(turn.args, new, turn.told)
    BY <1>2, <1>9 DEF Consistent, Kept
  <2>4. new.field = "request_id" => new.snap = None
    <3>1. "request_id" \notin DOMAIN turn.args => d.snap = None
      BY <1>3 DEF Selected
    <3> QED BY <1>2, <1>5, <1>9, <1>12, <3>1, NoneAssumption DEF Consistent
  <2>5. ~Creates(turn.tool) /\ new.snap = None /\ new.field \in {"request_id", None}
          => new.options.ids \subseteq Requests \cup People
    BY <1>2, <1>8, <1>9, <1>12 DEF Consistent
  <2> QED BY <1>2, <1>9, <2>1, <2>2, <2>3, <2>4, <2>5 DEF Consistent, Collected
<1>14. Updates(turn.tool) /\ d.multi /\ ~d.low => "changes" \notin DOMAIN turn.args
  <2> SUFFICES ASSUME Updates(turn.tool), d.multi, ~d.low
               PROVE  "changes" \notin DOMAIN turn.args
    OBVIOUS
  <2>1. Missing(turn.tool, turn.args) # {}
    BY <1>1, <1>3 DEF Incomplete
  <2>2. d.snap = None => "changes" \notin DOMAIN turn.args
    BY <1>2 DEF Consistent, StillOpen
  <2>3. d.snap # None => "request_id" \in DOMAIN turn.args
    BY <1>3 DEF Selected
  <2> QED BY <1>5, <2>1, <2>2, <2>3
<1>15. RowOK'
  <2>1. Consistent(row'.tool, row'.args, row'.data, told')
    BY <1>1, <1>11, <1>13
  <2>2. Selected(row'.args, row'.data)
    BY <1>3, <1>9, <1>11 DEF Selected
  <2> HIDE DEF d
  <2> QED BY <1>8, <1>9, <1>11, <1>14, <2>1, <2>2
      DEF RowOK, Asked, Consistent, Collected, Kept, StillOpen, Selected
<1>16. TurnOK'
  BY <1>1, IdleIs DEF TurnOK
<1>17. CardOK'
  <2>1. card.tool = None /\ CardOK
    BY <1>1 DEF LeaveIInv, CardOK
  <2> QED BY <1>1, <2>1, NoneAssumption DEF CardOK, Creates, Updates, Tools
<1>18. LeaveTypeOK'
  BY <1>1, <1>2, <1>11, IdleIs DEF LeaveIInv, LeaveTypeOK
<1> QED BY <1>15, <1>16, <1>17, <1>18 DEF LeaveIInv

LEMMA ConfirmKeeps == ASSUME LeaveIInv, CreateConfirmation PROVE LeaveIInv'
<1> DEFINE d == turn.data
<1>1. /\ turn.at = "validate" /\ turn.at # "idle" /\ ~Incomplete
      /\ card' = [tool |-> turn.tool, args |-> turn.args, snap |-> d.snap]
      /\ row' = [Cleared(row.memory) EXCEPT !.status = "confirm"]
      /\ told' = turn.told /\ turn' = Idle
  BY DEF CreateConfirmation
<1>2. /\ turn.tool \in Tools /\ turn.args \in Arguments[turn.tool]
      /\ d \in Data /\ turn.told \in Told
      /\ Consistent(turn.tool, turn.args, d, turn.told)
      /\ row.memory \in SUBSET Requests
  BY <1>1, TurnFacts DEF LeaveIInv, LeaveTypeOK
<1>3. Selected(turn.args, d)
  BY <1>1 DEF LeaveIInv, TurnOK
<1>4. ~d.low /\ Missing(turn.tool, turn.args) = {}
  BY <1>1 DEF Incomplete
<1> HIDE DEF d
<1>5. /\ row' \in [status : {"active", "awaiting", "confirm"},
                   tool : Tools \cup {None},
                   args : UNION {Arguments[t] : t \in Tools},
                   data : Data, memory : SUBSET Requests]
      /\ row'.status = "confirm" /\ row'.tool = None
  BY <1>1, <1>2, ClearedIs
<1>6. /\ card' \in [tool : Tools \cup {None},
                    args : UNION {Arguments[t] : t \in Tools},
                    snap : Requests \cup {None}]
      /\ card'.tool = turn.tool /\ card'.args = turn.args
      /\ card'.snap = d.snap
  <2>1. turn.args \in UNION {Arguments[t] : t \in Tools}
    BY <1>2
  <2>2. d.snap \in Requests \cup {None}
    BY <1>2 DEF Data
  <2> QED BY <1>1, <1>2, <2>1, <2>2
<1>7. LeaveTypeOK'
  BY <1>1, <1>2, <1>5, <1>6, IdleIs DEF LeaveTypeOK
<1>8. RowOK' /\ TurnOK'
  BY <1>1, <1>5, IdleIs DEF RowOK, TurnOK
<1>9. CardOK'
  <2>1. turn'.at = "idle" /\ row'.status = "confirm"
    BY <1>1, <1>5, IdleIs
  <2>2. d.snap # None =>
          "request_id" \in DOMAIN turn.args /\ turn.args["request_id"] = d.snap
    BY <1>3 DEF Selected
  <2>3. Creates(turn.tool) => turn.args = turn.told.said
    BY <1>2 DEF Consistent
  <2>4. ASSUME Updates(turn.tool), turn.args["changes"] # turn.told.extracted
        PROVE  /\ d.snap # None
               /\ turn.args["changes"] # NoChanges
               /\ turn.args["changes"] = Differing(d.snap, turn.told.said)
               /\ InOrder(With(turn.args["changes"], Original[d.snap]))
    <3>1. "changes" \in DOMAIN turn.args
      BY <1>2, <1>4, <2>4, NextIsMissing
    <3>2. d.patch # NoChanges /\ turn.args["changes"] = d.patch
      BY <1>2, <1>4, <2>4, <3>1 DEF Consistent, Kept
    <3>3. Collected(d, turn.told)
      BY <1>2, <3>2 DEF Consistent
    <3> QED BY <3>2, <3>3 DEF Collected
  <2> QED BY <1>1, <1>6, <2>1, <2>2, <2>3, <2>4 DEF CardOK
<1> QED BY <1>7, <1>8, <1>9 DEF LeaveIInv

LEMMA NothingHappens == ASSUME LeaveIInv, UNCHANGED vars PROVE LeaveIInv'
<1>1. row' = row /\ turn' = turn /\ card' = card /\ told' = told
  BY DEF vars
<1>2. LeaveTypeOK'
  BY <1>1 DEF LeaveIInv, LeaveTypeOK
<1>3. RowOK'
  <2>1. RowOK
    BY DEF LeaveIInv
  <2> QED BY <1>1, <2>1 DEF RowOK, Asked, Consistent, Collected, Kept,
              StillOpen, Selected
<1>4. TurnOK'
  <2>1. TurnOK
    BY DEF LeaveIInv
  <2> QED BY <1>1, <2>1 DEF TurnOK, Consistent, Collected, Kept, StillOpen,
              Selected
<1>5. CardOK'
  <2>1. CardOK
    BY DEF LeaveIInv
  <2> QED BY <1>1, <2>1 DEF CardOK
<1> QED BY <1>2, <1>3, <1>4, <1>5 DEF LeaveIInv

-----------------------------------------------------------------------------
(* What it comes to                                                        *)

\* The row, the turn and the card agree with the answers after every step of
\* the nodes (resolve_arguments.py, merge_clarification.py,
\* validate_selection.py, ask_clarification.py, create_confirmation.py).
THEOREM LeaveInvariance == Spec => []LeaveIInv
<1>1. Init => LeaveIInv
  BY InitHolds
<1>2. LeaveIInv /\ [Next]_vars => LeaveIInv'
  <2> SUFFICES ASSUME LeaveIInv, [Next]_vars PROVE LeaveIInv'
    OBVIOUS
  <2>1. ASSUME NEW tool \in Tools, NewQuery(tool) PROVE LeaveIInv'
    BY <2>1, NewQueryKeeps
  <2>2. CASE WorkflowCancel \/ SelectionFails \/ TurnFails
    BY <2>2, TurnEnds
  <2>3. CASE Answer
    BY <2>3, AnswerKeeps
  <2>4. CASE ListActionable
    BY <2>4, ListKeeps
  <2>5. CASE LoadDetails
    BY <2>5, DetailsKeep
  <2>6. CASE FillSlots
    BY <2>6, FillKeeps
  <2>7. CASE AskClarification
    BY <2>7, AskKeeps
  <2>8. CASE CreateConfirmation
    BY <2>8, ConfirmKeeps
  <2>9. CASE UNCHANGED vars
    BY <2>9, NothingHappens
  <2> QED BY <2>1, <2>2, <2>3, <2>4, <2>5, <2>6, <2>7, <2>8, <2>9 DEF Next
<1> QED BY <1>1, <1>2, PTL DEF Spec

\* The arguments are those of the tool in every row, turn and card
\* (SlotManager.validate), whatever was answered in which order.
THEOREM LeaveTypeCorrect == Spec => []LeaveTypeOK
<1>1. LeaveIInv => LeaveTypeOK
  BY DEF LeaveIInv
<1> QED BY <1>1, LeaveInvariance, PTL

\* A card is about the request whose details were loaded
\* (resolve_arguments_node puts the trusted request in).
THEOREM CardsAreOfLoadedRequest == Spec => []CardIsOfLoadedRequest
<1>1. LeaveIInv => CardIsOfLoadedRequest
  BY DEF LeaveIInv, CardOK, CardIsOfLoadedRequest
<1> QED BY <1>1, LeaveInvariance, PTL

\* Every change on a card differs from what the request has, and the period
\* it results in does not end before it starts (merge_clarification_node).
THEOREM CardsApply == Spec => []CardChangesApply
<1>1. LeaveIInv => CardChangesApply
  <2> SUFFICES ASSUME LeaveIInv, card.tool = "leave_update_request",
                      card.args["changes"] # told.extracted
               PROVE  LET changes == card.args["changes"]
                          r == card.args["request_id"]
                      IN  /\ changes # NoChanges
                          /\ \A f \in DOMAIN changes :
                                changes[f] # Original[r][f]
                          /\ InOrder(With(changes, Original[r]))
    BY DEF CardChangesApply
  <2>1. /\ card.snap # None /\ card.args["changes"] # NoChanges
        /\ card.args["changes"] = Differing(card.snap, told.said)
        /\ InOrder(With(card.args["changes"], Original[card.snap]))
        /\ card.args["request_id"] = card.snap
    BY DEF LeaveIInv, CardOK, Updates
  <2>2. \A f \in DOMAIN Differing(card.snap, told.said) :
          Differing(card.snap, told.said)[f] # Original[card.snap][f]
    BY DEF Differing
  <2> QED BY <2>1, <2>2
<1> QED BY <1>1, LeaveInvariance, PTL

\* A card carries the last accepted answer of every field, and no other
\* (merge_clarification_node, resolve_arguments_node).
THEOREM CardsKeepAnswers == Spec => []CardKeepsAnswers
<1>1. LeaveIInv => CardKeepsAnswers
  BY DEF LeaveIInv, CardOK, CardKeepsAnswers, Creates, Updates
<1> QED BY <1>1, LeaveInvariance, PTL

\* No answered question comes back (ask_clarification_node asks for what the
\* stored arguments lack).
THEOREM AnswersCountOnce == Spec => []AnsweredOnce
<1>1. LeaveIInv => AnsweredOnce
  BY DEF LeaveIInv, RowOK, Consistent, AnsweredOnce, Asked, Creates
<1> QED BY <1>1, LeaveInvariance, PTL

=============================================================================
