------------------------------- MODULE Budget -------------------------------
(***************************************************************************)
(* The budget of one request: how full the provider's window is, which     *)
(* candidate blocks fit in front of the current input, whether the blocks  *)
(* the context engine proposes may replace the deterministic selection,    *)
(* and the replay of the whole computation in bytes when the tokenizer     *)
(* fails.  A workload w has the inputs of the computation:                 *)
(*   view, candidates, current, trusted (0 for none), host, opaque, fixed, *)
(*   profile [limit, reserved, target, ceiling, margin], engine [accepted, *)
(*   provenance, selected], slack (what joining blocks adds to the sum of  *)
(*   their tokens), primary (whether the tokenizer of the profile works).  *)
(***************************************************************************)
EXTENDS Candidates

CONSTANTS
    Separator,        \* tokens between two blocks
    BytesPerToken,    \* the byte counter against the tokenizer
    MaxCoordinates,   \* ContextGraphConfig.max_coordinates
    CompactPercent, ProjectPercent,   \* the two pressure ratios
    ActivationScale   \* activation of a block the engine selects

(* What a counter makes of n tokens of text.                               *)
Count(counter, n) == IF counter = "bytes" THEN n * BytesPerToken ELSE n

Cost(counter, b) == Count(counter, b.tokens)

SumCosts(counter, blocks) == SumOf([i \in DOMAIN blocks |-> Cost(counter, blocks[i])])

(* _estimated_projection_cost                                              *)
Estimate(counter, blocks) ==
    IF blocks = <<>> THEN 0
    ELSE SumCosts(counter, blocks) + Count(counter, Separator) * (Len(blocks) - 1)

(* The recount of the joined text: bytes add up exactly, tokens may not.   *)
Exact(w, counter, blocks) ==
    IF Len(blocks) < 2 \/ counter = "bytes" THEN Estimate(counter, blocks)
    ELSE Max({0, Estimate(counter, blocks) + w.slack})

(* Room left for one more group after cost tokens in count blocks.         *)
Fits(counter, s, group, room) ==
    Estimate(counter, group) + (IF s.ids = {} THEN 0 ELSE Count(counter, Separator)) + s.cost
       <= room

TakeGroup(counter, s, positions, group) ==
    [s EXCEPT !.ids = @ \cup positions,
              !.cost = @ + Estimate(counter, group)
                         + IF s.ids = {} THEN 0 ELSE Count(counter, Separator)]

NothingTaken == [ids |-> {}, cost |-> 0, missing |-> FALSE]

AnyRequired(blocks) == \E i \in DOMAIN blocks : Required(blocks[i])

(* Mutant: the blocks of a group are weighed one by one.                   *)
NormalSelectionByBlock(counter, blocks, room) ==
    FoldLeftDomain(
        LAMBDA s, i :
            IF Fits(counter, s, <<blocks[i]>>, room)
            THEN TakeGroup(counter, s, {i}, <<blocks[i]>>)
            ELSE [s EXCEPT !.missing = @ \/ Required(blocks[i])],
        NothingTaken, blocks)

(* _normal_selection: whole groups in candidate order, as long as they fit.*)
NormalSelection(counter, blocks, room) ==
    FoldLeftDomain(
        LAMBDA s, i :
            LET positions == Group(blocks, i)
                group == At(blocks, positions)
            IN  IF ~FirstOfGroup(positions, i) THEN s
                ELSE IF Fits(counter, s, group, room)
                     THEN TakeGroup(counter, s, positions, group)
                     ELSE [s EXCEPT !.missing = @ \/ AnyRequired(group)],
        NothingTaken, blocks)
----------------------------------------------------------------------------

(* _contiguous_raw_tail of the event positions: back from the last one     *)
(* while each block ends where the next one starts.                        *)
ContiguousTail(blocks, positions) ==
    {i \in positions : \A j, k \in positions :
        i <= j /\ j < k /\ (\A m \in positions : m <= j \/ k <= m)
           => blocks[j].item + Cardinality(blocks[j].sources) = blocks[k].item}

(* _longest_raw_suffix: the most of the tail that fits beside s.           *)
RawSuffix(counter, blocks, s, tail, room) ==
    LET Suffix(k) == {i \in tail : k <= i}
        Holds(k) == Estimate(counter, At(blocks, s.ids \cup Suffix(k))) <= room
    IN  Suffix(Min({k \in 1..(Len(blocks) + 1) : Holds(k)} \cup {Len(blocks) + 1}))

(* Emergency, one group: it is taken if it is required and fits.           *)
EmergencyGroup(counter, blocks, s, positions, room) ==
    LET group == At(blocks, positions)
    IN  IF AnyRequired(group) /\ Fits(counter, s, group, room)
        THEN TakeGroup(counter, s, positions, group) ELSE s

(* _emergency_selection: slot by slot, the required groups that fit and    *)
(* the longest raw suffix; a group is handled at its first position, and   *)
(* the lone events together, after the other groups of their slot.         *)
EmergencySelection(counter, blocks, room) ==
    LET lone == {i \in DOMAIN blocks : blocks[i].kind = "event" /\ Group(blocks, i) = {i}}
        lastEvent == Max({0} \cup {i \in DOMAIN blocks : blocks[i].kind = "event"})
        WithRaw(s) ==
            LET suffix == RawSuffix(counter, blocks, s, ContiguousTail(blocks, lone), room)
            IN  IF suffix = {} THEN s ELSE TakeGroup(counter, s, suffix, At(blocks, suffix))
        Step(s, i) ==
            LET positions == Group(blocks, i)
                t == IF FirstOfGroup(positions, i) /\ i \notin lone
                     THEN EmergencyGroup(counter, blocks, s, positions, room) ELSE s
            IN  IF i = lastEvent /\ lone # {} THEN WithRaw(t) ELSE t
    IN  FoldLeftDomain(Step, NothingTaken, blocks)
----------------------------------------------------------------------------

(* _lowest_priority_optional_group: of the groups without a required block *)
(* the one that starts last.                                               *)
RemovableStarts(blocks) ==
    {i \in DOMAIN blocks : LET group == Group(blocks, i)
                           IN  FirstOfGroup(group, i) /\ ~AnyRequired(At(blocks, group))}

DropLowest(blocks) ==
    At(blocks, DOMAIN blocks \ Group(blocks, Max(RemovableStarts(blocks))))

(* _exact_final_selection: groups go until the recount fits; with nothing  *)
(* left to drop the selection stays too large.                             *)
Shorter(w, counter, blocks, room) ==
    IF Exact(w, counter, blocks) <= room \/ RemovableStarts(blocks) = {}
    THEN blocks ELSE DropLowest(blocks)

ShorterUpTo(w, counter, blocks, room) ==
    LET left[n \in 0..Len(blocks)] ==
            IF n = 0 THEN blocks ELSE Shorter(w, counter, left[n - 1], room)
    IN  left

ExactSelection(w, counter, blocks, room) ==
    ShorterUpTo(w, counter, blocks, room)[Len(blocks)]

EffectiveInputBudget(p) == Min({p.target, p.ceiling, p.limit - p.reserved})

RequiredBudget(w, counter) ==
    Count(counter, w.current) + Count(counter, w.fixed) + w.profile.margin

(* Mutant: what other plugins put in the list is not charged.              *)
RoomWithoutOpaque(w, counter) ==
    Max({0, EffectiveInputBudget(w.profile) - RequiredBudget(w, counter)})

Room(w, counter) ==
    Max({0, EffectiveInputBudget(w.profile) - Count(counter, w.opaque)
                - RequiredBudget(w, counter)})

NoAssembly(code) == [code |-> code, mode |-> "none", selected |-> <<>>, cost |-> 0]

(* The end of assemble, for the chosen positions and what the recount left.*)
Assembly(w, counter, blocks, chosen, final, mode) ==
    IF \/ Count(counter, w.opaque) + RequiredBudget(w, counter) > EffectiveInputBudget(w.profile)
       \/ \E i \in DOMAIN blocks : Required(blocks[i]) /\ i \notin chosen
       \/ Exact(w, counter, final) > Room(w, counter)
    THEN NoAssembly("required_input_exceeds_budget")
    ELSE [code |-> "none", mode |-> mode, selected |-> final, cost |-> Exact(w, counter, final)]

Recounted(w, counter, blocks, chosen, mode) ==
    Assembly(w, counter, blocks, chosen,
             ExactSelection(w, counter, At(blocks, chosen), Room(w, counter)), mode)

NormalOrEmergency(w, counter, blocks, normal) ==
    IF normal.missing
    THEN Recounted(w, counter, blocks,
                   EmergencySelection(counter, blocks, Room(w, counter)).ids, "emergency")
    ELSE Recounted(w, counter, blocks, normal.ids, "normal")

(* assemble, over candidates in their order                                *)
AssembleOrdered(w, counter, blocks) ==
    NormalOrEmergency(w, counter, blocks, NormalSelection(counter, blocks, Room(w, counter)))

Assemble(w, counter, candidates) == AssembleOrdered(w, counter, Ordered(candidates))
----------------------------------------------------------------------------

(* _score_for_pack: the engine's activation per token orders the optional  *)
(* blocks; required blocks keep their score.                               *)
ScoreForPack(counter, blocks, activated) ==
    [i \in DOMAIN blocks |->
        IF Required(blocks[i]) THEN blocks[i]
        ELSE [blocks[i] EXCEPT !.score =
                IF BlockId(blocks[i]) \in activated
                THEN ActivationScale \div Max({1, Cost(counter, blocks[i])}) ELSE 0]]

(* The gates between an accepted engine result and the pack it proposes:   *)
(* the closure of its blocks has to fit whole, within the coordinates of   *)
(* the graph and with every source event known to the graph.               *)
PassesGates(w, blocks, closed, packed, final) ==
    /\ Cardinality(closed) <= MaxCoordinates
    /\ w.engine.provenance
    /\ final.code = "none"
    /\ closed \subseteq packed
    /\ Closure(blocks, packed) = packed

Positions(blocks, ids) == {i \in DOMAIN blocks : BlockId(blocks[i]) \in ids}

Gated(w, blocks, closed, final) ==
    [ok |-> PassesGates(w, blocks, closed,
                        Positions(blocks, {BlockId(b) : b \in ToSet(final.selected)}), final),
     final |-> final]

PackClosure(w, counter, blocks, closed) ==
    Gated(w, blocks, closed,
          Assemble(w, counter, ScoreForPack(counter, At(blocks, closed), w.engine.selected)))

LivePack(w, counter, blocks) ==
    PackClosure(w, counter, blocks, Closure(blocks, Positions(blocks, w.engine.selected)))

(* The current input needs no candidate when it ends the delta.            *)
Satisfied(view) ==
    LET n == Len(view.delta)
    IN  IF n > 0 /\ view.delta[n].seq = view.current THEN {view.current} ELSE {}

Replace(fallback, usable, pack) ==
    IF fallback.code = "none" /\ usable /\ pack.ok
    THEN [assembly |-> pack.final, live |-> TRUE]
    ELSE [assembly |-> fallback, live |-> FALSE]

(* Mutant: the engine may answer for truncated candidates.                 *)
SelectLiveContextTruncated(w, counter, blocks) ==
    Replace(AssembleOrdered(w, counter, blocks), w.engine.accepted, LivePack(w, counter, blocks))

(* select_live_context: the deterministic selection comes first, its error *)
(* is the request's error, and only a pack that passes every gate replaces *)
(* it. Truncated candidates, a disabled or shadow engine, a failed build   *)
(* or solve and a rejected certificate all keep the fallback.              *)
SelectLiveContext(w, counter, blocks) ==
    Replace(AssembleOrdered(w, counter, blocks),
            /\ \A i \in DOMAIN blocks : blocks[i].complete
            /\ RequiredCandidatesComplete(w.view, blocks, Satisfied(w.view))
            /\ w.engine.accepted,
            LivePack(w, counter, blocks))
----------------------------------------------------------------------------

CeilPercent(n, percent) == (n * percent + 99) \div 100

(* assess_pressure: the usage the provider reported with this input, or    *)
(* else the count of everything the host is about to send.                 *)
AssessPressure(w, counter) ==
    LET used == IF w.trusted > 0 THEN w.trusted + Count(counter, w.current)
                ELSE Count(counter, w.host)
        capacity == w.profile.limit - w.profile.reserved
    IN  [should_compact |-> used >= CeilPercent(capacity, CompactPercent),
         should_project |-> used >= CeilPercent(capacity, ProjectPercent)]

Outcome(pressure, result, allowed, code) ==
    [should_compact |-> pressure.should_compact, should_project |-> pressure.should_project,
     assembly |-> result.assembly, live |-> result.live, mutation_allowed |-> allowed,
     stable_code |-> code]

NoResult == [assembly |-> NoAssembly("none"), live |-> FALSE]

(* _run_once. The closing check that every required candidate is selected  *)
(* is made on the assembly of either selection.                            *)
Verdict(w, pressure, result) ==
    IF EffectiveInputBudget(w.profile) < 1
    THEN Outcome([should_compact |-> TRUE, should_project |-> TRUE], NoResult, FALSE,
                 "context_limit_too_small")
    ELSE IF ~pressure.should_project THEN Outcome(pressure, NoResult, FALSE, "none")
    ELSE IF \/ result.assembly.code # "none"
            \/ \E b \in ToSet(w.candidates) :
                  /\ Required(b)
                  /\ BlockId(b) \notin {BlockId(c) : c \in ToSet(result.assembly.selected)}
    THEN Outcome(pressure, NoResult, FALSE, "required_input_exceeds_budget")
    ELSE Outcome(pressure, result, TRUE, "none")

RunOnce(w, counter) ==
    Verdict(w, AssessPressure(w, counter),
            SelectLiveContext(w, counter, Ordered(w.candidates)))

(* run_request_budget: a tokenizer that fails anywhere discards the whole  *)
(* run, which is replayed in bytes; too small a budget counts nothing.     *)
RunRequestBudget(w) ==
    LET counter == IF w.primary \/ EffectiveInputBudget(w.profile) < 1
                   THEN "tokens" ELSE "bytes"
    IN  [outcome |-> RunOnce(w, counter), counter |-> counter]
=============================================================================
