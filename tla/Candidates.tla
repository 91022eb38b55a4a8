----------------------------- MODULE Candidates -----------------------------
(***************************************************************************)
(* What a request may put in front of the provider: the candidate blocks   *)
(* retrieved from one immutable view (the capsules of the active snapshot  *)
(* and the raw delta after it), in the slot order of the runtime, and the  *)
(* groups of blocks that are kept or dropped together.                     *)
(*   capsule  [id, level, items, task, sources, score, tokens]             *)
(*   item     [field, id, active, sources, score, tokens]                  *)
(*   block    [kind, capsule, item, sources, score, tokens, complete]      *)
(* kind, capsule and item make the block id; the item of an event block is *)
(* the sequence of its first event.  A score stands for the weight of the  *)
(* kind and the lexical match, tokens for the length of the text.          *)
(***************************************************************************)
EXTENDS ToolLoop, FiniteSets, TLC

CONSTANTS
    MaxCapsules, MaxItemsPerField, MaxDeltaEvents, MaxCandidates   \* RetrievalConfig

(* RUNTIME_SLOT_PRIORITY, and within one slot the order of the id prefixes.*)
SlotRank(kind) ==
    CASE kind = "goal" -> 1 [] kind = "constraint" -> 2 [] kind = "event" -> 3
      [] kind = "anchor" -> 4 [] kind = "task" -> 6
      [] kind \in {"decision", "dependency", "entity"} -> 7
      [] kind = "episode" -> 8 [] kind = "global" -> 9

PrefixRank(kind) == IF kind = "dependency" THEN 1 ELSE IF kind = "entity" THEN 2 ELSE 0

Required(b) == b.kind \in {"goal", "constraint", "event", "anchor"}

BlockId(b) == <<b.kind, b.capsule, b.item>>

SortKey(b) ==
    <<SlotRank(b.kind), IF b.kind = "event" THEN b.item ELSE -b.score,
      PrefixRank(b.kind), b.capsule, b.item>>

Precedes(a, b) ==
    LET x == SortKey(a)
        y == SortKey(b)
    IN  \E i \in 1..5 : x[i] < y[i] /\ \A j \in 1..(i - 1) : x[j] = y[j]

(* sorted by that key: each block goes behind those that do not follow it. *)
Insert(blocks, b) ==
    InsertAt(blocks, 1 + Cardinality({i \in DOMAIN blocks : ~Precedes(b, blocks[i])}), b)

OrderedUpTo(blocks) ==
    LET sorted[n \in 0..Len(blocks)] ==
            IF n = 0 THEN <<>> ELSE Insert(sorted[n - 1], blocks[n])
    IN  sorted

Ordered(blocks) == OrderedUpTo(blocks)[Len(blocks)]

Take(s, n) == SubSeq(s, 1, IF Len(s) < n THEN Len(s) ELSE n)
----------------------------------------------------------------------------

(* The blocks of one field of a capsule: the first items of the field, and *)
(* of goals, constraints and anchors only the active ones.                 *)
FieldItems(c, field) ==
    SelectSeq(Take(SelectSeq(c.items, LAMBDA x : x.field = field), MaxItemsPerField),
              LAMBDA x : x.active \/ field \in {"decision", "entity", "dependency"})

ItemBlock(c, x) ==
    [kind |-> x.field, capsule |-> c.id, item |-> x.id,
     sources |-> x.sources \cup
        IF x.field # "decision" THEN {}
        ELSE UNION {y.sources : y \in ToSet(FieldItems(c, "dependency"))},
     score |-> x.score, tokens |-> x.tokens, complete |-> TRUE]

FieldBlocks(c, field) ==
    LET items == FieldItems(c, field) IN [i \in DOMAIN items |-> ItemBlock(c, items[i])]

CapsuleBlock(c, kind) ==
    <<[kind |-> kind, capsule |-> c.id, item |-> 0, sources |-> c.sources,
       score |-> c.score, tokens |-> c.tokens, complete |-> TRUE]>>

TaskBlock(c) == IF c.level = "task" /\ c.task THEN CapsuleBlock(c, "task") ELSE <<>>

Background(c) == IF c.level \in {"episode", "global"} THEN CapsuleBlock(c, c.level) ELSE <<>>

(* _bounded_raw_units: the longest suffix of units within MaxDeltaEvents,  *)
(* and the last unit whatever its length.                                  *)
BoundedRawUnits(units) ==
    LET Events(k) == Len(FlattenSeq(SubSeq(units, k, Len(units))))
        Keep(k) == k = Len(units) \/ Events(k) <= MaxDeltaEvents
    IN  IF MaxDeltaEvents < 1 THEN <<>>
        ELSE SelectSeq([k \in DOMAIN units |-> IF Keep(k) THEN units[k] ELSE <<>>],
                       LAMBDA u : u # <<>>)

UnitBlock(unit) ==
    [kind |-> "event", capsule |-> 0, item |-> unit[1].seq,
     sources |-> {unit[i].seq : i \in DOMAIN unit}, score |-> 0, tokens |-> Len(unit),
     complete |-> TRUE]

RawBlocks(delta) ==
    LET units == IF EvaluateToolLoop(delta) = "stable"
                 THEN BoundedRawUnits(DurableEventUnits(delta)) ELSE <<>>
    IN  [i \in DOMAIN units |-> UnitBlock(units[i])]

(* required_candidates_complete: every active goal, constraint and anchor  *)
(* of the view, and every delta event not satisfied otherwise, is there.   *)
RequiredCandidatesComplete(view, blocks, satisfied) ==
    LET present == {BlockId(blocks[i]) : i \in DOMAIN blocks}
        raw == UNION {blocks[i].sources : i \in {k \in DOMAIN blocks : blocks[k].kind = "event"}}
    IN  /\ \A i \in DOMAIN view.capsules : LET c == view.capsules[i] IN
              \A k \in DOMAIN c.items : LET x == c.items[k] IN
                 x.active /\ x.field \in {"goal", "constraint", "anchor"}
                    => BlockId(ItemBlock(c, x)) \in present
        /\ \A i \in DOMAIN view.delta : view.delta[i].seq \in raw \cup satisfied

(* select_candidates. Once MaxCandidates blocks are taken every later one  *)
(* is refused, so the selection is a prefix of all of them.                *)
SelectCandidates(view) ==
    LET capsules == Take(view.capsules, MaxCapsules)
        Each(Op(_)) == FlattenSeq([i \in DOMAIN capsules |-> Op(capsules[i])])
        selected == Take(
            Each(LAMBDA c : FieldBlocks(c, "goal") \o FieldBlocks(c, "constraint"))
              \o RawBlocks(view.delta)
              \o Each(LAMBDA c : FieldBlocks(c, "anchor"))
              \o Each(TaskBlock)
              \o Each(LAMBDA c : FieldBlocks(c, "decision") \o FieldBlocks(c, "entity")
                                   \o FieldBlocks(c, "dependency"))
              \o Each(Background), MaxCandidates)
        complete == RequiredCandidatesComplete(view, selected, {})
    IN  Ordered([i \in DOMAIN selected |-> [selected[i] EXCEPT !.complete = complete]])
----------------------------------------------------------------------------

(* _companions: a dependency goes with the blocks of its capsule and with  *)
(* the blocks that share a source event with it.                           *)
Companions(a, b) ==
    /\ a.kind = "dependency" \/ b.kind = "dependency"
    /\ \/ a.capsule # 0 /\ a.capsule = b.capsule
       \/ a.sources \cap b.sources # {}

(* Everything reached from the positions S through companions: after as    *)
(* many rounds as there are blocks nothing more is added.                  *)
Connected(blocks, S) ==
    FoldLeft(LAMBDA T, b : T \cup {j \in DOMAIN blocks \ T :
                                     \E i \in T : Companions(blocks[i], blocks[j])},
             S, blocks)

(* dependency_groups: the group of the block at position i, as positions.  *)
Group(blocks, i) == Connected(blocks, {i})

(* A group is handled at the first of its positions.                       *)
FirstOfGroup(group, i) == \A j \in group : i <= j

(* close_dependency_closure: the selected and the required positions with  *)
(* all their companions.                                                   *)
Closure(blocks, S) == Connected(blocks, S \cup {i \in DOMAIN blocks : Required(blocks[i])})

At(blocks, S) ==
    LET marked == [i \in DOMAIN blocks |-> <<i \in S, blocks[i]>>]
        kept == Without(marked, {<<FALSE, blocks[i]>> : i \in DOMAIN blocks})
    IN  [i \in DOMAIN kept |-> kept[i][2]]
=============================================================================
