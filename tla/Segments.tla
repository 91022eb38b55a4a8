------------------------------ MODULE Segments ------------------------------
(***************************************************************************)
(* How a compaction cuts its delta: segment() groups durable units under   *)
(* the limits of the segmenter in canonical tokens, and the extractive     *)
(* backend normalises the cuts to unit boundaries and splits what does not *)
(* fit the prompt of its provider, counted with that provider's tokenizer. *)
(* A segment is the sequence of its events.                                *)
(***************************************************************************)
EXTENDS ToolLoop

CONSTANTS
    MaxEventsPerSegment, MaxTokensPerSegment,   \* SegmenterConfig
    CanonicalCount(_),      \* canonical token count of an event
    SerializedCount(_),     \* its count inside the prompt, by the provider's tokenizer
    PromptOverhead          \* cost of the system prompt and the empty payload

Total(count(_), events) == FoldLeft(LAMBDA n, e : n + count(e), 0, events)

(* close_current. *)
Close(s) == [segments |-> Append(s.segments, s.current), current |-> <<>>]

TooFull(current, unit) ==
    /\ current # <<>>
    /\ \/ Len(current) + Len(unit) > MaxEventsPerSegment
       \/ Total(CanonicalCount, current) + Total(CanonicalCount, unit) > MaxTokensPerSegment

(* A unit above the limits, the last unit and a full segment all close     *)
(* the segment they are in. The worker prefers no boundary of its own.     *)
AddUnit(s, unit, last) ==
    LET room == IF TooFull(s.current, unit) THEN Close(s) ELSE s
        next == [room EXCEPT !.current = @ \o unit]
    IN  IF \/ last
           \/ Len(next.current) >= MaxEventsPerSegment
           \/ Total(CanonicalCount, next.current) >= MaxTokensPerSegment
        THEN Close(next) ELSE next

Segment(events) ==
    LET units == DurableEventUnits(events)
    IN  FoldLeftDomain(LAMBDA s, i : AddUnit(s, units[i], i = Len(units)),
                       [segments |-> <<>>, current |-> <<>>], units).segments
----------------------------------------------------------------------------

(* The ends of the segments as offsets into the delta.                     *)
Boundaries(segments) ==
    {Total(Len, SubSeq(segments, 1, n)) : n \in 1..Len(segments)}

(* _normalize_atomic_segments: a boundary inside a unit moves to its end.  *)
NormalizeAtomicSegments(segments, events) ==
    LET units == DurableEventUnits(events)
        End(i) == Total(Len, SubSeq(units, 1, i))
        Add(s, i) ==
            LET next == [s EXCEPT !.current = @ \o units[i]]
            IN  IF \E b \in Boundaries(segments) : End(i - 1) < b /\ b <= End(i)
                THEN Close(next) ELSE next
        cut == FoldLeftDomain(Add, [segments |-> <<>>, current |-> <<>>], units)
    IN  IF cut.current = <<>> THEN cut.segments ELSE Close(cut).segments

SerializedCost(events) == PromptOverhead + Total(SerializedCount, events)

(* Mutant: events, not units, are added one by one. *)
SplitSegmentByEvent(segment, limit) ==
    LET Add(s, i) ==
            IF SerializedCost(Append(s.current, segment[i])) <= limit
            THEN [s EXCEPT !.current = Append(@, segment[i])]
            ELSE [(IF s.current = <<>> THEN s ELSE Close(s)) EXCEPT !.current = <<segment[i]>>]
        cut == FoldLeftDomain(Add, [segments |-> <<>>, current |-> <<>>], segment)
    IN  IF cut.current = <<>> THEN cut.segments ELSE Close(cut).segments

(* _split_segment, for a segment none of whose units is too large alone.   *)
SplitSegment(segment, limit) ==
    LET units == DurableEventUnits(segment)
        Add(s, i) ==
            IF SerializedCost(s.current \o units[i]) <= limit
            THEN [s EXCEPT !.current = @ \o units[i]]
            ELSE [(IF s.current = <<>> THEN s ELSE Close(s)) EXCEPT !.current = units[i]]
        cut == FoldLeftDomain(Add, [segments |-> <<>>, current |-> <<>>], units)
    IN  IF cut.current = <<>> THEN cut.segments ELSE Close(cut).segments

(* COMPACTION_INPUT_TOO_LARGE: a unit of a segment that has to be split    *)
(* does not fit alone.                                                     *)
InputTooLarge(events, limit) ==
    LET segments == NormalizeAtomicSegments(Segment(events), events)
    IN  \E n \in DOMAIN segments :
            /\ SerializedCost(segments[n]) > limit
            /\ LET units == DurableEventUnits(segments[n])
               IN  \E u \in DOMAIN units : SerializedCost(units[u]) > limit

FitSegments(events, limit) ==
    LET segments == NormalizeAtomicSegments(Segment(events), events)
    IN  FlattenSeq([n \in DOMAIN segments |->
            IF SerializedCost(segments[n]) <= limit
            THEN <<segments[n]>>
            ELSE SplitSegment(segments[n], limit)])
=============================================================================
