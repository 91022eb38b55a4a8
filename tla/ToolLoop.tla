------------------------------ MODULE ToolLoop ------------------------------
(***************************************************************************)
(* The durable tool protocol: one pass over journal events that tells      *)
(* whether the tool loop is closed and groups the events into units that   *)
(* must not be split.  An event is [type, tool]; the tool of a call or     *)
(* result stands for its canonical fingerprint (tool and arguments), and   *)
(* NoTool for metadata that has none, such as truncated arguments or a     *)
(* truncated result.                                                       *)
(***************************************************************************)
EXTENDS Lists

CONSTANTS Tools, NoTool

NothingPending == [x \in Tools |-> 0]

StableStart == [state |-> "stable", pending |-> NothingPending, units |-> <<>>, start |-> 0]

InvalidLoop == [state |-> "invalid", pending |-> NothingPending, units |-> <<>>, start |-> 0]

More(s, e) == [s.pending EXCEPT ![e.tool] = @ + 1]
Less(s, e) == [s.pending EXCEPT ![e.tool] = @ - 1]

FromStable(s, events, i) ==
    LET e == events[i]
    IN  CASE e.type = "call" ->
               [s EXCEPT !.state = "awaiting_results", !.pending = More(s, e), !.start = i]
          [] e.type = "result" -> InvalidLoop
          [] OTHER -> [s EXCEPT !.units = Append(@, <<e>>)]

FromAwaitingResults(s, e) ==
    CASE e.type = "call" -> [s EXCEPT !.pending = More(s, e)]
      [] e.type = "result" /\ s.pending[e.tool] > 0 ->
           [s EXCEPT !.pending = Less(s, e),
                     !.state = IF Less(s, e) = NothingPending
                               THEN "awaiting_assistant" ELSE "awaiting_results"]
      [] OTHER -> InvalidLoop

FromAwaitingAssistant(s, events, i) ==
    LET e == events[i]
    IN  CASE e.type = "assistant" ->
               [s EXCEPT !.state = "stable", !.start = 0,
                         !.units = Append(@, SubSeq(events, s.start, i))]
          [] e.type = "call" ->
               [s EXCEPT !.state = "awaiting_results", !.pending = More(s, e)]
          [] OTHER -> InvalidLoop

(* One event; an invalid loop stays invalid, and an event whose metadata   *)
(* has no fingerprint makes it so.                                         *)
ParseEvent(s, events, i) ==
    LET e == events[i]
    IN  IF s.state = "invalid" \/ (e.type \in {"call", "result"} /\ e.tool = NoTool)
        THEN InvalidLoop
        ELSE CASE s.state = "stable" -> FromStable(s, events, i)
               [] s.state = "awaiting_results" -> FromAwaitingResults(s, e)
               [] s.state = "awaiting_assistant" -> FromAwaitingAssistant(s, events, i)

(* The loop after each of the first i events.                              *)
LoopStates(events) ==
    LET loop[i \in 0..Len(events)] ==
            IF i = 0 THEN StableStart ELSE ParseEvent(loop[i - 1], events, i)
    IN  loop

ParseEvents(events) == LoopStates(events)[Len(events)]

EvaluateToolLoop(events) == ParseEvents(events).state

(* durable_event_units, for a history whose loop is stable.                *)
DurableEventUnits(events) == ParseEvents(events).units
=============================================================================
