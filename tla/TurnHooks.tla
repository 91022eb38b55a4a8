----------------------------- MODULE TurnHooks ------------------------------
(***************************************************************************)
(* The hooks that write one session's journal: the turns of the host call  *)
(* on_llm_request, the two tool hooks and on_agent_done_finalize, each of  *)
(* which awaits a database thread between what it reads and what it        *)
(* writes, so that the turns of one session interleave.  The turns share   *)
(* the journal, the coverage of the active snapshot and the compaction     *)
(* intents; each hook looks at the durable tool loop before it writes.     *)
(***************************************************************************)
EXTENDS Segments, FiniteSets

CONSTANTS
    Turns,          \* host messages of the session
    MaxToolCalls,   \* tool calls the agent makes in one turn
    MaxFaults,      \* failed captures, crashes, reloads and redeliveries
    InputLimit      \* context limit of the compaction provider

VARIABLES
    journal,    \* events [id, type, tool] in sequence order
    covered,    \* covered_through_sequence of the active snapshot, 0 without one
    intents,    \* targets of the compaction intents raised so far
    plugin,     \* "down", "ready" (it has a bridge) or "locked"
    turn,       \* per turn: where it is, and its _RequestState
    faults

vars == <<journal, covered, intents, plugin, turn, faults>>

(* _RequestState: prepared, the ordinals and assistant_event (0 for None). *)
Fresh == [pc |-> "idle", tool |-> NoTool, calls |-> 0, results |-> 0, assistant |-> 0]

Init ==
    /\ journal = <<>> /\ covered = 0 /\ intents = {}
    /\ plugin = "down" /\ faults = 0
    /\ turn = [t \in Turns |-> Fresh]

(* read_request_view(...).delta: what the active snapshot does not cover.  *)
Delta == SubSeq(journal, covered + 1, Len(journal))

LoopState == EvaluateToolLoop(Delta)

Go(t, pc) == turn' = [turn EXCEPT ![t].pc = pc]

Fault == faults < MaxFaults /\ faults' = faults + 1

(* deterministic_event_identity: the host message, hook, ordinal and       *)
(* canonical metadata make the id of an event.                             *)
EventOf(t, type, ordinal, tool) ==
    [id |-> <<t, type, ordinal, tool>>, type |-> type, tool |-> tool]

Written(e) == \E i \in DOMAIN journal : journal[i].id = e.id

(* A capture of an event that is already in the journal returns that row.  *)
Capture(e) == journal' = IF Written(e) THEN journal ELSE Append(journal, e)

SequenceOf(e) ==
    IF Written(e) THEN CHOOSE i \in DOMAIN journal : journal[i].id = e.id
                  ELSE Len(journal) + 1
----------------------------------------------------------------------------

(* on_llm_request up to its first await, with _ensure_ready, which         *)
(* initialises a plugin that is down and refuses a locked one.             *)
OnLlmRequest(t) ==
    /\ turn[t].pc = "idle"
    /\ plugin # "locked"
    /\ plugin' = "ready"
    /\ turn' = [turn EXCEPT ![t] = [Fresh EXCEPT !.pc = "read"]]
    /\ UNCHANGED <<journal, covered, intents, faults>>

(* prepare_request reads the view before the first write of the turn. A    *)
(* turn that is not prepared has hooks that write nothing: it is done.     *)
ReadInitialView(t) ==
    /\ turn[t].pc = "read"
    /\ Go(t, IF LoopState = "stable" THEN "capture_user" ELSE "done")
    /\ UNCHANGED <<journal, covered, intents, plugin, faults>>

CaptureUser(t) ==
    /\ turn[t].pc = "capture_user"
    /\ Capture(EventOf(t, "user", 0, NoTool))
    /\ Go(t, "agent")
    /\ UNCHANGED <<covered, intents, plugin, faults>>

(* on_using_llm_tool; x is NoTool when the arguments are cut short. Without *)
(* a bridge the call goes on unrecorded.                                   *)
OnUsingLlmTool(t, x) ==
    /\ turn[t].pc = "agent"
    /\ turn[t].calls < MaxToolCalls
    /\ IF plugin = "ready"
       THEN /\ Capture(EventOf(t, "call", turn[t].calls, x))
            /\ turn' = [turn EXCEPT ![t].pc = "tool", ![t].tool = x, ![t].calls = @ + 1]
       ELSE /\ turn' = [turn EXCEPT ![t].pc = "tool", ![t].tool = x]
            /\ UNCHANGED journal
    /\ UNCHANGED <<covered, intents, plugin, faults>>

(* on_llm_tool_respond; the result itself may be cut short.                *)
OnLlmToolRespond(t, x) ==
    /\ turn[t].pc = "tool"
    /\ x \in {turn[t].tool, NoTool}
    /\ IF plugin = "ready"
       THEN /\ Capture(EventOf(t, "result", turn[t].results, x))
            /\ turn' = [turn EXCEPT ![t].pc = "agent", ![t].results = @ + 1]
       ELSE Go(t, "agent") /\ UNCHANGED journal
    /\ UNCHANGED <<covered, intents, plugin, faults>>

(* on_agent_done_finalize: the loop must be stable or wait for this answer.*)
OnAgentDone(t) ==
    /\ turn[t].pc = "agent"
    /\ Go(t, IF plugin = "ready" /\ LoopState \in {"stable", "awaiting_assistant"}
             THEN "capture_assistant" ELSE "done")
    /\ UNCHANGED <<journal, covered, intents, plugin, faults>>

(* capture_assistant, then the pressure decision of the turn. The same     *)
(* hook and message with another answer is a conflict, which ends the turn.*)
CaptureAssistant(t) ==
    LET e == EventOf(t, "assistant", 0, NoTool)
    IN  /\ turn[t].pc = "capture_assistant"
        /\ \E should_compact \in BOOLEAN, conflict \in {Written(e), FALSE} :
              IF conflict
              THEN Go(t, "done") /\ UNCHANGED journal
              ELSE /\ Capture(e)
                   /\ turn' = [turn EXCEPT
                         ![t].pc = IF should_compact THEN "check" ELSE "done",
                         ![t].assistant = SequenceOf(e)]
        /\ UNCHANGED <<covered, intents, plugin, faults>>

(* Mutant: the loop is not read again before the intent. *)
CheckStableOmitted(t) ==
    /\ turn[t].pc = "check"
    /\ Go(t, "raise")
    /\ UNCHANGED <<journal, covered, intents, plugin, faults>>

(* The second reading of the loop: another turn may have written between.  *)
CheckStable(t) ==
    /\ turn[t].pc = "check"
    /\ Go(t, IF LoopState = "stable" THEN "raise" ELSE "done")
    /\ UNCHANGED <<journal, covered, intents, plugin, faults>>

(* raise_compaction_intent: covered demand is ignored by the repository.   *)
RaiseIntent(t) ==
    /\ turn[t].pc = "raise"
    /\ intents' = IF turn[t].assistant > covered
                  THEN intents \cup {turn[t].assistant} ELSE intents
    /\ Go(t, "done")
    /\ UNCHANGED <<journal, covered, plugin, faults>>
----------------------------------------------------------------------------

(* What a compaction of the journal up to n has as its source events.      *)
SourceEvents(n) == SubSeq(journal, covered + 1, n)

Compilable(n) ==
    /\ EvaluateToolLoop(SourceEvents(n)) = "stable"
    /\ ~InputTooLarge(SourceEvents(n), InputLimit)

(* Mutant: coverage reaches the head of the journal. *)
PublishToHead(n) ==
    /\ n > covered
    /\ Compilable(n)
    /\ covered' = Len(journal)
    /\ UNCHANGED <<journal, intents, plugin, turn, faults>>

(* The worker publishes a snapshot up to the frozen target of a job.       *)
Publish(n) ==
    /\ n > covered
    /\ Compilable(n)
    /\ covered' = n
    /\ UNCHANGED <<journal, intents, plugin, turn, faults>>

(* A capture fails: the hook records a fault, its ordinal stays, and the   *)
(* agent goes on; without the user event, and without the assistant event, *)
(* the turn writes no more. Corrupt storage also locks the plugin.         *)
CaptureFails(t) ==
    /\ Fault
    /\ turn[t].pc \in {"capture_user", "agent", "tool", "capture_assistant"}
    /\ plugin' \in {plugin, "locked"}
    /\ Go(t, CASE turn[t].pc = "agent" /\ turn[t].calls < MaxToolCalls -> "tool"
               [] turn[t].pc = "tool" -> "agent"
               [] OTHER -> "done")
    /\ UNCHANGED <<journal, covered, intents>>

(* A plugin reload while turns run: terminate drops the bridge.            *)
Terminate ==
    /\ Fault
    /\ plugin \in {"ready", "locked"}
    /\ plugin' = "down"
    /\ UNCHANGED <<journal, covered, intents, turn>>

(* The process dies: its turns are gone, the journal stays.                *)
Crash ==
    /\ Fault
    /\ plugin # "down"
    /\ plugin' = "down"
    /\ turn' = [t \in Turns |-> IF turn[t].pc = "idle" THEN turn[t]
                                ELSE [turn[t] EXCEPT !.pc = "done"]]
    /\ UNCHANGED <<journal, covered, intents>>

(* The host delivers a message again, with a new _RequestState.            *)
Redeliver(t) ==
    /\ Fault
    /\ turn[t].pc = "done"
    /\ turn' = [turn EXCEPT ![t] = Fresh]
    /\ UNCHANGED <<journal, covered, intents, plugin>>

Next ==
    \/ \E t \in Turns :
          \/ OnLlmRequest(t) \/ ReadInitialView(t) \/ CaptureUser(t)
          \/ \E x \in Tools \cup {NoTool} : OnUsingLlmTool(t, x) \/ OnLlmToolRespond(t, x)
          \/ OnAgentDone(t) \/ CaptureAssistant(t) \/ CheckStable(t) \/ RaiseIntent(t)
          \/ CaptureFails(t) \/ Redeliver(t)
    \/ \E n \in intents : Publish(n)
    \/ Terminate \/ Crash

Spec == Init /\ [][Next]_vars
----------------------------------------------------------------------------

(* Every compaction target the hooks raise ends a journal prefix whose     *)
(* tool loop is closed, whatever other turns of the session wrote between  *)
(* the hook's reading of the loop, its capture and its intent: otherwise   *)
(* the compaction would cut a tool exchange in two.                        *)
IntentTargetsStablePrefix ==
    \A n \in intents : EvaluateToolLoop(SubSeq(journal, 1, n)) = "stable"

(* The hooks judge the loop by the delta alone. The verdict is that of the *)
(* whole journal: no snapshot ever hides an open or broken exchange from   *)
(* the turns that follow it, or leaves one of its events without its start.*)
DeltaAgreesWithJournal == LoopState = EvaluateToolLoop(journal)

(* What a provider is asked to compress for a compilable target: the       *)
(* segments join to exactly the source events, none of them splits a tool  *)
(* exchange, and each one fits the provider's input.                       *)
SegmentsKeepExchanges ==
    \A n \in intents :
        n > covered /\ Compilable(n) =>
            LET segments == FitSegments(SourceEvents(n), InputLimit)
            IN  /\ FlattenSeq(segments) = SourceEvents(n)
                /\ \A i \in DOMAIN segments :
                      /\ EvaluateToolLoop(segments[i]) = "stable"
                      /\ SerializedCost(segments[i]) <= InputLimit
=============================================================================
