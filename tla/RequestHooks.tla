---------------------------- MODULE RequestHooks ----------------------------
(***************************************************************************)
(* One request through the hooks that change what its provider sees:       *)
(* on_agent_begin_guard and on_agent_begin_project before the agent runs,  *)
(* on_llm_response and the two on_agent_done hooks after it.  Between any  *)
(* two of them, and while the budget is evaluated in a thread, other       *)
(* plugins of the host edit the same message list.  host is the list the   *)
(* same edits and answers give without the plugin, except for the edits    *)
(* before the current input of a projected list, which restore discards.   *)
(***************************************************************************)
EXTENDS Budget, Projection

CONSTANTS
    NativeLists,      \* message lists the host starts a request with
    Foreign,          \* objects other plugins insert
    Answer,           \* object the agent appends
    Projected,        \* the temporary object of the plugin
    Tokens(_),        \* tokens of a message object
    RequestViews,     \* views of the session the request may read
    Profiles,         \* budget profiles
    Prompts,          \* tokens of request.prompt, which the budget charges as current
    TrustedUsages,    \* token_usage of the host's conversation, 0 for none
    Tokenizers,       \* [primary, slack]: whether it works, and what joining adds
    MaxProposed,      \* optional blocks in a partial proposal of the engine
    MaxEdits          \* edits by other plugins

(* A message list is a sequence, and the projection is an object that the  *)
(* plugin makes for the request, so nobody else has it.                    *)
ASSUME ObjectAssumption ==
    /\ \A m \in NativeLists : m \in Seq(ToSet(m)) /\ Projected \notin ToSet(m)
    /\ Projected \notin Foreign \cup {Answer}

VARIABLES
    messages, list,   \* run_context.messages, and which list object it is
    host,
    conversation,     \* request.conversation: "none", "original" or "masked"
    state,            \* _RequestState
    outcome,          \* the budget outcome of the request, while the agent has not run
    bridge,           \* whether the plugin has a bridge
    edits, damaged    \* edits so far, and whether one doubled or dropped what restore needs

vars == <<messages, list, host, conversation, state, outcome, bridge, edits, damaged>>

NoGuard == [ok |-> FALSE]
NoWorkload == [candidates |-> <<>>]
NoEngine == [accepted |-> FALSE, provenance |-> FALSE, selected |-> {}]
NoOutcome == [mutation_allowed |-> FALSE]

(* _RequestState, with the workload of an evaluation under way in w and    *)
(* the tokens of what was put in the list since it was read in late.       *)
NewState ==
    [pc |-> "begin", guard |-> NoGuard, projected |-> NoGuard, restored |-> FALSE,
     delta |-> <<>>, original |-> FALSE,
     w |-> NoWorkload, late |-> 0, fault |-> FALSE]

Init ==
    /\ messages \in NativeLists /\ host = messages /\ list = 0
    /\ conversation \in {"none", "original"}
    /\ state = NewState /\ outcome = NoOutcome
    /\ bridge = TRUE /\ edits = 0 /\ damaged = FALSE

HostTokens(s) == SumOf([i \in DOMAIN s |-> Tokens(s[i])])

(* _restore_request_conversation                                           *)
RestoreConversation(s) ==
    /\ state' = [s EXCEPT !.original = FALSE]
    /\ conversation' = IF s.original THEN "original" ELSE conversation

IsProjected == state.projected # NoGuard
----------------------------------------------------------------------------
(* on_agent_begin_guard                                                    *)
OnAgentBeginGuard ==
    /\ state.pc = "begin"
    /\ state' = [state EXCEPT
          !.pc = "project",
          !.guard = IF BoundariesValid(messages) /\ GuardProjection(messages, list).ok
                    THEN GuardProjection(messages, list) ELSE NoGuard]
    /\ UNCHANGED <<messages, list, host, conversation, outcome, bridge, edits, damaged>>

(* The inputs on_agent_begin_project hands to the evaluation: the costs of *)
(* the list as it is now, and what on_llm_request prepared: a view of the  *)
(* session, its candidates without the current input, the profile, the     *)
(* usage of the conversation, and the prompt the request had then.  The    *)
(* message that carries the current input is made later, may hold more     *)
(* than the prompt, and is in neither opaque nor fixed.                    *)
OtherThanCurrent(view, blocks) ==
    Without(blocks, {b \in ToSet(blocks) : view.current \in b.sources})

Workload(view, prompt, profile, trusted) ==
    LET g == state.guard
        opaque == Without(messages, g.history \cup Preserved(g))
    IN  [view |-> view,
         candidates |-> OtherThanCurrent(view, SelectCandidates(view)),
         current |-> prompt, trusted |-> trusted,
         host |-> HostTokens(messages), opaque |-> HostTokens(opaque),
         fixed |-> HostTokens(g.system), profile |-> profile,
         primary |-> TRUE, slack |-> 0, engine |-> NoEngine]

(* on_agent_begin_project up to its await.                                 *)
BeginProject(view, prompt, profile, trusted) ==
    /\ state.pc = "project"
    /\ conversation = "none" => trusted = 0
    /\ state' = IF state.guard # NoGuard /\ bridge
                THEN [state EXCEPT !.pc = "evaluate",
                                   !.w = Workload(view, prompt, profile, trusted)]
                ELSE [state EXCEPT !.pc = "agent"]
    /\ UNCHANGED <<messages, list, host, conversation, outcome, bridge, edits, damaged>>

(* What solve may answer, over the blocks it is shown: an answer is        *)
(* accepted in mode ACTIVE with a certificate that passed, for which every *)
(* required block is selected.  Which optional ones are is left open, all  *)
(* of them or at most MaxProposed; provenance is whether the sources of    *)
(* their closure are in the graph, which select_live_context asks again.   *)
EngineResults ==
    LET optional == {BlockId(b) : b \in {c \in ToSet(state.w.candidates) : ~Required(c)}}
    IN  {NoEngine} \cup
        [accepted : {TRUE}, provenance : {FALSE}, selected : {optional}] \cup
        [accepted : {TRUE}, provenance : {TRUE},
         selected : {S \in SUBSET optional : Cardinality(S) <= MaxProposed \/ S = optional}]

(* The rest of the hook, when the evaluation returns r. The conversation   *)
(* is masked before project, and unmasked when project refuses the list;   *)
(* without an allowed mutation, or without an object, nothing is touched.  *)
Masked(s) == [s EXCEPT !.original = conversation # "none"]

(* Mutant: the conversation stays masked when project refuses the list.    *)
ApplyOutcomeStillMasked(r, built) ==
    LET objects == IF r.assembly.selected = <<>> THEN <<>> ELSE <<Projected>>
        next == [state EXCEPT !.pc = "agent", !.w = NoWorkload]
    IN  IF r.should_project /\ r.mutation_allowed /\ built
        THEN /\ state' = IF CanProject(messages, list, state.guard, objects)
                         THEN [Masked(next) EXCEPT
                                 !.projected = ProjectedView(messages, state.guard, objects)]
                         ELSE Masked(next)
             /\ messages' = IF CanProject(messages, list, state.guard, objects)
                            THEN ProjectedMessages(messages, state.guard, objects)
                            ELSE messages
             /\ conversation' = IF conversation = "none" THEN "none" ELSE "masked"
        ELSE state' = next /\ UNCHANGED <<messages, conversation>>

ApplyOutcome(r, built) ==
    LET objects == IF r.assembly.selected = <<>> THEN <<>> ELSE <<Projected>>
        next == [state EXCEPT !.pc = "agent", !.w = NoWorkload]
    IN  IF r.should_project /\ r.mutation_allowed /\ built
        THEN IF CanProject(messages, list, state.guard, objects)
             THEN /\ messages' = ProjectedMessages(messages, state.guard, objects)
                  /\ state' = [Masked(next) EXCEPT
                                 !.projected = ProjectedView(messages, state.guard, objects)]
                  /\ conversation' = IF conversation = "none" THEN "none" ELSE "masked"
             ELSE RestoreConversation(Masked(next)) /\ UNCHANGED messages
        ELSE state' = next /\ UNCHANGED <<messages, conversation>>

(* The workload of the thread, once it knows the tokenizer and the engine. *)
Evaluated(engine, tokenizer) ==
    [state.w EXCEPT !.primary = tokenizer.primary, !.slack = tokenizer.slack,
                    !.engine = engine]

Reported(r) ==
    [mutation_allowed |-> r.outcome.mutation_allowed, live |-> r.outcome.live,
     assembly |-> r.outcome.assembly, counter |-> r.counter, view |-> state.w.view,
     candidates |-> state.w.candidates, prompt |-> state.w.current,
     profile |-> state.w.profile]

Project(engine, tokenizer) ==
    /\ state.pc = "evaluate"
    /\ \E r \in {RunRequestBudget(Evaluated(engine, tokenizer))} :
          /\ outcome' = Reported(r)
          /\ \E built \in BOOLEAN : ApplyOutcome(r.outcome, built)
    /\ UNCHANGED <<list, host, bridge, edits, damaged>>

(* The agent runs: it appends to the list it was given.                    *)
AgentAnswers ==
    /\ state.pc = "agent" /\ Answer \notin ToSet(host)
    /\ messages' = Append(messages, Answer) /\ host' = Append(host, Answer)
    /\ outcome' = NoOutcome
    /\ UNCHANGED <<list, conversation, state, bridge, edits, damaged>>

(* on_llm_response, after every answer of the provider.                    *)
OnLlmResponse ==
    /\ state.pc = "agent"
    /\ RestoreConversation(state)
    /\ outcome' = NoOutcome
    /\ UNCHANGED <<messages, list, host, bridge, edits, damaged>>

(* on_agent_done_restore: nothing to do for a request that was not         *)
(* projected; otherwise the conversation comes back even if the list       *)
(* cannot.                                                                 *)
OnAgentDoneRestore ==
    LET next == [state EXCEPT !.pc = "finalize"]
        restored == [next EXCEPT !.restored = TRUE,
                                 !.delta = DeltaObjects(messages, state.projected)]
    IN  /\ state.pc = "agent"
        /\ outcome' = NoOutcome
        /\ CASE ~IsProjected ->
                  state' = next /\ UNCHANGED <<messages, conversation>>
             [] IsProjected /\ CanRestore(messages, state.projected) ->
                  /\ messages' = RestoredMessages(messages, state.projected)
                  /\ RestoreConversation(restored)
             [] OTHER -> RestoreConversation(next) /\ UNCHANGED messages
        /\ UNCHANGED <<list, host, bridge, edits, damaged>>

(* on_agent_done_finalize, whose verdict on the list is a recorded fault.  *)
OnAgentDoneFinalize ==
    /\ state.pc = "finalize"
    /\ state' = [state EXCEPT
          !.pc = "done",
          !.fault = /\ bridge /\ IsProjected
                    /\ \/ ~state.restored
                       \/ ~VerifyNative(messages, state.projected, state.delta)]
    /\ UNCHANGED <<messages, list, host, conversation, outcome, bridge, edits, damaged>>

(* Corrupt storage found by any task of the plugin takes the bridge away.  *)
EnterStorageLocked ==
    /\ bridge /\ state.pc # "done"
    /\ bridge' = FALSE
    /\ UNCHANGED <<messages, list, host, conversation, state, outcome, edits, damaged>>
----------------------------------------------------------------------------

(* Edits by other plugins, from the guard on. What they do to the list     *)
(* before the current input while it is projected is theirs to lose: the   *)
(* host's own list has it only if the edit is after the current input.     *)
Shared(i) ==
    \/ ~IsProjected \/ state.restored
    \/ ~damaged /\ \E j \in 1..(i - 1) : messages[j] = state.guard.current

HostIndex(i) ==
    LET k == i + Len(host) - Len(messages) IN IF k < 1 THEN 1 ELSE k

Edit(added) ==
    /\ edits < MaxEdits /\ edits' = edits + 1
    /\ state.pc \in {"project", "evaluate", "agent", "finalize"}
    /\ state' = [state EXCEPT !.late = IF state.pc = "evaluate" THEN @ + added ELSE @]
    /\ outcome' = NoOutcome
    /\ UNCHANGED <<conversation, bridge>>

Touches(o) == state.guard # NoGuard /\ o \in {state.guard.current, Projected}

ForeignInsert(o, i) ==
    /\ Edit(Tokens(o))
    /\ o \notin ToSet(messages) \cup ToSet(host)
    /\ messages' = InsertAt(messages, i, o)
    /\ host' = IF Shared(i) THEN InsertAt(host, HostIndex(i), o) ELSE host
    /\ UNCHANGED <<list, damaged>>

ForeignRemove(i) ==
    /\ Edit(0)
    /\ messages' = RemoveAt(messages, i)
    /\ host' = IF Shared(i) THEN RemoveAt(host, HostIndex(i)) ELSE host
    /\ damaged' = (damaged \/ (Touches(messages[i]) /\ messages[i] # Projected))
    /\ UNCHANGED list

ForeignRepeat(i) ==
    /\ Edit(Tokens(messages[i]))
    /\ messages' = Append(messages, messages[i])
    /\ host' = IF Shared(Len(messages) + 1) /\ messages[i] # Projected
               THEN Append(host, messages[i]) ELSE host
    /\ damaged' = (damaged \/ Touches(messages[i]))
    /\ UNCHANGED list

ForeignReplaceList ==
    /\ Edit(0)
    /\ list' = list + 1
    /\ UNCHANGED <<messages, host, damaged>>

Next ==
    \/ OnAgentBeginGuard
    \/ \E view \in RequestViews, prompt \in Prompts, profile \in Profiles,
          trusted \in TrustedUsages : BeginProject(view, prompt, profile, trusted)
    \/ \E engine \in EngineResults, tokenizer \in Tokenizers : Project(engine, tokenizer)
    \/ AgentAnswers \/ OnLlmResponse \/ OnAgentDoneRestore \/ OnAgentDoneFinalize
    \/ EnterStorageLocked
    \/ \E i \in DOMAIN messages : ForeignRemove(i) \/ ForeignRepeat(i)
    \/ \E o \in Foreign, i \in 1..(Len(messages) + 1) : ForeignInsert(o, i)
    \/ ForeignReplaceList

Spec == Init /\ [][Next]_vars
----------------------------------------------------------------------------

(* What the provider is sent once the list is projected fits the input     *)
(* budget of the request, in the units of one counter: system objects,     *)
(* objects of other plugins, the projection and the current input. Two     *)
(* things are sent that nobody counted, and the excess is never more than  *)
(* they are: what other plugins added while the thread computed on the     *)
(* costs it had been given, and what the message of the current input      *)
(* holds beyond the prompt that was charged for it. The system objects are *)
(* charged as the guard saw them, so none may be missing:                  *)
(* _validate_preserved takes a doubled one in place of another.            *)
ProjectedInputFits ==
    outcome.mutation_allowed /\ IsProjected
      /\ ToSet(state.guard.system) \subseteq ToSet(messages) =>
        Count(outcome.counter, HostTokens(Without(messages, {Projected})))
           + outcome.assembly.cost
        <= EffectiveInputBudget(outcome.profile)
             + Count(outcome.counter,
                     state.late + Max({0, Tokens(state.guard.current) - outcome.prompt}))

(* An assembly that may replace the history has every required candidate,  *)
(* splits no dependency group of the candidates, and keeps the order of    *)
(* the slots, whether the selection was the normal one, the emergency one  *)
(* or the engine's, and whatever the recount dropped.                      *)
SelectionKeepsRequired ==
    outcome.mutation_allowed =>
        LET blocks == Ordered(outcome.candidates)
            ids == {BlockId(b) : b \in ToSet(outcome.assembly.selected)}
            chosen == {i \in DOMAIN blocks : BlockId(blocks[i]) \in ids}
        IN  /\ \A i \in DOMAIN blocks : Required(blocks[i]) => i \in chosen
            /\ \A i \in chosen : Group(blocks, i) \subseteq chosen
            /\ IsSorted(outcome.assembly.selected,
                        LAMBDA a, b : SlotRank(a.kind) <= SlotRank(b.kind))

(* A selection of the context engine replaces the deterministic one only   *)
(* if nothing the view requires was cut off by the retrieval limits: all   *)
(* its active goals, constraints, anchors and delta events are in it.      *)
EngineSelectionIsComplete ==
    outcome.mutation_allowed /\ outcome.live =>
        RequiredCandidatesComplete(outcome.view, outcome.assembly.selected,
                                   {outcome.view.current})

(* When the hooks are done, the list is the one the host would have without*)
(* the plugin, but for the edits other plugins made before the current     *)
(* input while the list was projected: restore discards those with the     *)
(* projection. It is not owed when another plugin dropped or doubled the   *)
(* current input or moved the projection behind it, or had put something   *)
(* after the current input before the list was projected. With no edits at *)
(* all the closing verification raises no fault.                           *)
NativeHistoryComesBack ==
    state.pc \in {"finalize", "done"} =>
        /\ IsProjected => damaged \/ messages = host
                             \/ Last(state.projected.pre) # state.guard.current
        /\ ~IsProjected => messages = host
        /\ state.pc = "done" /\ edits = 0 => ~state.fault

(* The design states of project and restore that R(P(X) + Delta) = X +     *)
(* Delta: nothing that was in the list is lost and nothing comes twice,    *)
(* wherever other plugins inserted their objects before the projection.    *)
RestoreIsExact ==
    state.pc = "finalize" /\ state.restored /\ ~damaged => messages = host

(* The host's usage counter is hidden exactly while a projection is in     *)
(* place: never for a request whose list project refused or left alone,    *)
(* and not once the hooks of the request are done.                         *)
UsageMaskedOnlyWhileProjected ==
    conversation = "masked" => IsProjected /\ state.pc = "agent" /\ state.original
=============================================================================
