---------------------------- MODULE MCTurnHooks -----------------------------
(* Token counts for TurnHooks: tool events are dear in the prompt and cheap *)
(* in canonical tokens, so that segments have to be split after the fact.   *)
EXTENDS TurnHooks, TLC

MCCanonicalCount(e) == 1
MCSerializedCount(e) == IF e.type \in {"call", "result"} THEN 2 ELSE 1

Symmetry == Permutations(Turns)
=============================================================================
