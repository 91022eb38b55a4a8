----------------------------- MODULE Projection -----------------------------
(***************************************************************************)
(* The provider's view of a request: guard, project, restore and           *)
(* verify_native over the identities of the objects in the host's message  *)
(* list.  An object is a value, a list is a sequence of objects together   *)
(* with the identity of the list itself.                                   *)
(***************************************************************************)
EXTENDS Lists

CONSTANT Role(_)   \* "system", "user" or "assistant" of a message object

(* _identity_occurrences                                                   *)
Occurrences(s, T) == Cardinality({i \in DOMAIN s : s[i] \in T})

(* select_projection_boundaries: the leading system objects, and the last  *)
(* object, which has to be the user's.                                     *)
SystemEnd(messages) ==
    CHOOSE n \in 0..Len(messages) :
        /\ \A i \in 1..n : Role(messages[i]) = "system"
        /\ n < Len(messages) => Role(messages[n + 1]) # "system"

BoundariesValid(messages) == messages # <<>> /\ Role(Last(messages)) = "user"

(* guard_projection: preserved objects differ and occur once in the list.  *)
GuardProjection(messages, list) ==
    LET system == SubSeq(messages, 1, SystemEnd(messages))
        current == Last(messages)
        preserved == ToSet(system) \cup {current}
    IN  [ok |-> /\ Cardinality(preserved) = Len(system) + 1
                /\ Occurrences(messages, preserved) = Len(system) + 1,
         list |-> list, native |-> messages, system |-> system, current |-> current,
         history |-> ToSet(messages) \ preserved]

Preserved(g) == ToSet(g.system) \cup {g.current}

(* _validate_preserved compares the total number of occurrences, and the   *)
(* order of the system objects that are there.                             *)
SystemInOrder(messages, g) ==
    \A i, j \in DOMAIN messages : \A m, n \in DOMAIN g.system :
        i < j /\ messages[i] = g.system[m] /\ messages[j] = g.system[n] => m <= n

(* What project refuses: another list, preserved objects that are missing, *)
(* doubled or out of order, and a projection object that is there already. *)
(* Where a doubled system object makes up for a missing current input the  *)
(* search for its position fails, which the hook treats alike.             *)
CanProject(messages, list, g, objects) ==
    /\ list = g.list
    /\ Occurrences(messages, Preserved(g)) = Cardinality(Preserved(g))
    /\ SystemInOrder(messages, g)
    /\ Occurrences(messages, ToSet(objects)) = 0
    /\ g.current \in ToSet(messages)

(* project: the native history goes, the projection stands directly before *)
(* the current input, everything else stays where it is.                   *)
ProjectedMessages(messages, g, objects) ==
    LET retained == Without(messages, g.history)
        start == Min({i \in DOMAIN retained : retained[i] = g.current})
    IN  SubSeq(retained, 1, start - 1) \o objects \o SubSeq(retained, start, Len(retained))

ProjectedView(messages, g, objects) ==
    [guard |-> g, pre |-> messages, objects |-> objects]

CurrentPositions(messages, v) == {i \in DOMAIN messages : messages[i] = v.guard.current}

(* What follows the current input, for a list that has it once.            *)
DeltaObjects(messages, v) ==
    SubSeq(messages, Max(CurrentPositions(messages, v)) + 1, Len(messages))

CanRestore(messages, v) ==
    /\ Cardinality(CurrentPositions(messages, v)) = 1
    /\ Occurrences(DeltaObjects(messages, v), ToSet(v.objects)) = 0

(* Mutant: the list of the guard comes back, not the one project replaced. *)
RestoredToGuard(messages, v) == v.guard.native \o DeltaObjects(messages, v)

RestoredMessages(messages, v) == v.pre \o DeltaObjects(messages, v)

(* verify_native against the guard and the delta that restore captured.    *)
VerifyNative(messages, v, delta) == messages = v.guard.native \o delta
=============================================================================
