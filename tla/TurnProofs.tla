----------------------------- MODULE TurnProofs -----------------------------
(***************************************************************************)
(* The tool loop that the turn hooks read before they write: what the      *)
(* parser of durable events computes for histories of every length, and    *)
(* from it that compaction targets close the loop and that the verdict of  *)
(* a delta is the verdict of the whole journal, for any number of turns    *)
(* and tools.  The length of a history is unbounded, so the lemmas about   *)
(* the parser need induction; it is taken from the least counterexample,   *)
(* which exists because < is well founded on the natural numbers.          *)
(***************************************************************************)
EXTENDS TurnHooks, WellFoundedInduction, TLAPS

(* Induction over the natural numbers for a set.                           *)
LEMMA SetInduction ==
    ASSUME NEW T \in SUBSET Nat, 0 \in T, \A n \in T : n + 1 \in T
    PROVE  T = Nat
<1> DEFINE Gap == Nat \ T
<1>1. SUFFICES ASSUME Gap # {} PROVE FALSE
  BY Zenon
<1>2. IsWellFoundedOn(OpToRel(<, Nat), Nat)
  BY NatLessThanWellFounded, Zenon
<1>3. \E x \in Gap : \A y \in Gap : ~(<<y, x>> \in OpToRel(<, Nat))
  BY <1>1, <1>2, WFMin, Zenon
<1>4. PICK x \in Gap : \A y \in Gap : ~(<<y, x>> \in OpToRel(<, Nat))
  BY <1>3, Zenon
<1>5. \A y \in Gap : ~(y < x)
  BY <1>4, Zenon DEF OpToRel
<1>6. x # 0 /\ x - 1 \in Nat /\ x - 1 \notin Gap
  BY <1>5
<1> QED
  BY <1>6

(* Induction up to a bound: what holds at 0 and is inherited by each next  *)
(* index holds at every index.                                             *)
LEMMA BoundedInduction ==
    ASSUME NEW n \in Nat, NEW T, 0 \in T, \A i \in 0..(n - 1) : i \in T => i + 1 \in T
    PROVE  0..n \subseteq T
<1> DEFINE R == {i \in Nat : i \in 0..n => i \in T}
<1>1. 0 \in R
  OBVIOUS
<1>2. ASSUME NEW i \in R PROVE i + 1 \in R
  OBVIOUS
<1>3. R = Nat
  <2>1. R \in SUBSET Nat
    OBVIOUS
  <2> HIDE DEF R
  <2> QED
    BY <1>1, <1>2, <2>1, SetInduction
<1> QED
  BY <1>3

(* The body of LoopStates, for a function f in place of itself.            *)
Unrolled(f, events, n) ==
    [i \in 0..n |-> IF i = 0 THEN StableStart ELSE ParseEvent(f[i - 1], events, i)]

(* The recursion over a history has a solution up to every index.          *)
LEMMA LoopExists ==
    ASSUME NEW events, NEW n \in Nat
    PROVE  \E f : f = Unrolled(f, events, n)
<1> DEFINE T == {m \in Nat : \E f : f = Unrolled(f, events, m)}
<1>1. 0 \in T
  <2> DEFINE f == [i \in 0..0 |-> StableStart]
  <2>1. f = Unrolled(f, events, 0)
    BY DEF Unrolled
  <2> QED
    BY <2>1
<1>2. ASSUME NEW m \in T PROVE m + 1 \in T
  <2>1. PICK f : f = Unrolled(f, events, m)
    OBVIOUS
  <2> DEFINE v == ParseEvent(f[m], events, m + 1)
             h == [i \in 0..(m + 1) |-> IF i = m + 1 THEN v ELSE f[i]]
  <2>2. ASSUME NEW i \in 0..(m + 1)
        PROVE  h[i] = IF i = 0 THEN StableStart ELSE ParseEvent(h[i - 1], events, i)
    <3>1. CASE i = m + 1
      <4>1. i # 0 /\ i - 1 = m /\ h[m] = f[m] /\ h[i] = v
        BY <3>1
      <4> HIDE DEF h
      <4> QED
        BY <3>1, <4>1
    <3>2. CASE i \in 0..m
      <4>1. h[i] = f[i] /\ (i # 0 => h[i - 1] = f[i - 1])
        BY <3>2
      <4>2. f[i] = IF i = 0 THEN StableStart ELSE ParseEvent(f[i - 1], events, i)
        BY <2>1, <3>2 DEF Unrolled
      <4> HIDE DEF h
      <4> QED
        BY <4>1, <4>2
    <3> QED
      BY <3>1, <3>2
  <2>3. h = [i \in 0..(m + 1) |-> h[i]]
    OBVIOUS
  <2> HIDE DEF h
  <2>4. h = Unrolled(h, events, m + 1)
    BY <2>2, <2>3, Zenon DEF Unrolled
  <2> QED
    BY <2>4
<1>3. T = Nat
  <2>1. T \in SUBSET Nat
    OBVIOUS
  <2> HIDE DEF T
  <2> QED
    BY <1>1, <1>2, <2>1, SetInduction
<1>4. n \in T
  BY <1>3
<1> QED
  BY <1>4

(* The loop after no event is the stable start, and after each event it is *)
(* what _parse_events makes of the loop before it.                         *)
LEMMA LoopSteps ==
    ASSUME NEW events, Len(events) \in Nat
    PROVE  /\ LoopStates(events)[0] = StableStart
           /\ \A i \in 1..Len(events) :
                 LoopStates(events)[i] = ParseEvent(LoopStates(events)[i - 1], events, i)
<1> DEFINE g == LoopStates(events)
<1>1. PICK f : f = Unrolled(f, events, Len(events))
  BY LoopExists
<1>2. g = [i \in 0..Len(events) |-> IF i = 0 THEN StableStart ELSE ParseEvent(g[i - 1], events, i)]
  BY <1>1, Zenon DEF LoopStates, Unrolled
<1> HIDE DEF g
<1>3. g[0] = StableStart
  BY <1>2
<1>4. \A i \in 1..Len(events) : g[i] = ParseEvent(g[i - 1], events, i)
  BY <1>2
<1> QED
  BY <1>3, <1>4 DEF g

----------------------------------------------------------------------------
(* What the parser keeps *)

EventTypes == {"user", "call", "result", "assistant"}

Event == [id : Turns \X EventTypes \X Nat \X (Tools \cup {NoTool}),
          type : EventTypes, tool : Tools \cup {NoTool}]

LoopNames == {"stable", "awaiting_results", "awaiting_assistant", "invalid"}

(* A loop of the parser: calls are pending only while results are awaited. *)
IsLoop(s) ==
    /\ DOMAIN s = {"state", "pending", "units", "start"}
    /\ s.state \in LoopNames
    /\ s.pending \in [Tools -> Int]
    /\ s.state # "awaiting_results" => s.pending = NothingPending

(* Two loops that answer every further event alike; their units differ.    *)
Alike(a, b) == a.state = b.state /\ a.pending = b.pending

(* The two states the parser starts from are states of the loop.           *)
LEMMA StartIsLoop == IsLoop(StableStart) /\ IsLoop(InvalidLoop)
BY DEF IsLoop, StableStart, InvalidLoop, NothingPending, LoopNames

(* One event keeps the shape of the loop.                                  *)
LEMMA ParseIsLoop ==
    ASSUME NEW s, IsLoop(s), NEW events, NEW i, events[i] \in Event
    PROVE  IsLoop(ParseEvent(s, events, i))
<1> DEFINE e == events[i]
<1>1. e.type \in EventTypes /\ e.tool \in Tools \cup {NoTool}
  BY DEF Event
<1> HIDE DEF e
<1>2. CASE s.state = "invalid" \/ (e.type \in {"call", "result"} /\ e.tool = NoTool)
  BY <1>2, StartIsLoop DEF ParseEvent, e
<1>3. CASE s.state = "stable" /\ ~(e.type \in {"call", "result"} /\ e.tool = NoTool)
  <2>1. ParseEvent(s, events, i) = FromStable(s, events, i)
    BY <1>3 DEF ParseEvent, e
  <2>2. CASE e.type = "call"
    <3>1. FromStable(s, events, i) =
            [s EXCEPT !.state = "awaiting_results", !.pending = More(s, e), !.start = i]
      BY <2>2 DEF FromStable, e
    <3>2. e.tool \in Tools
      BY <1>1, <1>3, <2>2
    <3>3. More(s, e) \in [Tools -> Int]
      BY <3>2 DEF More, IsLoop
    <3> QED
      BY <2>1, <3>1, <3>3 DEF IsLoop, LoopNames
  <2>3. CASE e.type = "result"
    BY <2>1, <2>3, StartIsLoop DEF FromStable, e
  <2>4. CASE e.type \notin {"call", "result"}
    <3>1. FromStable(s, events, i) = [s EXCEPT !.units = Append(@, <<e>>)]
      BY <2>4 DEF FromStable, e
    <3> QED
      BY <1>3, <2>1, <3>1 DEF IsLoop, LoopNames
  <2> QED
    BY <2>2, <2>3, <2>4
<1>4. CASE s.state = "awaiting_results" /\ ~(e.type \in {"call", "result"} /\ e.tool = NoTool)
  <2>1. ParseEvent(s, events, i) = FromAwaitingResults(s, e)
    BY <1>4 DEF ParseEvent, e
  <2>2. CASE e.type = "call"
    <3>1. FromAwaitingResults(s, e) = [s EXCEPT !.pending = More(s, e)]
      BY <2>2 DEF FromAwaitingResults
    <3>2. e.tool \in Tools
      BY <1>1, <1>4, <2>2
    <3>3. More(s, e) \in [Tools -> Int]
      BY <3>2 DEF More, IsLoop
    <3> QED
      BY <1>4, <2>1, <3>1, <3>3 DEF IsLoop, LoopNames
  <2>3. CASE e.type = "result" /\ s.pending[e.tool] > 0
    <3> DEFINE next == IF Less(s, e) = NothingPending
                       THEN "awaiting_assistant" ELSE "awaiting_results"
    <3>1. FromAwaitingResults(s, e) = [s EXCEPT !.pending = Less(s, e), !.state = next]
      BY <2>3 DEF FromAwaitingResults
    <3>2. e.tool \in Tools
      BY <1>1, <1>4, <2>3
    <3>3. Less(s, e) \in [Tools -> Int]
      BY <3>2 DEF Less, IsLoop
    <3>4. next \in LoopNames /\ (next # "awaiting_results" => Less(s, e) = NothingPending)
      BY DEF LoopNames
    <3> HIDE DEF next
    <3> QED
      BY <2>1, <3>1, <3>3, <3>4 DEF IsLoop
  <2>4. CASE e.type # "call" /\ ~(e.type = "result" /\ s.pending[e.tool] > 0)
    BY <2>1, <2>4, StartIsLoop DEF FromAwaitingResults
  <2> QED
    BY <2>2, <2>3, <2>4
<1>5. CASE s.state = "awaiting_assistant" /\ ~(e.type \in {"call", "result"} /\ e.tool = NoTool)
  <2>1. ParseEvent(s, events, i) = FromAwaitingAssistant(s, events, i)
    BY <1>5 DEF ParseEvent, e
  <2>2. CASE e.type = "assistant"
    <3>1. FromAwaitingAssistant(s, events, i) =
            [s EXCEPT !.state = "stable", !.start = 0,
                      !.units = Append(@, SubSeq(events, s.start, i))]
      BY <2>2 DEF FromAwaitingAssistant, e
    <3> QED
      BY <1>5, <2>1, <3>1 DEF IsLoop, LoopNames
  <2>3. CASE e.type = "call"
    <3>1. FromAwaitingAssistant(s, events, i) =
            [s EXCEPT !.state = "awaiting_results", !.pending = More(s, e)]
      BY <2>3 DEF FromAwaitingAssistant, e
    <3>2. e.tool \in Tools
      BY <1>1, <1>5, <2>3
    <3>3. More(s, e) \in [Tools -> Int]
      BY <3>2 DEF More, IsLoop
    <3> QED
      BY <2>1, <3>1, <3>3 DEF IsLoop, LoopNames
  <2>4. CASE e.type \notin {"assistant", "call"}
    BY <2>1, <2>4, StartIsLoop DEF FromAwaitingAssistant, e
  <2> QED
    BY <2>2, <2>3, <2>4
<1> QED
  BY <1>2, <1>3, <1>4, <1>5 DEF IsLoop, LoopNames

(* Loops that are alike stay alike when they read the same event.          *)
LEMMA ParseAlike ==
    ASSUME NEW a, NEW b, IsLoop(a), IsLoop(b), Alike(a, b),
           NEW s, NEW i, NEW t, NEW j, s[i] = t[j]
    PROVE  Alike(ParseEvent(a, s, i), ParseEvent(b, t, j))
<1> DEFINE e == s[i]
<1>1. s[i] = e /\ t[j] = e
  OBVIOUS
<1>2. /\ a.state = b.state /\ a.pending = b.pending
      /\ More(a, e) = More(b, e) /\ Less(a, e) = Less(b, e)
  BY DEF Alike, More, Less
<1> HIDE DEF e
<1>3. CASE a.state = "invalid" \/ (e.type \in {"call", "result"} /\ e.tool = NoTool)
  BY <1>1, <1>2, <1>3 DEF ParseEvent, Alike
<1>4. CASE a.state = "stable" /\ ~(e.type \in {"call", "result"} /\ e.tool = NoTool)
  <2>1. ParseEvent(a, s, i) = FromStable(a, s, i) /\ ParseEvent(b, t, j) = FromStable(b, t, j)
    BY <1>1, <1>2, <1>4 DEF ParseEvent
  <2>2. Alike(FromStable(a, s, i), FromStable(b, t, j))
    BY <1>1, <1>2 DEF FromStable, Alike, IsLoop
  <2> QED
    BY <2>1, <2>2
<1>5. CASE a.state = "awaiting_results" /\ ~(e.type \in {"call", "result"} /\ e.tool = NoTool)
  <2>1. /\ ParseEvent(a, s, i) = FromAwaitingResults(a, e)
        /\ ParseEvent(b, t, j) = FromAwaitingResults(b, e)
    BY <1>1, <1>2, <1>5 DEF ParseEvent
  <2>2. Alike(FromAwaitingResults(a, e), FromAwaitingResults(b, e))
    BY <1>2 DEF FromAwaitingResults, Alike, IsLoop
  <2> QED
    BY <2>1, <2>2
<1>6. CASE a.state = "awaiting_assistant" /\ ~(e.type \in {"call", "result"} /\ e.tool = NoTool)
  <2>1. /\ ParseEvent(a, s, i) = FromAwaitingAssistant(a, s, i)
        /\ ParseEvent(b, t, j) = FromAwaitingAssistant(b, t, j)
    BY <1>1, <1>2, <1>6 DEF ParseEvent
  <2>2. Alike(FromAwaitingAssistant(a, s, i), FromAwaitingAssistant(b, t, j))
    BY <1>1, <1>2 DEF FromAwaitingAssistant, Alike, IsLoop
  <2> QED
    BY <2>1, <2>2
<1> QED
  BY <1>3, <1>4, <1>5, <1>6 DEF IsLoop, LoopNames

(* The loop is a loop of the parser after every prefix of a history.       *)
LEMMA LoopsAreLoops ==
    ASSUME NEW events \in Seq(Event)
    PROVE  \A i \in 0..Len(events) : IsLoop(LoopStates(events)[i])
<1> DEFINE T == {i \in 0..Len(events) : IsLoop(LoopStates(events)[i])}
<1>1. 0 \in T
  BY LoopSteps, StartIsLoop
<1>2. ASSUME NEW i \in 0..(Len(events) - 1), i \in T PROVE i + 1 \in T
  <2>1. i + 1 \in 1..Len(events) /\ (i + 1) - 1 = i /\ IsLoop(LoopStates(events)[i])
    BY <1>2
  <2>2. events[i + 1] \in Event
    BY <2>1
  <2>3. LoopStates(events)[i + 1] = ParseEvent(LoopStates(events)[i], events, i + 1)
    BY <2>1, LoopSteps
  <2> QED
    BY <2>1, <2>2, <2>3, ParseIsLoop
<1>3. 0..Len(events) \subseteq T
  <2> HIDE DEF T
  <2> QED
    BY <1>1, <1>2, BoundedInduction
<1> QED
  BY <1>3

(* Two histories that agree from some point on, and whose loops are alike  *)
(* there, have loops that are alike from there on.                         *)
LEMMA LoopsStayAlike ==
    ASSUME NEW s \in Seq(Event), NEW t \in Seq(Event), NEW k \in Nat, NEW m \in Nat,
           k + m <= Len(s), m <= Len(t), \A i \in 1..m : s[k + i] = t[i],
           Alike(LoopStates(s)[k], LoopStates(t)[0])
    PROVE  Alike(LoopStates(s)[k + m], LoopStates(t)[m])
<1> DEFINE T == {i \in 0..m : Alike(LoopStates(s)[k + i], LoopStates(t)[i])}
<1>1. 0 \in T
  OBVIOUS
<1>2. ASSUME NEW i \in 0..(m - 1), i \in T PROVE i + 1 \in T
  <2>1. /\ i + 1 \in 1..m /\ i + 1 \in 1..Len(t) /\ k + (i + 1) \in 1..Len(s)
        /\ (i + 1) - 1 = i /\ (k + (i + 1)) - 1 = k + i
        /\ i \in 0..Len(t) /\ k + i \in 0..Len(s)
    OBVIOUS
  <2>2. s[k + (i + 1)] = t[i + 1]
    BY <2>1
  <2>3. IsLoop(LoopStates(s)[k + i]) /\ IsLoop(LoopStates(t)[i])
    BY <2>1, LoopsAreLoops
  <2>4. /\ LoopStates(s)[k + (i + 1)] = ParseEvent(LoopStates(s)[k + i], s, k + (i + 1))
        /\ LoopStates(t)[i + 1] = ParseEvent(LoopStates(t)[i], t, i + 1)
    <3>0. Len(s) \in Nat /\ Len(t) \in Nat
      OBVIOUS
    <3>1. \A j \in 1..Len(s) : LoopStates(s)[j] = ParseEvent(LoopStates(s)[j - 1], s, j)
      BY <3>0, LoopSteps, Zenon
    <3>2. \A j \in 1..Len(t) : LoopStates(t)[j] = ParseEvent(LoopStates(t)[j - 1], t, j)
      BY <3>0, LoopSteps, Zenon
    <3>3. LoopStates(s)[k + (i + 1)] = ParseEvent(LoopStates(s)[k + i], s, k + (i + 1))
      BY <2>1, <3>1
    <3> QED
      BY <2>1, <3>2, <3>3
  <2>5. Alike(LoopStates(s)[k + i], LoopStates(t)[i])
    BY <1>2
  <2>6. Alike(LoopStates(s)[k + (i + 1)], LoopStates(t)[i + 1])
    BY <2>2, <2>3, <2>4, <2>5, ParseAlike
  <2> QED
    BY <2>1, <2>6
<1>3. 0..m \subseteq T
  <2> HIDE DEF T
  <2> QED
    BY <1>1, <1>2, BoundedInduction, Zenon
<1> QED
  BY <1>3

(* The loop after the first n events is the loop of the prefix.            *)
LEMMA PrefixLoop ==
    ASSUME NEW s \in Seq(Event), NEW n \in 0..Len(s)
    PROVE  EvaluateToolLoop(SubSeq(s, 1, n)) = LoopStates(s)[n].state
<1> DEFINE t == SubSeq(s, 1, n)
<1>1. t \in Seq(Event) /\ Len(t) = n /\ \A i \in 1..n : s[0 + i] = t[i]
  OBVIOUS
<1> HIDE DEF t
<1>2. Alike(LoopStates(s)[0], LoopStates(t)[0])
  BY <1>1, LoopSteps DEF Alike
<1>3. 0 \in Nat /\ n \in Nat /\ 0 + n <= Len(s) /\ n <= Len(t)
  BY <1>1
<1>4. Alike(LoopStates(s)[0 + n], LoopStates(t)[n])
  BY <1>1, <1>2, <1>3, LoopsStayAlike, SMTT(30)
<1> QED
  BY <1>1, <1>4 DEF Alike, EvaluateToolLoop, ParseEvents, t

(* Behind a closed prefix the parser starts afresh: the rest of a history  *)
(* has the verdict of the whole.                                           *)
LEMMA RestAfterStable ==
    ASSUME NEW s \in Seq(Event), NEW n \in 0..Len(s),
           EvaluateToolLoop(SubSeq(s, 1, n)) = "stable"
    PROVE  EvaluateToolLoop(SubSeq(s, n + 1, Len(s))) = EvaluateToolLoop(s)
<1> DEFINE t == SubSeq(s, n + 1, Len(s))
           m == Len(s) - n
<1>1. /\ t \in Seq(Event) /\ Len(t) = m /\ m \in Nat /\ n + m = Len(s)
      /\ \A i \in 1..m : s[n + i] = t[i]
  OBVIOUS
<1>2. LoopStates(s)[n].state = "stable" /\ IsLoop(LoopStates(s)[n])
  BY PrefixLoop, LoopsAreLoops
<1> HIDE DEF t, m
<1>3. LoopStates(t)[0] = StableStart
  BY <1>1, LoopSteps
<1>4. Alike(LoopStates(s)[n], LoopStates(t)[0])
  BY <1>2, <1>3 DEF Alike, IsLoop, StableStart
<1>5. Alike(LoopStates(s)[n + m], LoopStates(t)[m])
  BY <1>1, <1>4, LoopsStayAlike, SMTT(30)
<1> QED
  BY <1>1, <1>5, SMTT(30) DEF Alike, EvaluateToolLoop, ParseEvents, t

(* A broken loop never closes again: an answer that ends a history which   *)
(* is stable in the end left the loop closed when it was written.          *)
LEMMA AnswerCloses ==
    ASSUME NEW s \in Seq(Event), NEW n \in 1..Len(s), s[n].type = "assistant",
           EvaluateToolLoop(s) = "stable"
    PROVE  EvaluateToolLoop(SubSeq(s, 1, n)) = "stable"
<1> DEFINE m == Len(s) - n
<1>0. m \in Nat /\ n + m = Len(s) /\ n \in Nat /\ Len(s) \in Nat
  OBVIOUS
<1> HIDE DEF m
<1> DEFINE T == {i \in 0..m : LoopStates(s)[n + i].state = "invalid"}
<1>1. LoopStates(s)[n] = ParseEvent(LoopStates(s)[n - 1], s, n)
  BY LoopSteps
<1>2. IsLoop(LoopStates(s)[n - 1])
  BY LoopsAreLoops
<1>3. LoopStates(s)[n].state \in {"stable", "invalid"}
  <2> DEFINE a == LoopStates(s)[n - 1]
  <2>1. IsLoop(a) /\ a.state \in LoopNames
    BY <1>2 DEF IsLoop
  <2> HIDE DEF a
  <2>2. ParseEvent(a, s, n).state \in {"stable", "invalid"}
    BY <2>1 DEF ParseEvent, FromStable, FromAwaitingResults, FromAwaitingAssistant,
                InvalidLoop, IsLoop, LoopNames
  <2> QED
    BY <1>1, <2>2 DEF a
<1>4. ASSUME LoopStates(s)[n].state = "invalid" PROVE FALSE
  <2>1. 0 \in T
    BY <1>0, <1>4
  <2>2. ASSUME NEW i \in 0..(m - 1), i \in T PROVE i + 1 \in T
    <3>1. /\ n + (i + 1) \in 1..Len(s) /\ (n + (i + 1)) - 1 = n + i /\ i + 1 \in 0..m
      BY <1>0
    <3>2. LoopStates(s)[n + i].state = "invalid"
      BY <2>2
    <3>3. LoopStates(s)[n + (i + 1)] = ParseEvent(LoopStates(s)[n + i], s, n + (i + 1))
      BY <1>0, <3>1, LoopSteps
    <3>4. LoopStates(s)[n + (i + 1)].state = "invalid"
      BY <3>2, <3>3 DEF ParseEvent, InvalidLoop
    <3> QED
      BY <3>1, <3>4
  <2>3. 0..m \subseteq T
    <3> HIDE DEF T
    <3> QED
      BY <1>0, <2>1, <2>2, BoundedInduction
  <2>4. LoopStates(s)[Len(s)].state = "invalid"
    <3>1. m \in 0..m
      BY <1>0
    <3>2. m \in T
      BY <2>3, <3>1
    <3> QED
      BY <1>0, <3>2
  <2> QED
    BY <2>4 DEF EvaluateToolLoop, ParseEvents
<1> QED
  BY <1>3, <1>4, PrefixLoop

----------------------------------------------------------------------------
(* The hooks *)

Pcs == {"idle", "read", "capture_user", "agent", "tool", "capture_assistant",
        "check", "raise", "done"}

Turn == [pc : Pcs, tool : Tools \cup {NoTool}, calls : Nat, results : Nat, assistant : Nat]

(* The id of a journalled event names its type.                            *)
TurnTypeOK ==
    /\ journal \in Seq(Event)
    /\ \A i \in 1..Len(journal) : journal[i].id[2] = journal[i].type
    /\ covered \in 0..Len(journal)
    /\ intents \subseteq 1..Len(journal)
    /\ turn \in [Turns -> Turn]

(* A turn about to raise an intent holds the sequence of an answer, and    *)
(* once it has read a stable loop that answer closes the loop.             *)
AnswerHeld(t) ==
    LET n == turn[t].assistant IN
    /\ turn[t].pc \in {"check", "raise"} =>
          n \in 1..Len(journal) /\ journal[n].type = "assistant"
    /\ turn[t].pc = "raise" => EvaluateToolLoop(SubSeq(journal, 1, n)) = "stable"

TurnInv ==
    /\ TurnTypeOK
    /\ \A t \in Turns : AnswerHeld(t)
    /\ IntentTargetsStablePrefix
    /\ covered # 0 => covered \in intents

(* The empty history is stable.                                            *)
LEMMA EmptyStable == EvaluateToolLoop(<<>>) = "stable"
BY LoopSteps DEF EvaluateToolLoop, ParseEvents, StableStart

(* What the active snapshot covers is a closed history, so the delta has   *)
(* the verdict of the journal.                                             *)
LEMMA DeltaVerdict ==
    ASSUME TurnInv
    PROVE  DeltaAgreesWithJournal
<1>1. /\ journal \in Seq(Event) /\ covered \in 0..Len(journal)
      /\ covered # 0 => covered \in intents
  BY DEF TurnInv, TurnTypeOK
<1>2. EvaluateToolLoop(SubSeq(journal, 1, covered)) = "stable"
  <2>1. CASE covered = 0
    <3>1. SubSeq(journal, 1, covered) = <<>>
      BY <1>1, <2>1
    <3> QED
      BY <3>1, EmptyStable, Zenon
  <2>2. CASE covered # 0
    BY <1>1, <2>2 DEF TurnInv, IntentTargetsStablePrefix
  <2> QED
    BY <2>1, <2>2
<1>3. EvaluateToolLoop(SubSeq(journal, covered + 1, Len(journal))) = EvaluateToolLoop(journal)
  BY <1>1, <1>2, RestAfterStable
<1> QED
  BY <1>3 DEF DeltaAgreesWithJournal, LoopState, Delta

(* A journal that is kept or grows by one well-formed event.               *)
Grows ==
    \/ journal' = journal
    \/ \E e \in Event : e.id[2] = e.type /\ journal' = Append(journal, e)

(* A longer journal keeps its length, its events and its prefixes.         *)
LEMMA GrownJournal ==
    ASSUME TurnTypeOK, Grows
    PROVE  /\ journal' \in Seq(Event) /\ Len(journal') >= Len(journal)
           /\ \A i \in 1..Len(journal') : journal'[i].id[2] = journal'[i].type
           /\ \A n \in 1..Len(journal) :
                 /\ n \in 1..Len(journal') /\ journal'[n] = journal[n]
                 /\ SubSeq(journal', 1, n) = SubSeq(journal, 1, n)
<1>1. journal \in Seq(Event) /\ \A i \in 1..Len(journal) : journal[i].id[2] = journal[i].type
  BY DEF TurnTypeOK
<1>2. CASE journal' = journal
  BY <1>1, <1>2
<1>3. ASSUME NEW e \in Event, e.id[2] = e.type, journal' = Append(journal, e)
      PROVE  /\ journal' \in Seq(Event) /\ Len(journal') >= Len(journal)
             /\ \A i \in 1..Len(journal') : journal'[i].id[2] = journal'[i].type
             /\ \A n \in 1..Len(journal) :
                   /\ n \in 1..Len(journal') /\ journal'[n] = journal[n]
                   /\ SubSeq(journal', 1, n) = SubSeq(journal, 1, n)
  <2>1. /\ journal' \in Seq(Event) /\ Len(journal') = Len(journal) + 1
        /\ journal'[Len(journal) + 1] = e
        /\ \A n \in 1..Len(journal) : journal'[n] = journal[n]
    BY <1>1, <1>3
  <2>2. \A i \in 1..Len(journal') : journal'[i].id[2] = journal'[i].type
    BY <1>1, <1>3, <2>1
  <2>3. ASSUME NEW n \in 1..Len(journal)
        PROVE  SubSeq(journal', 1, n) = SubSeq(journal, 1, n)
    BY <1>1, <2>1
  <2> QED
    BY <1>1, <2>1, <2>2, <2>3
<1> QED
  BY <1>2, <1>3 DEF Grows

(* What a growing journal keeps: coverage and intents stay in range and    *)
(* the intents still end closed prefixes.                                  *)
LEMMA GrowthKeeps ==
    ASSUME TurnInv, Grows, UNCHANGED <<covered, intents>>, (turn \in [Turns -> Turn])',
           \A t \in Turns : AnswerHeld(t)'
    PROVE  TurnInv'
<1>1. TurnTypeOK
  BY DEF TurnInv
<1>2. TurnTypeOK'
  BY <1>1, GrownJournal DEF TurnTypeOK
<1>3. IntentTargetsStablePrefix'
  BY <1>1, GrownJournal, Zenon DEF TurnInv, TurnTypeOK, IntentTargetsStablePrefix
<1> QED
  BY <1>2, <1>3 DEF TurnInv

(* A turn whose state is kept still holds its answer.                      *)
LEMMA HeldStays ==
    ASSUME TurnInv, Grows, NEW t \in Turns, turn'[t] = turn[t]
    PROVE  AnswerHeld(t)'
<1>1. TurnTypeOK /\ AnswerHeld(t)
  BY DEF TurnInv
<1> QED
  BY <1>1, GrownJournal, Zenon DEF AnswerHeld

(* A turn outside the two steps that use the answer holds nothing.         *)
LEMMA HeldElsewhere ==
    ASSUME NEW t, turn'[t].pc \notin {"check", "raise"}
    PROVE  AnswerHeld(t)'
BY DEF AnswerHeld

(* A step of one turn that grows the journal by at most one event keeps    *)
(* the invariant when the turn's own answer is accounted for.              *)
LEMMA TurnMoves ==
    ASSUME TurnInv, Grows, UNCHANGED <<covered, intents>>,
           NEW t \in Turns, NEW r \in Turn, turn' = [turn EXCEPT ![t] = r], AnswerHeld(t)'
    PROVE  TurnInv'
<1>1. turn \in [Turns -> Turn]
  BY DEF TurnInv, TurnTypeOK
<1>2. /\ (turn \in [Turns -> Turn])'
      /\ \A u \in Turns \ {t} : turn'[u] = turn[u]
  BY <1>1
<1>3. \A u \in Turns : AnswerHeld(u)'
  BY <1>2, HeldStays
<1> QED
  BY <1>2, <1>3, GrowthKeeps

(* The same for a turn that goes where no answer is used.                  *)
LEMMA TurnGoes ==
    ASSUME TurnInv, Grows, UNCHANGED <<covered, intents>>,
           NEW t \in Turns, NEW r \in Turn, turn' = [turn EXCEPT ![t] = r],
           r.pc \notin {"check", "raise"}
    PROVE  TurnInv'
<1>1. turn'[t] = r
  BY DEF TurnInv, TurnTypeOK
<1>2. AnswerHeld(t)'
  BY <1>1, HeldElsewhere
<1> QED
  BY <1>2, TurnMoves, Zenon

(* A capture adds at most its event.                                       *)
LEMMA CaptureGrows ==
    ASSUME NEW t \in Turns, NEW type \in EventTypes, NEW ordinal \in Nat,
           NEW x \in Tools \cup {NoTool}, Capture(EventOf(t, type, ordinal, x))
    PROVE  Grows
<1>1. /\ EventOf(t, type, ordinal, x) \in Event
      /\ EventOf(t, type, ordinal, x).id[2] = EventOf(t, type, ordinal, x).type
  BY DEF EventOf, Event
<1> QED
  BY <1>1 DEF Capture, Grows

(* The sequence of a captured answer is that of an answer: its row, new or *)
(* already there, has the id of the event and so its type.                 *)
LEMMA AnswerSequence ==
    ASSUME TurnTypeOK, NEW t \in Turns, NEW e, e = EventOf(t, "assistant", 0, NoTool),
           Capture(e)
    PROVE  /\ SequenceOf(e) \in 1..Len(journal') /\ SequenceOf(e) \in Nat
           /\ journal'[SequenceOf(e)].type = "assistant"
<1>1. e.id[2] = "assistant" /\ e.type = "assistant"
  BY DEF EventOf
<1>2. /\ journal \in Seq(Event) /\ DOMAIN journal = 1..Len(journal)
      /\ \A i \in 1..Len(journal) : journal[i].id[2] = journal[i].type
  BY DEF TurnTypeOK
<1>3. CASE Written(e)
  <2>1. /\ SequenceOf(e) \in DOMAIN journal /\ journal[SequenceOf(e)].id = e.id
    BY <1>3 DEF SequenceOf, Written
  <2>2. journal' = journal
    BY <1>3 DEF Capture
  <2> QED
    BY <1>1, <1>2, <2>1, <2>2
<1>4. CASE ~Written(e)
  <2>1. SequenceOf(e) = Len(journal) + 1 /\ journal' = Append(journal, e)
    BY <1>4 DEF SequenceOf, Capture
  <2> QED
    BY <1>1, <1>2, <2>1
<1> QED
  BY <1>3, <1>4

(* The three steps in which the answer of a turn matters.                  *)
LEMMA CaptureAssistantStep ==
    ASSUME TurnInv, NEW t \in Turns, CaptureAssistant(t)
    PROVE  TurnInv'
<1> DEFINE e == EventOf(t, "assistant", 0, NoTool)
<1>1. PICK should_compact \in BOOLEAN, conflict \in {Written(e), FALSE} :
         IF conflict
         THEN Go(t, "done") /\ UNCHANGED journal
         ELSE /\ Capture(e)
              /\ turn' = [turn EXCEPT
                    ![t].pc = IF should_compact THEN "check" ELSE "done",
                    ![t].assistant = SequenceOf(e)]
  BY Zenon DEF CaptureAssistant
<1>2. UNCHANGED <<covered, intents>>
  BY DEF CaptureAssistant
<1>3. turn \in [Turns -> Turn] /\ TurnTypeOK
  BY DEF TurnInv, TurnTypeOK
<1>4. CASE conflict
  <2> DEFINE r == [turn[t] EXCEPT !.pc = "done"]
  <2>1. r \in Turn /\ r.pc = "done" /\ turn' = [turn EXCEPT ![t] = r]
    BY <1>1, <1>3, <1>4 DEF Go, Turn, Pcs
  <2>2. Grows
    BY <1>1, <1>4 DEF Grows
  <2> HIDE DEF r
  <2> QED
    BY <1>2, <2>1, <2>2, TurnGoes, Zenon
<1>5. CASE ~conflict
  <2> DEFINE pc == IF should_compact THEN "check" ELSE "done"
             n == SequenceOf(e)
             r == [turn[t] EXCEPT !.pc = pc, !.assistant = n]
  <2>1. Capture(e) /\ turn' = [turn EXCEPT ![t].pc = pc, ![t].assistant = n]
    BY <1>1, <1>5
  <2>2. pc \in {"check", "done"}
    OBVIOUS
  <2>3. n \in 1..Len(journal') /\ n \in Nat /\ journal'[n].type = "assistant"
    BY <1>3, <2>1, AnswerSequence
  <2>4. Grows
    BY <2>1, CaptureGrows DEF EventTypes
  <2> HIDE DEF pc, n, e
  <2>5. r \in Turn /\ r.pc = pc /\ r.assistant = n /\ turn' = [turn EXCEPT ![t] = r]
    BY <1>3, <2>1, <2>2, <2>3, Zenon DEF Turn, Pcs
  <2> HIDE DEF r
  <2>6. turn'[t] = r
    BY <1>3, <2>5
  <2>7. AnswerHeld(t)'
    BY <2>2, <2>3, <2>5, <2>6 DEF AnswerHeld
  <2> QED
    BY <1>2, <2>4, <2>5, <2>7, TurnMoves, Zenon
<1> QED
  BY <1>4, <1>5

(* Reading the state of the tool loop before raising an intent: only a     *)
(* turn whose journalled answer closes the loop goes on to raise one.      *)
LEMMA CheckStableStep ==
    ASSUME TurnInv, NEW t \in Turns, CheckStable(t)
    PROVE  TurnInv'
<1>1. /\ turn \in [Turns -> Turn] /\ journal \in Seq(Event) /\ AnswerHeld(t)
      /\ Grows /\ UNCHANGED <<journal, covered, intents>>
  BY DEF TurnInv, TurnTypeOK, CheckStable, Grows
<1> DEFINE pc == IF LoopState = "stable" THEN "raise" ELSE "done"
           r == [turn[t] EXCEPT !.pc = pc]
<1>2. turn' = [turn EXCEPT ![t].pc = pc] /\ turn[t].pc = "check"
  BY DEF CheckStable, Go
<1>3. pc \in {"raise", "done"} /\ (pc = "raise" => LoopState = "stable")
  OBVIOUS
<1> HIDE DEF pc
<1>4. /\ r \in Turn /\ r.pc = pc /\ r.assistant = turn[t].assistant
      /\ turn' = [turn EXCEPT ![t] = r]
  BY <1>1, <1>2, <1>3, Zenon DEF Turn, Pcs
<1> HIDE DEF r
<1>5. CASE pc = "done"
  BY <1>1, <1>4, <1>5, TurnGoes, Zenon
<1>6. CASE pc = "raise"
  <2> DEFINE n == turn[t].assistant
  <2>1. n \in 1..Len(journal) /\ journal[n].type = "assistant"
    BY <1>1, <1>2 DEF AnswerHeld
  <2>2. EvaluateToolLoop(journal) = "stable"
    BY <1>3, <1>6, DeltaVerdict DEF DeltaAgreesWithJournal
  <2>3. EvaluateToolLoop(SubSeq(journal, 1, n)) = "stable"
    BY <1>1, <2>1, <2>2, AnswerCloses
  <2>4. turn'[t] = r
    BY <1>1, <1>4
  <2>5. turn'[t].pc = "raise" /\ turn'[t].assistant = n /\ journal' = journal
    BY <1>1, <1>4, <1>6, <2>4
  <2> HIDE DEF n
  <2>6. AnswerHeld(t)'
    BY <2>1, <2>3, <2>5 DEF AnswerHeld
  <2> QED
    BY <1>1, <1>4, <2>6, TurnMoves, Zenon
<1> QED
  BY <1>3, <1>5, <1>6

(* Raising the intent: its target is the answer the turn holds, which      *)
(* closed the loop when it was checked and still does.                     *)
LEMMA RaiseIntentStep ==
    ASSUME TurnInv, NEW t \in Turns, RaiseIntent(t)
    PROVE  TurnInv'
<1> DEFINE n == turn[t].assistant
<1>1. /\ TurnTypeOK /\ AnswerHeld(t) /\ IntentTargetsStablePrefix
      /\ covered # 0 => covered \in intents
  BY DEF TurnInv
<1>2. /\ turn[t].pc = "raise" /\ turn' = [turn EXCEPT ![t].pc = "done"]
      /\ intents' = intents \/ intents' = intents \cup {n}
      /\ UNCHANGED <<journal, covered>>
  BY DEF RaiseIntent, Go
<1>3. n \in 1..Len(journal) /\ EvaluateToolLoop(SubSeq(journal, 1, n)) = "stable"
  BY <1>1, <1>2 DEF AnswerHeld
<1> HIDE DEF n
<1>4. IntentTargetsStablePrefix' /\ (covered # 0 => covered \in intents)'
  BY <1>1, <1>2, <1>3 DEF IntentTargetsStablePrefix
<1>5. (turn \in [Turns -> Turn])' /\ \A u \in Turns : u # t => turn'[u] = turn[u]
  BY <1>1, <1>2, Zenon DEF TurnTypeOK, Turn, Pcs
<1>6. turn'[t].pc = "done"
  BY <1>1, <1>2 DEF TurnTypeOK, Turn
<1>7. TurnTypeOK'
  BY <1>1, <1>2, <1>3, <1>5 DEF TurnTypeOK
<1>8. \A u \in Turns : AnswerHeld(u)'
  <2>1. Grows
    BY <1>2 DEF Grows
  <2> QED
    BY <1>5, <1>6, <2>1, HeldStays, HeldElsewhere, SMTT(30)
<1> QED
  BY <1>4, <1>7, <1>8 DEF TurnInv

(* The other steps of a turn go where no answer is used.                   *)
LEMMA HookStep ==
    ASSUME TurnInv, NEW t \in Turns,
           \/ OnLlmRequest(t) \/ ReadInitialView(t) \/ CaptureUser(t) \/ OnAgentDone(t)
           \/ CaptureFails(t) \/ Redeliver(t)
           \/ \E x \in Tools \cup {NoTool} : OnUsingLlmTool(t, x) \/ OnLlmToolRespond(t, x)
    PROVE  TurnInv'
<1>1. turn \in [Turns -> Turn] /\ turn[t] \in Turn
  BY DEF TurnInv, TurnTypeOK
<1>2. ASSUME NEW pc \in Pcs \ {"check", "raise"}, Go(t, pc),
             Grows, UNCHANGED <<covered, intents>>
      PROVE  TurnInv'
  <2> DEFINE r == [turn[t] EXCEPT !.pc = pc]
  <2>1. r \in Turn /\ r.pc = pc /\ turn' = [turn EXCEPT ![t] = r]
    BY <1>1, <1>2 DEF Go, Turn
  <2> HIDE DEF r
  <2> QED
    BY <1>2, <2>1, TurnGoes, Zenon
<1>3. CASE OnLlmRequest(t)
  <2> DEFINE r == [Fresh EXCEPT !.pc = "read"]
  <2>1. r \in Turn /\ r.pc = "read"
    BY DEF Fresh, Turn, Pcs
  <2>2. turn' = [turn EXCEPT ![t] = r] /\ Grows /\ UNCHANGED <<covered, intents>>
    BY <1>3 DEF OnLlmRequest, Grows
  <2> HIDE DEF r
  <2> QED
    BY <2>1, <2>2, TurnGoes, Zenon
<1>4. CASE ReadInitialView(t)
  <2> DEFINE pc == IF LoopState = "stable" THEN "capture_user" ELSE "done"
  <2>1. pc \in Pcs \ {"check", "raise"}
    BY DEF Pcs
  <2>2. Go(t, pc) /\ Grows /\ UNCHANGED <<covered, intents>>
    BY <1>4 DEF ReadInitialView, Grows
  <2> HIDE DEF pc
  <2> QED
    BY <1>2, <2>1, <2>2
<1>5. CASE CaptureUser(t)
  <2>1. Go(t, "agent") /\ UNCHANGED <<covered, intents>>
    BY <1>5 DEF CaptureUser
  <2>2. Grows
    BY <1>5, CaptureGrows DEF CaptureUser, EventTypes
  <2> QED
    BY <1>2, <2>1, <2>2 DEF Pcs
<1>6. CASE OnAgentDone(t)
  <2> DEFINE pc == IF plugin = "ready" /\ LoopState \in {"stable", "awaiting_assistant"}
                   THEN "capture_assistant" ELSE "done"
  <2>1. pc \in Pcs \ {"check", "raise"}
    BY DEF Pcs
  <2>2. Go(t, pc) /\ Grows /\ UNCHANGED <<covered, intents>>
    BY <1>6 DEF OnAgentDone, Grows
  <2> HIDE DEF pc
  <2> QED
    BY <1>2, <2>1, <2>2
<1>7. CASE CaptureFails(t)
  <2> DEFINE pc == CASE turn[t].pc = "agent" /\ turn[t].calls < MaxToolCalls -> "tool"
                     [] turn[t].pc = "tool" -> "agent"
                     [] OTHER -> "done"
  <2>1. pc \in Pcs \ {"check", "raise"}
    BY DEF Pcs
  <2>2. Go(t, pc) /\ Grows /\ UNCHANGED <<covered, intents>>
    BY <1>7 DEF CaptureFails, Grows
  <2> HIDE DEF pc
  <2> QED
    BY <1>2, <2>1, <2>2
<1>8. CASE Redeliver(t)
  <2>1. Fresh \in Turn /\ Fresh.pc = "idle"
    BY DEF Fresh, Turn, Pcs
  <2>2. turn' = [turn EXCEPT ![t] = Fresh] /\ Grows /\ UNCHANGED <<covered, intents>>
    BY <1>8 DEF Redeliver, Grows
  <2> QED
    BY <2>1, <2>2, TurnGoes, Zenon
<1>9. ASSUME NEW x \in Tools \cup {NoTool}, OnUsingLlmTool(t, x)
      PROVE  TurnInv'
  <2>1. UNCHANGED <<covered, intents>>
    BY <1>9, Zenon DEF OnUsingLlmTool
  <2>2. turn[t].calls \in Nat
    BY <1>1 DEF Turn
  <2>3. CASE plugin = "ready"
    <3> DEFINE r == [turn[t] EXCEPT !.pc = "tool", !.tool = x, !.calls = @ + 1]
    <3>1. /\ Capture(EventOf(t, "call", turn[t].calls, x))
          /\ turn' = [turn EXCEPT ![t].pc = "tool", ![t].tool = x, ![t].calls = @ + 1]
      BY <1>9, <2>3, Zenon DEF OnUsingLlmTool
    <3>2. Grows
      BY <2>2, <3>1, CaptureGrows DEF EventTypes
    <3>3. r \in Turn /\ r.pc = "tool" /\ turn' = [turn EXCEPT ![t] = r]
      BY <1>1, <2>2, <3>1 DEF Turn, Pcs
    <3> HIDE DEF r
    <3> QED
      BY <2>1, <3>2, <3>3, TurnGoes, Zenon
  <2>4. CASE plugin # "ready"
    <3> DEFINE r == [turn[t] EXCEPT !.pc = "tool", !.tool = x]
    <3>1. turn' = [turn EXCEPT ![t].pc = "tool", ![t].tool = x] /\ Grows
      BY <1>9, <2>4 DEF OnUsingLlmTool, Grows
    <3>2. r \in Turn /\ r.pc = "tool" /\ turn' = [turn EXCEPT ![t] = r]
      BY <1>1, <3>1, Zenon DEF Turn, Pcs
    <3> HIDE DEF r
    <3> QED
      BY <2>1, <3>1, <3>2, TurnGoes, Zenon
  <2> QED
    BY <2>3, <2>4
<1>10. ASSUME NEW x \in Tools \cup {NoTool}, OnLlmToolRespond(t, x)
       PROVE  TurnInv'
  <2>1. UNCHANGED <<covered, intents>>
    BY <1>10 DEF OnLlmToolRespond
  <2>2. turn[t].results \in Nat
    BY <1>1 DEF Turn
  <2>3. CASE plugin = "ready"
    <3> DEFINE r == [turn[t] EXCEPT !.pc = "agent", !.results = @ + 1]
    <3>1. /\ Capture(EventOf(t, "result", turn[t].results, x))
          /\ turn' = [turn EXCEPT ![t].pc = "agent", ![t].results = @ + 1]
      BY <1>10, <2>3 DEF OnLlmToolRespond
    <3>2. Grows
      BY <2>2, <3>1, CaptureGrows DEF EventTypes
    <3>3. r \in Turn /\ r.pc = "agent" /\ turn' = [turn EXCEPT ![t] = r]
      BY <1>1, <2>2, <3>1 DEF Turn, Pcs
    <3> HIDE DEF r
    <3> QED
      BY <2>1, <3>2, <3>3, TurnGoes, Zenon
  <2>4. CASE plugin # "ready"
    <3>1. Go(t, "agent") /\ Grows
      BY <1>10, <2>4 DEF OnLlmToolRespond, Grows
    <3> QED
      BY <1>2, <2>1, <3>1 DEF Pcs
  <2> QED
    BY <2>3, <2>4
<1> QED
  BY <1>3, <1>4, <1>5, <1>6, <1>7, <1>8, <1>9, <1>10, SMTT(30)

(* A snapshot is published up to a target that closes the loop.            *)
LEMMA PublishStep ==
    ASSUME TurnInv, NEW n \in intents, Publish(n)
    PROVE  TurnInv'
<1>1. covered' = n /\ UNCHANGED <<journal, intents, turn>>
  BY DEF Publish
<1>2. n \in 0..Len(journal)
  BY DEF TurnInv, TurnTypeOK
<1>3. TurnTypeOK'
  BY <1>1, <1>2 DEF TurnInv, TurnTypeOK
<1>4. \A t \in Turns : AnswerHeld(t)'
  BY <1>1 DEF TurnInv, AnswerHeld
<1>5. IntentTargetsStablePrefix'
  BY <1>1 DEF TurnInv, IntentTargetsStablePrefix
<1> QED
  BY <1>1, <1>3, <1>4, <1>5 DEF TurnInv

(* A crash ends the turns that run.                                        *)
LEMMA CrashStep ==
    ASSUME TurnInv, Crash
    PROVE  TurnInv'
<1>1. /\ Grows /\ UNCHANGED <<covered, intents>>
      /\ turn' = [t \in Turns |-> IF turn[t].pc = "idle" THEN turn[t]
                                  ELSE [turn[t] EXCEPT !.pc = "done"]]
  BY DEF Crash, Grows
<1>2. turn \in [Turns -> Turn]
  BY DEF TurnInv, TurnTypeOK
<1>3. ASSUME NEW t \in Turns
      PROVE  turn'[t] \in Turn /\ turn'[t].pc \in {"idle", "done"}
  <2>1. turn[t] \in Turn
    BY <1>2
  <2>2. CASE turn[t].pc = "idle"
    BY <1>1, <2>1, <2>2
  <2>3. CASE turn[t].pc # "idle"
    <3>1. turn'[t] = [turn[t] EXCEPT !.pc = "done"]
      BY <1>1, <2>3
    <3> QED
      BY <2>1, <3>1 DEF Turn, Pcs
  <2> QED
    BY <2>2, <2>3
<1>4. (turn \in [Turns -> Turn])'
  BY <1>1, <1>3
<1>5. \A t \in Turns : AnswerHeld(t)'
  BY <1>3, HeldElsewhere
<1> QED
  BY <1>1, <1>4, <1>5, GrowthKeeps

(* With an empty journal and no turn begun there is nothing to answer for. *)
LEMMA TurnInitially == Init => TurnInv
<1> SUFFICES ASSUME Init PROVE TurnInv
  OBVIOUS
<1>1. Fresh \in Turn /\ Fresh.pc = "idle"
  BY DEF Fresh, Turn, Pcs
<1>2. TurnTypeOK
  BY <1>1 DEF Init, TurnTypeOK
<1>3. \A t \in Turns : AnswerHeld(t)
  BY <1>1 DEF Init, AnswerHeld
<1> QED
  BY <1>2, <1>3 DEF Init, TurnInv, IntentTargetsStablePrefix

(* Every hook, publication, reload and crash preserves the invariant.      *)
LEMMA TurnNext == TurnInv /\ [Next]_vars => TurnInv'
<1> SUFFICES ASSUME TurnInv, [Next]_vars PROVE TurnInv'
  OBVIOUS
<1>1. ASSUME UNCHANGED <<journal, covered, intents, turn>>
      PROVE  TurnInv'
  BY <1>1 DEF TurnInv, TurnTypeOK, AnswerHeld, IntentTargetsStablePrefix
<1>2. ASSUME NEW t \in Turns,
             \/ OnLlmRequest(t) \/ ReadInitialView(t) \/ CaptureUser(t)
             \/ \E x \in Tools \cup {NoTool} : OnUsingLlmTool(t, x) \/ OnLlmToolRespond(t, x)
             \/ OnAgentDone(t) \/ CaptureAssistant(t) \/ CheckStable(t) \/ RaiseIntent(t)
             \/ CaptureFails(t) \/ Redeliver(t)
      PROVE  TurnInv'
  BY <1>2, HookStep, CaptureAssistantStep, CheckStableStep, RaiseIntentStep, SMTT(30)
<1>3. ASSUME NEW n \in intents, Publish(n)
      PROVE  TurnInv'
  BY <1>3, PublishStep
<1>4. CASE Terminate
  BY <1>1, <1>4 DEF Terminate
<1>5. CASE Crash
  BY <1>5, CrashStep
<1>6. CASE UNCHANGED vars
  BY <1>1, <1>6 DEF vars
<1> QED
  BY <1>2, <1>3, <1>4, <1>5, <1>6 DEF Next

(* The inductive invariant of the hooks: a snapshot covers a raised target,*)
(* every raised target closes the loop, and a turn that is about to raise  *)
(* one holds an answer that does.                                          *)
THEOREM TurnInvariant == Spec => []TurnInv
BY TurnInitially, TurnNext, PTL DEF Spec

(* Every compaction target the hooks raise ends a journal prefix whose     *)
(* tool loop is closed, for any number of turns, tools and tool calls and  *)
(* whatever they write between the hook's reads, its capture and its       *)
(* intent (on_agent_done_finalize).                                        *)
THEOREM TargetsCloseTheLoop == Spec => []IntentTargetsStablePrefix
<1>1. TurnInv => IntentTargetsStablePrefix
  BY DEF TurnInv
<1> QED
  BY <1>1, TurnInvariant, PTL

(* The verdict the hooks take from the delta is that of the whole journal: *)
(* no published snapshot hides an open or broken tool exchange.            *)
THEOREM DeltaVerdictIsJournals == Spec => []DeltaAgreesWithJournal
<1>1. TurnInv => DeltaAgreesWithJournal
  BY DeltaVerdict
<1> QED
  BY <1>1, TurnInvariant, PTL
=============================================================================
