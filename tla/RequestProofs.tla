--------------------------- MODULE RequestProofs ---------------------------
(***************************************************************************)
(* One request through the projection hooks, for message lists of every    *)
(* length, any number of edits by other plugins and any outcome of the     *)
(* budget: the list the host would have without the plugin comes back, and *)
(* the usage counter is hidden only while a projection is in place.        *)
(***************************************************************************)
EXTENDS RequestHooks, ProjectionProofs

(* What the lists of a request are made of.                                *)
Natives == UNION {ToSet(m) : m \in NativeLists}

Objects == Natives \cup Foreign \cup {Answer, Projected}

Pcs == {"begin", "project", "evaluate", "agent", "finalize", "done"}

IsState(t) ==
    /\ t = [pc |-> t.pc, guard |-> t.guard, projected |-> t.projected,
            restored |-> t.restored, delta |-> t.delta, original |-> t.original,
            w |-> t.w, late |-> t.late, fault |-> t.fault]
    /\ t.pc \in Pcs /\ t.restored \in BOOLEAN /\ t.original \in BOOLEAN

IsGuard(g) ==
    /\ g = [ok |-> TRUE, list |-> g.list, native |-> g.native, system |-> g.system,
            current |-> g.current, history |-> g.history]
    /\ g.native \in Seq(Objects) /\ g.native # <<>> /\ g.current = Last(g.native)
    /\ g.current \in Objects \ {Projected} /\ g.current \notin g.history

IsView(v) ==
    /\ v = [guard |-> v.guard, pre |-> v.pre, objects |-> v.objects]
    /\ v.pre \in Seq(Objects) /\ v.pre # <<>> /\ Absent(v.pre, Projected)
    /\ v.objects \in {<<>>, <<Projected>>}

(* What the hooks leave in the fields of a request.                        *)
StateOK(t) ==
    /\ IsState(t)
    /\ t.guard # NoGuard => IsGuard(t.guard) /\ t.pc # "begin"
    /\ t.pc = "evaluate" => t.guard # NoGuard
    /\ t.projected # NoGuard =>
          /\ IsView(t.projected) /\ t.projected.guard = t.guard /\ t.guard # NoGuard
          /\ t.pc \in {"agent", "finalize", "done"}
    /\ t.restored => t.projected # NoGuard /\ t.pc \in {"finalize", "done"}

(* The host's own list is owed to it: no edit hit what restore needs, and  *)
(* nothing stood behind the current input when the list was projected.     *)
Owed(t, d) ==
    ~d /\ (t.projected # NoGuard => Last(t.projected.pre) = t.guard.current)

Untouched(t, s, h) == t.projected = NoGuard => s = h /\ Absent(s, Projected)

(* While the list is projected, what restore puts together is the host's.  *)
Recoverable(t, s, h, d) ==
    Owed(t, d) /\ ~t.restored /\ t.guard # NoGuard =>
        \E k \in DOMAIN s :
            /\ Once(s, t.guard.current, k)
            /\ t.projected # NoGuard => Recovers(s, h, t.projected.pre, k, Projected)

CameBack(t, s, h, d) ==
    Owed(t, d) =>
        /\ t.restored => s = h /\ Absent(s, Projected)
        /\ t.projected # NoGuard /\ t.pc \in {"finalize", "done"} => t.restored

(* With no edits the guard's list is the one that is projected.            *)
Quiet(t, s, d) ==
    /\ ~d /\ ~t.fault
    /\ t.guard # NoGuard /\ t.pc \in {"project", "evaluate"} => s = t.guard.native
    /\ t.projected # NoGuard => t.projected.pre = t.guard.native
    /\ t.restored => s = t.projected.pre \o t.delta

ListsOK(t, s, h, d, n) ==
    /\ s \in Seq(Objects) /\ h \in Seq(Objects) /\ d \in BOOLEAN /\ n \in Nat
    /\ StateOK(t) /\ Untouched(t, s, h) /\ Recoverable(t, s, h, d) /\ CameBack(t, s, h, d)
    /\ n = 0 => Quiet(t, s, d)

RequestInv ==
    /\ ListsOK(state, messages, host, damaged, edits)
    /\ conversation \in {"none", "original", "masked"}
    /\ UsageMaskedOnlyWhileProjected
----------------------------------------------------------------------------
(* Edits by other plugins *)

(* An edit that leaves the lists in order for the request as it is does so *)
(* for the request that notes the edit.                                    *)
LEMMA EditKeeps ==
    ASSUME RequestInv, NEW added, Edit(added),
           messages' \in Seq(Objects), host' \in Seq(Objects), damaged' \in BOOLEAN,
           Untouched(state, messages', host'),
           Recoverable(state, messages', host', damaged'),
           CameBack(state, messages', host', damaged')
    PROVE  RequestInv'
<1> DEFINE u == state'
<1>1. /\ u.pc = state.pc /\ u.guard = state.guard /\ u.projected = state.projected
      /\ u.restored = state.restored /\ u.original = state.original
  BY DEF RequestInv, ListsOK, StateOK, IsState, Edit
<1>2. IsState(u)
  BY Zenon DEF RequestInv, ListsOK, StateOK, IsState, Edit
<1>3. edits' \in Nat /\ edits' # 0 /\ conversation' = conversation
  BY DEF RequestInv, ListsOK, Edit
<1>4. StateOK(state) /\ conversation \in {"none", "original", "masked"}
  BY DEF RequestInv, ListsOK
<1> HIDE DEF u
<1>5. StateOK(u)
  BY <1>1, <1>2, <1>4 DEF StateOK
<1>6. Untouched(u, messages', host')
  BY <1>1 DEF Untouched
<1>7. Recoverable(u, messages', host', damaged')
  BY <1>1 DEF Recoverable, Owed
<1>8. CameBack(u, messages', host', damaged')
  BY <1>1 DEF CameBack, Owed
<1>9. UsageMaskedOnlyWhileProjected'
  BY <1>1, <1>3 DEF UsageMaskedOnlyWhileProjected, IsProjected, RequestInv, u
<1> QED
  BY <1>3, <1>4, <1>5, <1>6, <1>7, <1>8, <1>9, Zenon DEF RequestInv, ListsOK, u

(* Where the edit goes in the host's list: the same position while the     *)
(* lists are the same, and always a position of the list or next to it.    *)
LEMMA HostIndexRange ==
    ASSUME messages \in Seq(Objects), host \in Seq(Objects), NEW i \in 1..(Len(messages) + 1)
    PROVE  /\ HostIndex(i) \in 1..(Len(host) + 1)
           /\ i <= Len(messages) => HostIndex(i) \in 1..Len(host) \/ HostIndex(i) = 1
           /\ messages = host => HostIndex(i) = i
           /\ 1 <= i + Len(host) - Len(messages) => HostIndex(i) = i + Len(host) - Len(messages)
<1>1. Len(messages) \in Nat /\ Len(host) \in Nat
  OBVIOUS
<1> QED
  BY <1>1 DEF HostIndex

(* Foreign objects and answers are objects, and never the projection.      *)
LEMMA OthersObjects ==
    /\ Foreign \cup {Answer, Projected} \subseteq Objects
    /\ Projected \notin Foreign \cup {Answer}
<1>1. Foreign \cup {Answer, Projected} \subseteq Objects
  BY DEF Objects
<1> QED
  BY <1>1, ObjectAssumption, Zenon

(* Another plugin inserts an object of its own.                            *)
LEMMA InsertStep ==
    ASSUME RequestInv, NEW o \in Foreign, NEW i \in 1..(Len(messages) + 1), ForeignInsert(o, i)
    PROVE  RequestInv'
<1> DEFINE x == HostIndex(i)
<1>1. messages \in Seq(Objects) /\ host \in Seq(Objects) /\ damaged \in BOOLEAN
  BY DEF RequestInv, ListsOK
<1>2. StateOK(state) /\ Untouched(state, messages, host)
      /\ Recoverable(state, messages, host, damaged) /\ CameBack(state, messages, host, damaged)
  BY DEF RequestInv, ListsOK
<1>3. o \in Objects /\ o # Projected
  BY OthersObjects, Zenon
<1>4. /\ Edit(Tokens(o)) /\ o \notin ToSet(messages) /\ messages' = InsertAt(messages, i, o)
      /\ host' = IF Shared(i) THEN InsertAt(host, x, o) ELSE host
      /\ damaged' = damaged
  BY DEF ForeignInsert
<1>5. x \in 1..(Len(host) + 1) /\ (messages = host => x = i)
      /\ (1 <= i + Len(host) - Len(messages) => x = i + Len(host) - Len(messages))
  BY <1>1, HostIndexRange, Zenon
<1> HIDE DEF x
<1>6. messages' \in Seq(Objects)
  BY <1>1, <1>3, <1>4, Inserted, Zenon
<1>7. host' \in Seq(Objects)
  <2>1. InsertAt(host, x, o) \in Seq(Objects)
    BY <1>1, <1>3, <1>5, Inserted, Zenon
  <2> QED
    BY <1>1, <1>4, <2>1, Zenon
<1>8. ASSUME messages = host, Shared(i), Absent(messages, Projected)
      PROVE  messages' = host' /\ Absent(messages', Projected)
  <2>1. messages' = host'
    BY <1>4, <1>5, <1>8, Zenon
  <2>2. Absent(messages', Projected)
    BY <1>1, <1>3, <1>4, <1>8, StaysAbsent, Zenon
  <2> QED
    BY <2>1, <2>2, Zenon
<1>9. Untouched(state, messages', host')
  BY <1>2, <1>8, Zenon DEF Untouched, Shared, IsProjected
<1>10. CameBack(state, messages', host', damaged')
  BY <1>2, <1>4, <1>8, Zenon DEF CameBack, Shared
<1>11. Recoverable(state, messages', host', damaged')
  <2>1. SUFFICES ASSUME Owed(state, damaged), ~state.restored, state.guard # NoGuard
        PROVE  \E k \in DOMAIN messages' :
                  /\ Once(messages', state.guard.current, k)
                  /\ state.projected # NoGuard =>
                        Recovers(messages', host', state.projected.pre, k, Projected)
    BY <1>4, Zenon DEF Recoverable
  <2> DEFINE c == state.guard.current
             pre == state.projected.pre
  <2>2. PICK k \in DOMAIN messages :
             /\ Once(messages, c, k)
             /\ state.projected # NoGuard => Recovers(messages, host, pre, k, Projected)
    BY <1>2, <2>1, Zenon DEF Recoverable
  <2>3. k \in 1..Len(messages) /\ messages[k] = c /\ o # c
        /\ \A j \in DOMAIN messages : messages[j] = c => j = k
    BY <1>1, <1>4, <2>2 DEF Once, ToSet
  <2> DEFINE q == IF i <= k THEN k + 1 ELSE k
  <2>4. Once(messages', c, q)
    BY <1>1, <1>3, <1>4, <2>2, <2>3, InsertOnce, Zenon
  <2>5. ASSUME state.projected # NoGuard PROVE Recovers(messages', host', pre, q, Projected)
    <3>1. pre \in Seq(Objects) /\ Recovers(messages, host, pre, k, Projected)
      BY <1>2, <2>2, <2>5, Zenon DEF StateOK, IsView
    <3>2. CASE i <= k
      <4>1. ~Shared(i)
        <5>1. \A j \in 1..(i - 1) : j \in DOMAIN messages /\ j # k
          BY <1>1, <2>3, <3>2
        <5>2. \A j \in 1..(i - 1) : messages[j] # c
          BY <2>3, <5>1, Zenon
        <5> QED
          BY <2>1, <2>5, <5>2, Zenon DEF Shared, IsProjected
      <4>2. Recovers(InsertAt(messages, i, o), host, pre, k + 1, Projected)
        BY <1>1, <1>3, <2>3, <3>1, <3>2, InsertRecovers, Zenon
      <4> QED
        BY <1>4, <3>2, <4>1, <4>2, Zenon
    <3>3. CASE k < i
      <4>1. Shared(i)
        <5>1. k \in 1..(i - 1)
          BY <1>1, <2>3, <3>3
        <5> QED
          BY <2>1, <2>3, <5>1, Zenon DEF Shared, Owed
      <4>2. /\ i + Len(host) - Len(messages) \in 1..(Len(host) + 1)
            /\ Recovers(InsertAt(messages, i, o),
                        InsertAt(host, i + Len(host) - Len(messages), o), pre, k, Projected)
        BY <1>1, <1>3, <2>3, <3>1, <3>3, InsertRecovers, Zenon
      <4>3. x = i + Len(host) - Len(messages) /\ q = k
        BY <1>1, <1>5, <2>3, <3>3, <4>2
      <4> QED
        BY <1>4, <4>1, <4>2, <4>3, Zenon
    <3> QED
      BY <1>1, <2>3, <3>2, <3>3
  <2>6. q \in DOMAIN messages'
    BY <2>4 DEF Once
  <2> QED
    BY <2>4, <2>5, <2>6, Zenon
<1> QED
  BY <1>1, <1>4, <1>6, <1>7, <1>9, <1>10, <1>11, EditKeeps, Zenon

(* Another plugin removes an object.                                       *)
LEMMA RemoveStep ==
    ASSUME RequestInv, NEW i \in DOMAIN messages, ForeignRemove(i)
    PROVE  RequestInv'
<1> DEFINE x == HostIndex(i)
<1>1. messages \in Seq(Objects) /\ host \in Seq(Objects) /\ damaged \in BOOLEAN
      /\ i \in 1..Len(messages)
  BY DEF RequestInv, ListsOK
<1>2. StateOK(state) /\ Untouched(state, messages, host)
      /\ Recoverable(state, messages, host, damaged) /\ CameBack(state, messages, host, damaged)
  BY DEF RequestInv, ListsOK
<1>3. /\ Edit(0) /\ messages' = RemoveAt(messages, i)
      /\ host' = IF Shared(i) THEN RemoveAt(host, x) ELSE host
      /\ damaged' = (damaged \/ (Touches(messages[i]) /\ messages[i] # Projected))
  BY DEF ForeignRemove
<1>4. damaged' \in BOOLEAN /\ (~damaged' => ~damaged)
  BY <1>3, Zenon
<1>5. /\ x \in 1..Len(host) \/ x = 1
      /\ messages = host => x = i
      /\ 1 <= i + Len(host) - Len(messages) => x = i + Len(host) - Len(messages)
  <2>1. i \in 1..(Len(messages) + 1) /\ i <= Len(messages)
    BY <1>1
  <2> QED
    BY <1>1, <2>1, HostIndexRange
<1> HIDE DEF x
<1>6. messages' \in Seq(Objects)
  BY <1>1, <1>3, Removed
<1>7. host' \in Seq(Objects)
  <2>1. CASE x \in 1..Len(host)
    BY <1>1, <1>3, <2>1, Removed
  <2>2. CASE x \notin 1..Len(host)
    <3>1. x = 1 /\ host = <<>>
      BY <1>1, <1>5, <2>2
    <3> QED
      BY <1>1, <1>3, <3>1, RemovedFromEmpty, Zenon
  <2> QED
    BY <2>1, <2>2
<1>8. ASSUME messages = host, Shared(i), Absent(messages, Projected)
      PROVE  messages' = host' /\ Absent(messages', Projected)
  <2>1. messages' = host'
    BY <1>3, <1>5, <1>8, Zenon
  <2>2. Absent(messages', Projected)
    BY <1>1, <1>3, <1>8, StaysAbsent, Zenon
  <2> QED
    BY <2>1, <2>2, Zenon
<1>9. Untouched(state, messages', host')
  BY <1>2, <1>8, Zenon DEF Untouched, Shared, IsProjected
<1>10. CameBack(state, messages', host', damaged')
  BY <1>2, <1>4, <1>8, Zenon DEF CameBack, Shared, Owed
<1>11. Recoverable(state, messages', host', damaged')
  <2>1. SUFFICES ASSUME Owed(state, damaged'), ~state.restored, state.guard # NoGuard
        PROVE  \E k \in DOMAIN messages' :
                  /\ Once(messages', state.guard.current, k)
                  /\ state.projected # NoGuard =>
                        Recovers(messages', host', state.projected.pre, k, Projected)
    BY DEF Recoverable
  <2> DEFINE c == state.guard.current
             pre == state.projected.pre
  <2>2. Owed(state, damaged) /\ ~damaged
    BY <1>4, <2>1, Zenon DEF Owed
  <2>3. messages[i] # c
    <3>1. c # Projected
      BY <1>2, <2>1 DEF StateOK, IsGuard
    <3> QED
      BY <1>3, <2>1, <3>1, Zenon DEF Owed, Touches
  <2>4. PICK k \in DOMAIN messages :
             /\ Once(messages, c, k)
             /\ state.projected # NoGuard => Recovers(messages, host, pre, k, Projected)
    BY <1>2, <2>1, <2>2 DEF Recoverable
  <2>5. k \in 1..Len(messages) /\ messages[k] = c /\ i # k
        /\ \A j \in DOMAIN messages : messages[j] = c => j = k
    BY <1>1, <2>3, <2>4 DEF Once
  <2> DEFINE q == IF i < k THEN k - 1 ELSE k
  <2>6. Once(messages', c, q)
    BY <1>1, <1>3, <2>3, <2>4, RemoveOnce, Zenon
  <2>7. ASSUME state.projected # NoGuard PROVE Recovers(messages', host', pre, q, Projected)
    <3>1. pre \in Seq(Objects) /\ Recovers(messages, host, pre, k, Projected)
      BY <1>2, <2>4, <2>7, Zenon DEF StateOK, IsView
    <3>2. CASE i < k
      <4>1. ~Shared(i)
        <5>1. \A j \in 1..(i - 1) : j \in DOMAIN messages /\ j # k
          BY <1>1, <2>5, <3>2
        <5>2. \A j \in 1..(i - 1) : messages[j] # c
          BY <2>5, <5>1, Zenon
        <5> QED
          BY <2>1, <2>7, <5>2, Zenon DEF Shared, IsProjected
      <4>2. Recovers(RemoveAt(messages, i), host, pre, k - 1, Projected)
        BY <1>1, <2>5, <3>1, <3>2, RemoveRecovers, Zenon
      <4> QED
        BY <1>3, <3>2, <4>1, <4>2, Zenon
    <3>3. CASE k < i
      <4>1. Shared(i)
        <5>1. k \in 1..(i - 1)
          BY <1>1, <2>5, <3>3
        <5> QED
          BY <2>2, <2>5, <5>1, Zenon DEF Shared
      <4>2. /\ i + Len(host) - Len(messages) \in 1..Len(host)
            /\ Recovers(RemoveAt(messages, i),
                        RemoveAt(host, i + Len(host) - Len(messages)), pre, k, Projected)
        BY <1>1, <2>5, <3>1, <3>3, RemoveRecovers, Zenon
      <4>3. x = i + Len(host) - Len(messages) /\ q = k
        BY <1>1, <1>5, <2>5, <3>3, <4>2
      <4> QED
        BY <1>3, <4>1, <4>2, <4>3, Zenon
    <3> QED
      BY <1>1, <2>5, <3>2, <3>3
  <2>8. q \in DOMAIN messages'
    BY <2>6 DEF Once
  <2> QED
    BY <2>6, <2>7, <2>8, Zenon
<1> QED
  BY <1>3, <1>4, <1>6, <1>7, <1>9, <1>10, <1>11, EditKeeps, Zenon

(* Another plugin appends an object of the list once more.                 *)
LEMMA RepeatStep ==
    ASSUME RequestInv, NEW i \in DOMAIN messages, ForeignRepeat(i)
    PROVE  RequestInv'
<1> DEFINE o == messages[i]
           n == Len(messages) + 1
<1>1. messages \in Seq(Objects) /\ host \in Seq(Objects) /\ damaged \in BOOLEAN
      /\ i \in 1..Len(messages) /\ o \in Objects
  BY DEF RequestInv, ListsOK
<1>2. StateOK(state) /\ Untouched(state, messages, host)
      /\ Recoverable(state, messages, host, damaged) /\ CameBack(state, messages, host, damaged)
  BY DEF RequestInv, ListsOK
<1>3. /\ Edit(Tokens(o)) /\ messages' = Append(messages, o)
      /\ host' = IF Shared(n) /\ o # Projected THEN Append(host, o) ELSE host
      /\ damaged' = (damaged \/ Touches(o))
  BY DEF ForeignRepeat
<1>4. damaged' \in BOOLEAN /\ (~damaged' => ~damaged)
  BY <1>3, Zenon
<1>5. Absent(messages, Projected) => o # Projected
  BY DEF Absent
<1> HIDE DEF o, n
<1>6. messages' \in Seq(Objects)
  BY <1>1, <1>3
<1>7. host' \in Seq(Objects)
  BY <1>1, <1>3
<1>8. ASSUME messages = host, Shared(n), Absent(messages, Projected)
      PROVE  messages' = host' /\ Absent(messages', Projected)
  <2>1. messages' = host'
    BY <1>3, <1>5, <1>8
  <2>2. Absent(messages', Projected)
    BY <1>1, <1>3, <1>5, <1>8, StaysAbsent
  <2> QED
    BY <2>1, <2>2
<1>9. Untouched(state, messages', host')
  BY <1>2, <1>8, Zenon DEF Untouched, Shared, IsProjected
<1>10. CameBack(state, messages', host', damaged')
  BY <1>2, <1>4, <1>8, Zenon DEF CameBack, Shared, Owed
<1>11. Recoverable(state, messages', host', damaged')
  <2>1. SUFFICES ASSUME Owed(state, damaged'), ~state.restored, state.guard # NoGuard
        PROVE  \E k \in DOMAIN messages' :
                  /\ Once(messages', state.guard.current, k)
                  /\ state.projected # NoGuard =>
                        Recovers(messages', host', state.projected.pre, k, Projected)
    BY DEF Recoverable
  <2> DEFINE c == state.guard.current
             pre == state.projected.pre
  <2>2. Owed(state, damaged) /\ ~damaged
    BY <1>4, <2>1 DEF Owed
  <2>3. o # c /\ o # Projected
    BY <1>3, <2>1, Zenon DEF Owed, Touches
  <2>4. PICK k \in DOMAIN messages :
             /\ Once(messages, c, k)
             /\ state.projected # NoGuard => Recovers(messages, host, pre, k, Projected)
    BY <1>2, <2>1, <2>2 DEF Recoverable
  <2>5. k \in 1..Len(messages) /\ messages[k] = c
    BY <1>1, <2>4 DEF Once
  <2>6. Once(messages', c, k)
    BY <1>1, <1>3, <2>3, <2>4, AppendOnce
  <2>7. ASSUME state.projected # NoGuard PROVE Recovers(messages', host', pre, k, Projected)
    <3>1. pre \in Seq(Objects) /\ Recovers(messages, host, pre, k, Projected)
      BY <1>2, <2>4, <2>7 DEF StateOK, IsView
    <3>2. Shared(n)
      <4>1. k \in 1..(n - 1)
        BY <1>1, <2>5 DEF n
      <4> QED
        BY <2>2, <2>5, <4>1, Zenon DEF Shared
    <3>3. Recovers(Append(messages, o), Append(host, o), pre, k, Projected)
      BY <1>1, <2>3, <2>5, <3>1, AppendRecovers, Zenon
    <3> QED
      BY <1>3, <2>3, <3>2, <3>3
  <2>8. k \in DOMAIN messages'
    BY <2>6, Zenon DEF Once
  <2> QED
    BY <2>6, <2>7, <2>8, Zenon
<1> QED
  BY <1>3, <1>4, <1>6, <1>7, <1>9, <1>10, <1>11, EditKeeps

(* Another plugin puts the objects into a list of its own.                 *)
LEMMA ReplaceListStep ==
    ASSUME RequestInv, ForeignReplaceList
    PROVE  RequestInv'
<1>1. Edit(0) /\ messages' = messages /\ host' = host /\ damaged' = damaged
  BY DEF ForeignReplaceList
<1>2. ListsOK(state, messages, host, damaged, edits)
  BY Zenon DEF RequestInv
<1> QED
  BY <1>1, <1>2, EditKeeps, Zenon DEF ListsOK

----------------------------------------------------------------------------
(* The hooks *)

(* A guard and a view are not the empty one.                               *)
LEMMA NotNone ==
    /\ \A g : IsGuard(g) => g # NoGuard
    /\ \A g, p, o : [guard |-> g, pre |-> p, objects |-> o] # NoGuard
<1>1. ASSUME NEW g, IsGuard(g) PROVE g # NoGuard
  <2>1. g.ok = TRUE
    BY <1>1 DEF IsGuard
  <2> QED
    BY <2>1 DEF NoGuard
<1>2. ASSUME NEW g, NEW p, NEW o PROVE [guard |-> g, pre |-> p, objects |-> o] # NoGuard
  <2>1. DOMAIN [guard |-> g, pre |-> p, objects |-> o] = {"guard", "pre", "objects"}
    OBVIOUS
  <2>2. DOMAIN NoGuard = {"ok"}
    BY Zenon DEF NoGuard
  <2> QED
    BY <2>1, <2>2, Zenon
<1> QED
  BY <1>1, <1>2, Zenon

(* What on_agent_begin_guard records about the list.                       *)
LEMMA GuardRecords ==
    ASSUME NEW s \in Seq(Objects), NEW l, Absent(s, Projected),
           BoundariesValid(s), GuardProjection(s, l).ok
    PROVE  /\ IsGuard(GuardProjection(s, l))
           /\ GuardProjection(s, l).native = s
           /\ Once(s, GuardProjection(s, l).current, Len(s))
<1> DEFINE g == GuardProjection(s, l)
           system == SubSeq(s, 1, SystemEnd(s))
           preserved == ToSet(system) \cup {Last(s)}
           ok == /\ Cardinality(preserved) = Len(system) + 1
                 /\ Occurrences(s, preserved) = Len(system) + 1
<1>1. g = [ok |-> ok, list |-> l, native |-> s,
           system |-> system, current |-> Last(s), history |-> ToSet(s) \ preserved]
  BY Zenon DEF GuardProjection
<1> HIDE DEF g, system, ok
<1>2. /\ g.ok = ok /\ g.list = l /\ g.native = s
      /\ g.system = system /\ g.current = Last(s) /\ g.history = ToSet(s) \ preserved
  BY <1>1, Zenon
<1>3. g.ok = TRUE
  BY <1>2, Zenon DEF g
<1>4. s # <<>> /\ Last(s) \in Objects \ {Projected}
  BY DEF BoundariesValid, Last, Absent
<1>5. g.current \notin g.history
  BY <1>2, Zenon
<1>6. g = [ok |-> TRUE, list |-> g.list, native |-> g.native, system |-> g.system,
           current |-> g.current, history |-> g.history]
  BY <1>1, <1>2, <1>3, Zenon
<1>7. IsGuard(g)
  BY <1>2, <1>4, <1>5, <1>6, Zenon DEF IsGuard
<1>8. Once(s, Last(s), Len(s))
  BY GuardFindsOne, Zenon
<1> QED
  BY <1>2, <1>7, <1>8, Zenon DEF g

(* on_agent_begin_guard looks at the list the host handed over.            *)
LEMMA GuardStep ==
    ASSUME RequestInv, OnAgentBeginGuard
    PROVE  RequestInv'
<1> DEFINE t == state
           u == state'
           g == GuardProjection(messages, list)
<1>1. messages \in Seq(Objects) /\ host \in Seq(Objects) /\ damaged \in BOOLEAN /\ edits \in Nat
      /\ StateOK(t) /\ Untouched(t, messages, host) /\ (edits = 0 => Quiet(t, messages, damaged))
  BY DEF RequestInv, ListsOK
<1>2. t.pc = "begin" /\ t.projected = NoGuard /\ t.guard = NoGuard /\ ~t.restored
  BY <1>1, Zenon DEF StateOK, OnAgentBeginGuard
<1>3. messages = host /\ Absent(messages, Projected)
  BY <1>1, <1>2, Zenon DEF Untouched
<1>4. /\ messages' = messages /\ host' = host /\ damaged' = damaged /\ edits' = edits
      /\ conversation' = conversation
      /\ u = [t EXCEPT !.pc = "project",
                       !.guard = IF BoundariesValid(messages) /\ g.ok THEN g ELSE NoGuard]
  BY Zenon DEF OnAgentBeginGuard
<1>5. u.guard = NoGuard \/ (IsGuard(u.guard) /\ u.guard.native = messages
                              /\ Once(messages, u.guard.current, Len(messages)))
  <2>1. CASE BoundariesValid(messages) /\ g.ok
    <3>1. IsGuard(g) /\ g.native = messages /\ Once(messages, g.current, Len(messages))
      BY <1>1, <1>3, <2>1, GuardRecords, Zenon
    <3>2. u.guard = g
      BY <1>1, <1>4, <2>1, Zenon DEF StateOK, IsState
    <3> QED
      BY <3>1, <3>2, Zenon
  <2>2. CASE ~(BoundariesValid(messages) /\ g.ok)
    BY <1>1, <1>4, <2>2, Zenon DEF StateOK, IsState
  <2> QED
    BY <2>1, <2>2, Zenon
<1> HIDE DEF g
<1>6. /\ IsState(u) /\ u.pc = "project" /\ u.projected = NoGuard /\ u.restored = t.restored
      /\ u.fault = t.fault
  BY <1>1, <1>2, <1>4, Zenon DEF StateOK, IsState, Pcs
<1> HIDE DEF u, t
<1>7. StateOK(u)
  BY <1>2, <1>5, <1>6 DEF StateOK
<1>8. Untouched(u, messages, host) /\ CameBack(u, messages, host, damaged)
  BY <1>2, <1>3, <1>6 DEF Untouched, CameBack
<1>9. Recoverable(u, messages, host, damaged)
  BY <1>5, <1>6 DEF Recoverable, Once
<1>10. edits = 0 => Quiet(u, messages, damaged)
  BY <1>1, <1>2, <1>5, <1>6, Zenon DEF Quiet
<1>11. conversation \in {"none", "original"}
  BY <1>2 DEF RequestInv, UsageMaskedOnlyWhileProjected, t
<1>12. UsageMaskedOnlyWhileProjected'
  BY <1>4, <1>11 DEF UsageMaskedOnlyWhileProjected
<1> QED
  BY <1>1, <1>4, <1>7, <1>8, <1>9, <1>10, <1>11, <1>12, Zenon DEF RequestInv, ListsOK, u

(* A step of a request that is not projected and that touches no list.     *)
LEMMA SameLists ==
    ASSUME NEW t, NEW u, NEW s, NEW h, NEW d, NEW n, ListsOK(t, s, h, d, n),
           t.projected = NoGuard, t.pc # "begin", IsState(u), u.guard = t.guard,
           u.projected = NoGuard, u.restored = t.restored, u.fault = t.fault, u.pc # "begin",
           u.pc = "evaluate" => t.guard # NoGuard,
           u.pc \in {"project", "evaluate"} => t.pc \in {"project", "evaluate"}
    PROVE  ListsOK(u, s, h, d, n)
<1>1. StateOK(t) /\ ~t.restored
  BY Zenon DEF ListsOK, StateOK
<1>2. StateOK(u)
  BY <1>1, Zenon DEF StateOK
<1>3. Untouched(u, s, h) /\ CameBack(u, s, h, d)
  BY <1>1, Zenon DEF Untouched, CameBack, ListsOK
<1>4. Recoverable(u, s, h, d)
  BY <1>1, Zenon DEF Recoverable, ListsOK, Owed
<1>5. n = 0 => Quiet(u, s, d)
  BY <1>1, Zenon DEF Quiet, ListsOK
<1> QED
  BY <1>2, <1>3, <1>4, <1>5 DEF ListsOK

(* on_agent_begin_project up to its await touches no list.                 *)
LEMMA BeginStep ==
    ASSUME RequestInv, NEW view, NEW prompt, NEW profile, NEW trusted,
           BeginProject(view, prompt, profile, trusted)
    PROVE  RequestInv'
<1> DEFINE t == state
           u == state'
<1>1. ListsOK(t, messages, host, damaged, edits)
  BY DEF RequestInv
<1>2. StateOK(t) /\ t.pc = "project" /\ t.projected = NoGuard /\ ~t.restored
  BY <1>1 DEF ListsOK, StateOK, BeginProject
<1>3. /\ messages' = messages /\ host' = host /\ damaged' = damaged /\ edits' = edits
      /\ conversation' = conversation
  BY DEF BeginProject
<1>4. /\ IsState(u) /\ u.guard = t.guard /\ u.projected = NoGuard /\ u.restored = t.restored
      /\ u.fault = t.fault /\ u.pc \in {"evaluate", "agent"}
      /\ (u.pc = "evaluate" => t.guard # NoGuard)
  <2> DEFINE w == Workload(view, prompt, profile, trusted)
  <2>1. u = IF t.guard # NoGuard /\ bridge
            THEN [t EXCEPT !.pc = "evaluate", !.w = w] ELSE [t EXCEPT !.pc = "agent"]
    BY DEF BeginProject
  <2> HIDE DEF w, u, t
  <2>2. CASE t.guard # NoGuard /\ bridge
    BY <1>2, <2>1, <2>2, Zenon DEF StateOK, IsState, Pcs
  <2>3. CASE ~(t.guard # NoGuard /\ bridge)
    BY <1>2, <2>1, <2>3 DEF StateOK, IsState, Pcs
  <2> QED
    BY <2>2, <2>3
<1> HIDE DEF u, t
<1>5. ListsOK(u, messages', host', damaged', edits')
  BY <1>1, <1>2, <1>3, <1>4, SameLists
<1>6. conversation \in {"none", "original"}
  BY <1>2 DEF RequestInv, UsageMaskedOnlyWhileProjected, t
<1> QED
  BY <1>3, <1>5, <1>6 DEF RequestInv, UsageMaskedOnlyWhileProjected, u

(* A request whose list project replaced.                                  *)
LEMMA ProjectedLists ==
    ASSUME NEW t, NEW u, NEW s, NEW d, NEW n, NEW l, NEW objects,
           ListsOK(t, s, s, d, n), t.pc = "evaluate", t.guard # NoGuard, t.projected = NoGuard,
           objects \in {<<>>, <<Projected>>}, CanProject(s, l, t.guard, objects),
           IsState(u), u.pc = "agent", u.guard = t.guard, u.restored = t.restored,
           u.fault = t.fault, u.projected = ProjectedView(s, t.guard, objects)
    PROVE  ListsOK(u, ProjectedMessages(s, t.guard, objects), s, d, n)
<1> DEFINE g == t.guard
           c == g.current
           p == ProjectedMessages(s, g, objects)
<1>1. /\ s \in Seq(Objects) /\ d \in BOOLEAN /\ n \in Nat /\ StateOK(t)
      /\ Absent(s, Projected) /\ Recoverable(t, s, s, d) /\ (n = 0 => Quiet(t, s, d))
  BY Zenon DEF ListsOK, Untouched
<1>2. IsGuard(g) /\ c # Projected /\ c \notin g.history /\ ~t.restored
  BY <1>1, Zenon DEF StateOK, IsGuard
<1>3. c \in ToSet(s) /\ s # <<>>
  BY <1>1 DEF CanProject, ToSet
<1>4. objects \in Seq(Objects) /\ \A j \in 1..Len(objects) : objects[j] # c
  <2>1. Projected \in Objects
    BY OthersObjects, Zenon
  <2>2. CASE objects = <<>>
    BY <2>2
  <2>3. CASE objects = <<Projected>>
    BY <1>2, <2>1, <2>3
  <2> QED
    BY <2>2, <2>3, Zenon
<1>5. p \in Seq(Objects) /\ (Once(s, c, Len(s)) => Once(p, c, Len(p)))
  BY <1>1, <1>2, <1>3, <1>4, ProjectsList, Zenon
<1>6. /\ u.projected = [guard |-> g, pre |-> s, objects |-> objects]
      /\ u.projected # NoGuard
  BY NotNone, Zenon DEF ProjectedView
<1>7. u.projected.guard = g /\ u.projected.pre = s /\ u.projected.objects = objects
  BY <1>6
<1>8. IsView(u.projected)
  BY <1>1, <1>3, <1>6, <1>7, Zenon DEF IsView
<1> HIDE DEF p
<1>9. StateOK(u)
  BY <1>2, <1>6, <1>7, <1>8, Zenon DEF StateOK
<1>10. Untouched(u, p, s) /\ CameBack(u, p, s, d)
  BY <1>2, <1>6, Zenon DEF Untouched, CameBack
<1>11. Recoverable(u, p, s, d)
  <2>1. SUFFICES ASSUME Owed(u, d) PROVE Once(p, c, Len(p)) /\ Recovers(p, s, s, Len(p), Projected)
    BY <1>7, Zenon DEF Recoverable, Once
  <2>2. ~d /\ Last(s) = c
    BY <1>6, <1>7, <2>1, Zenon DEF Owed
  <2>3. PICK k \in DOMAIN s : Once(s, c, k)
    BY <1>1, <1>2, <2>2, Zenon DEF Recoverable, Owed
  <2>4. Len(s) \in DOMAIN s /\ s[Len(s)] = c
    BY <1>1, <1>3, <2>2 DEF Last
  <2>5. Once(s, c, Len(s))
    BY <2>3, <2>4, Zenon DEF Once
  <2>6. Recovers(p, s, s, Len(p), Projected)
    <3>1. Len(p) \in Nat /\ Len(s) \in Nat
      BY <1>1, <1>5
    <3> QED
      BY <3>1 DEF Recovers, Joined
  <2> QED
    BY <1>5, <2>5, <2>6, Zenon
<1>12. n = 0 => Quiet(u, p, d)
  BY <1>1, <1>2, <1>6, <1>7, Zenon DEF Quiet
<1> QED
  BY <1>1, <1>5, <1>9, <1>10, <1>11, <1>12, Zenon DEF ListsOK, p

(* The rest of on_agent_begin_project, whatever the budget decides.        *)
LEMMA ProjectStep ==
    ASSUME RequestInv, NEW engine, NEW tokenizer, Project(engine, tokenizer)
    PROVE  RequestInv'
<1> DEFINE t == state
           next == [t EXCEPT !.pc = "agent", !.w = NoWorkload]
<1>1. PICK r, built : ApplyOutcome(r, built)
  BY Zenon DEF Project
<1>2. ListsOK(t, messages, host, damaged, edits)
  BY Zenon DEF RequestInv
<1>3. StateOK(t) /\ t.pc = "evaluate" /\ t.projected = NoGuard /\ t.guard # NoGuard
      /\ ~t.restored /\ messages = host
  BY <1>2, Zenon DEF ListsOK, StateOK, Untouched, Project
<1>4. host' = host /\ damaged' = damaged /\ edits' = edits
  BY Zenon DEF Project
<1>5. conversation \in {"none", "original"}
  BY <1>3, Zenon DEF RequestInv, UsageMaskedOnlyWhileProjected
<1> DEFINE objects == IF r.assembly.selected = <<>> THEN <<>> ELSE <<Projected>>
           v == ProjectedView(messages, t.guard, objects)
<1>6. objects \in {<<>>, <<Projected>>}
  OBVIOUS
<1>7. \/ /\ CanProject(messages, list, t.guard, objects)
         /\ messages' = ProjectedMessages(messages, t.guard, objects)
         /\ state' = [Masked(next) EXCEPT !.projected = v]
         /\ conversation' = IF conversation = "none" THEN "none" ELSE "masked"
      \/ RestoreConversation(Masked(next)) /\ messages' = messages
      \/ state' = next /\ messages' = messages /\ conversation' = conversation
  BY <1>1, Zenon DEF ApplyOutcome
<1> DEFINE m == Masked(next)
<1>13. next = [t EXCEPT !.pc = "agent", !.w = NoWorkload]
  OBVIOUS
<1>14. m = [next EXCEPT !.original = conversation # "none"]
  BY Zenon DEF Masked
<1> HIDE DEF objects, next, t, m
<1>8. /\ IsState(next) /\ next.pc = "agent" /\ next.guard = t.guard /\ next.projected = NoGuard
      /\ next.restored = t.restored /\ next.fault = t.fault
  BY <1>3, <1>13, Zenon DEF StateOK, IsState, Pcs
<1>9. /\ IsState(m) /\ m.pc = "agent" /\ m.guard = t.guard /\ m.projected = NoGuard
      /\ m.restored = t.restored /\ m.fault = t.fault /\ m.original = (conversation # "none")
  BY <1>8, <1>14 DEF IsState
<1>10. CASE /\ CanProject(messages, list, t.guard, objects)
            /\ messages' = ProjectedMessages(messages, t.guard, objects)
            /\ state' = [m EXCEPT !.projected = v]
            /\ conversation' = IF conversation = "none" THEN "none" ELSE "masked"
  <2> DEFINE u == state'
  <2>1. /\ IsState(u) /\ u.pc = "agent" /\ u.guard = t.guard /\ u.projected = v
        /\ u.restored = t.restored /\ u.fault = t.fault /\ u.original = (conversation # "none")
    <3> HIDE DEF v
    <3> QED
      BY <1>9, <1>10, Zenon DEF IsState
  <2> HIDE DEF u
  <2>2. ListsOK(u, messages', host', damaged', edits')
    BY <1>2, <1>3, <1>4, <1>6, <1>10, <2>1, ProjectedLists
  <2>3. v # NoGuard
    BY NotNone, Zenon DEF ProjectedView
  <2>4. UsageMaskedOnlyWhileProjected' /\ conversation' \in {"none", "original", "masked"}
    BY <1>10, <2>1, <2>3, Zenon DEF UsageMaskedOnlyWhileProjected, IsProjected, u
  <2> QED
    BY <2>2, <2>4 DEF RequestInv, u
<1>11. CASE RestoreConversation(m) /\ messages' = messages
  <2> DEFINE u == state'
  <2>1. /\ IsState(u) /\ u.pc = "agent" /\ u.guard = t.guard /\ u.projected = NoGuard
        /\ u.restored = t.restored /\ u.fault = t.fault
    BY <1>9, <1>11, Zenon DEF IsState, RestoreConversation
  <2>2. conversation' \in {"none", "original"}
    BY <1>5, <1>9, <1>11 DEF RestoreConversation
  <2> HIDE DEF u
  <2>3. ListsOK(u, messages', host', damaged', edits')
    BY <1>2, <1>3, <1>4, <1>11, <2>1, SameLists
  <2> QED
    BY <2>2, <2>3 DEF RequestInv, UsageMaskedOnlyWhileProjected, u
<1>12. CASE state' = next /\ messages' = messages /\ conversation' = conversation
  <2>1. ListsOK(next, messages', host', damaged', edits')
    BY <1>2, <1>3, <1>4, <1>8, <1>12, SameLists
  <2> QED
    BY <1>5, <1>12, <2>1, Zenon DEF RequestInv, UsageMaskedOnlyWhileProjected
<1> QED
  BY <1>7, <1>10, <1>11, <1>12, Zenon DEF m

(* The agent appends its answer to the projected list.                     *)
LEMMA AnswerStep ==
    ASSUME RequestInv, AgentAnswers
    PROVE  RequestInv'
<1> DEFINE t == state
<1>1. /\ messages \in Seq(Objects) /\ host \in Seq(Objects) /\ StateOK(t)
      /\ Untouched(t, messages, host) /\ Recoverable(t, messages, host, damaged)
      /\ damaged \in BOOLEAN /\ edits \in Nat /\ (edits = 0 => Quiet(t, messages, damaged))
  BY Zenon DEF RequestInv, ListsOK
<1>2. t.pc = "agent" /\ ~t.restored
  BY <1>1, Zenon DEF AgentAnswers, StateOK
<1>3. /\ messages' = Append(messages, Answer) /\ host' = Append(host, Answer)
      /\ state' = t /\ conversation' = conversation /\ damaged' = damaged /\ edits' = edits
      /\ Answer \notin ToSet(host)
  BY DEF AgentAnswers
<1>4. Answer \in Objects /\ Answer # Projected
  BY OthersObjects, Zenon
<1> HIDE DEF t
<1>5. messages' \in Seq(Objects) /\ host' \in Seq(Objects)
  BY <1>1, <1>3, <1>4
<1>6. Untouched(t, messages', host')
  <2>1. Absent(messages, Projected) => Absent(messages', Projected)
    BY <1>1, <1>3, <1>4, StaysAbsent, Zenon
  <2> QED
    BY <1>1, <1>3, <2>1, Zenon DEF Untouched
<1>7. Recoverable(t, messages', host', damaged')
  <2>1. SUFFICES ASSUME Owed(t, damaged), t.guard # NoGuard
        PROVE  \E k \in DOMAIN messages' :
                  /\ Once(messages', t.guard.current, k)
                  /\ t.projected # NoGuard =>
                        Recovers(messages', host', t.projected.pre, k, Projected)
    BY <1>3, Zenon DEF Recoverable
  <2> DEFINE c == t.guard.current
             pre == t.projected.pre
  <2>2. PICK k \in DOMAIN messages :
             /\ Once(messages, c, k)
             /\ t.projected # NoGuard => Recovers(messages, host, pre, k, Projected)
    BY <1>1, <1>2, <2>1, Zenon DEF Recoverable
  <2>3. k \in 1..Len(messages) /\ messages[k] = c
    BY <1>1, <2>2 DEF Once
  <2>4. t.projected # NoGuard => pre \in Seq(Objects) /\ pre # <<>> /\ Last(pre) = c
    BY <1>1, <2>1, Zenon DEF StateOK, IsView, Owed
  <2>5. c \in ToSet(host)
    <3>1. CASE t.projected = NoGuard
      BY <1>1, <2>3, <3>1, Zenon DEF Untouched, ToSet
    <3>2. CASE t.projected # NoGuard
      <4>1. Len(pre) \in 1..Len(pre) /\ pre[Len(pre)] = c
        BY <2>4, <3>2 DEF Last
      <4>2. host[Len(pre)] = c /\ Len(host) = Len(pre) + Len(messages) - k
        BY <2>2, <3>2, <4>1, Zenon DEF Recovers, Joined
      <4>3. Len(pre) \in 1..Len(host)
        BY <1>1, <2>3, <4>1, <4>2
      <4> QED
        BY <1>1, <4>2, <4>3 DEF ToSet
    <3> QED
      BY <3>1, <3>2, Zenon
  <2>6. Answer # c
    BY <1>3, <2>5
  <2>7. Once(messages', c, k)
    BY <1>1, <1>3, <1>4, <2>2, <2>6, AppendOnce, Zenon
  <2>8. t.projected # NoGuard => Recovers(messages', host', pre, k, Projected)
    BY <1>1, <1>3, <1>4, <2>2, <2>3, <2>4, AppendRecovers, Zenon
  <2>9. k \in DOMAIN messages'
    BY <2>7, Zenon DEF Once
  <2> QED
    BY <2>7, <2>8, <2>9, Zenon
<1>8. CameBack(t, messages', host', damaged')
  BY <1>2, Zenon DEF CameBack
<1>9. edits' = 0 => Quiet(t, messages', damaged')
  BY <1>1, <1>2, <1>3, Zenon DEF Quiet
<1>10. UsageMaskedOnlyWhileProjected' /\ conversation' \in {"none", "original", "masked"}
  BY <1>3 DEF UsageMaskedOnlyWhileProjected, IsProjected, RequestInv, t
<1> QED
  BY <1>1, <1>3, <1>5, <1>6, <1>7, <1>8, <1>9, <1>10 DEF RequestInv, ListsOK

(* on_llm_response brings the conversation back and leaves the lists.      *)
LEMMA ResponseStep ==
    ASSUME RequestInv, OnLlmResponse
    PROVE  RequestInv'
<1> DEFINE t == state
           u == state'
<1>1. ListsOK(t, messages, host, damaged, edits)
  BY DEF RequestInv
<1>2. /\ messages' = messages /\ host' = host /\ damaged' = damaged /\ edits' = edits
      /\ u = [t EXCEPT !.original = FALSE]
      /\ conversation' = IF t.original THEN "original" ELSE conversation
  BY DEF OnLlmResponse, RestoreConversation
<1>3. conversation \in {"none", "original", "masked"} /\ (conversation = "masked" => t.original)
  BY DEF RequestInv, UsageMaskedOnlyWhileProjected
<1>4. conversation' \in {"none", "original"}
  BY <1>2, <1>3, Zenon
<1> HIDE DEF u, t
<1>5. /\ IsState(u) /\ u.pc = t.pc /\ u.guard = t.guard /\ u.projected = t.projected
      /\ u.restored = t.restored /\ u.delta = t.delta /\ u.fault = t.fault
  BY <1>1, <1>2, Zenon DEF ListsOK, StateOK, IsState
<1>6. StateOK(u)
  BY <1>1, <1>5 DEF ListsOK, StateOK
<1>7. Untouched(u, messages, host) /\ CameBack(u, messages, host, damaged)
  BY <1>1, <1>5, Zenon DEF ListsOK, Untouched, CameBack, Owed
<1>8. Recoverable(u, messages, host, damaged)
  BY <1>1, <1>5, Zenon DEF ListsOK, Recoverable, Owed
<1>9. edits = 0 => Quiet(u, messages, damaged)
  BY <1>1, <1>5, Zenon DEF ListsOK, Quiet
<1>10. ListsOK(u, messages', host', damaged', edits')
  BY <1>1, <1>2, <1>6, <1>7, <1>8, <1>9 DEF ListsOK
<1> QED
  BY <1>4, <1>10 DEF RequestInv, UsageMaskedOnlyWhileProjected, u

(* With no edits the host's list is owed to it.                            *)
LEMMA QuietIsOwed ==
    ASSUME NEW t, NEW s, NEW d, StateOK(t), Quiet(t, s, d)
    PROVE  Owed(t, d)
BY Zenon DEF StateOK, Quiet, IsGuard, Owed

(* restore of a list it accepts.                                           *)
LEMMA RestoredLists ==
    ASSUME NEW t, NEW u, NEW s, NEW h, NEW d, NEW n, ListsOK(t, s, h, d, n),
           t.pc = "agent", t.projected # NoGuard, CanRestore(s, t.projected),
           IsState(u), u.pc = "finalize", u.guard = t.guard, u.projected = t.projected,
           u.restored = TRUE, u.delta = DeltaObjects(s, t.projected), u.fault = t.fault
    PROVE  ListsOK(u, RestoredMessages(s, t.projected), h, d, n)
<1> DEFINE v == t.projected
           pre == v.pre
           c == t.guard.current
           r == RestoredMessages(s, v)
<1>1. /\ s \in Seq(Objects) /\ h \in Seq(Objects) /\ StateOK(t) /\ Recoverable(t, s, h, d)
      /\ d \in BOOLEAN /\ n \in Nat /\ (n = 0 => Quiet(t, s, d))
  BY Zenon DEF ListsOK
<1>2. /\ pre \in Seq(Objects) /\ Absent(pre, Projected) /\ v.guard = t.guard
      /\ t.guard # NoGuard /\ ~t.restored
  BY <1>1, Zenon DEF StateOK, IsView
<1>3. PICK k \in DOMAIN s : Once(s, c, k)
  BY <1>1, <1>2, RestoreFindsOne, Zenon
<1>4. k \in 1..Len(s) /\ k \in Nat
  BY <1>1
<1> DEFINE delta == SubSeq(s, k + 1, Len(s))
<1>5. DeltaObjects(s, v) = delta
  BY <1>2, <1>3, <1>4, DeltaFollows, Zenon
<1>6. r = pre \o delta
  BY <1>5, Zenon DEF RestoredMessages
<1>7. delta \in Seq(Objects) /\ r \in Seq(Objects)
  <2>1. delta \in Seq(Objects)
    BY <1>1, <1>4
  <2> HIDE DEF delta, r
  <2> QED
    BY <1>2, <1>6, <2>1
<1> HIDE DEF r
<1>8. ASSUME Owed(u, d) PROVE r = h /\ Absent(r, Projected)
  <2>1. Owed(t, d)
    BY <1>8, Zenon DEF Owed
  <2>2. PICK q \in DOMAIN s : Once(s, c, q) /\ Recovers(s, h, pre, q, Projected)
    BY <1>1, <1>2, <2>1, Zenon DEF Recoverable
  <2>3. q = k
    BY <1>3, <2>2, Zenon DEF Once
  <2>4. pre \o delta = h
    BY <1>1, <1>2, <1>4, <2>2, <2>3, RestoreRecovers, Zenon
  <2>5. \A j \in 1..Len(delta) : delta[j] # Projected
    <3>1. \A j \in (k + 1)..Len(s) : s[j] # Projected
      BY <2>2, <2>3 DEF Recovers
    <3>2. Len(delta) = Len(s) - k /\ \A j \in 1..(Len(s) - k) : delta[j] = s[k + j]
      BY <1>1, <1>4
    <3> HIDE DEF delta
    <3>3. \A j \in 1..(Len(s) - k) : k + j \in (k + 1)..Len(s)
      BY <1>1, <1>4
    <3> QED
      BY <3>1, <3>2, <3>3, ZenonT(30)
  <2> HIDE DEF delta, pre
  <2>6. Absent(pre \o delta, Projected)
    BY <1>2, <1>7, <2>5 DEF Absent
  <2> QED
    BY <1>6, <2>4, <2>6, Zenon
<1> HIDE DEF delta
<1>9. StateOK(u)
  BY <1>1, Zenon DEF StateOK
<1>10. Untouched(u, r, h) /\ Recoverable(u, r, h, d)
  BY Zenon DEF Untouched, Recoverable
<1>11. CameBack(u, r, h, d)
  BY <1>8, Zenon DEF CameBack
<1>12. n = 0 => Quiet(u, r, d)
  BY <1>1, <1>5, <1>6, Zenon DEF Quiet
<1> QED
  BY <1>1, <1>7, <1>9, <1>10, <1>11, <1>12, Zenon DEF ListsOK, r

(* restore of a list it refuses.                                           *)
LEMMA RefusedLists ==
    ASSUME NEW t, NEW u, NEW s, NEW h, NEW d, NEW n, ListsOK(t, s, h, d, n),
           t.pc = "agent", t.projected # NoGuard, ~CanRestore(s, t.projected),
           IsState(u), u.pc = "finalize", u.guard = t.guard, u.projected = t.projected,
           u.restored = t.restored, u.fault = t.fault
    PROVE  ListsOK(u, s, h, d, n)
<1>1. /\ s \in Seq(Objects) /\ h \in Seq(Objects) /\ StateOK(t) /\ Recoverable(t, s, h, d)
      /\ d \in BOOLEAN /\ n \in Nat /\ (n = 0 => Quiet(t, s, d))
  BY Zenon DEF ListsOK
<1>2. /\ t.projected.objects \in {<<>>, <<Projected>>} /\ t.projected.guard = t.guard
      /\ t.guard # NoGuard /\ ~t.restored
  BY <1>1, Zenon DEF StateOK, IsView
<1>3. ~Owed(t, d)
  <2>1. SUFFICES ASSUME Owed(t, d) PROVE FALSE
    BY Zenon
  <2>2. PICK k \in DOMAIN s :
             Once(s, t.guard.current, k) /\ Recovers(s, h, t.projected.pre, k, Projected)
    BY <1>1, <1>2, <2>1, Zenon DEF Recoverable
  <2>3. \A j \in (k + 1)..Len(s) : s[j] # Projected
    BY <2>2, Zenon DEF Recovers
  <2> QED
    BY <1>1, <1>2, <2>2, <2>3, RestoreAccepts, Zenon
<1>4. ~Owed(u, d)
  BY <1>3, Zenon DEF Owed
<1>5. n # 0
  BY <1>1, <1>3, QuietIsOwed, Zenon
<1>6. StateOK(u)
  BY <1>1, <1>2, Zenon DEF StateOK
<1> QED
  BY <1>1, <1>4, <1>5, <1>6, Zenon DEF ListsOK, Untouched, Recoverable, CameBack

(* on_agent_done_restore.                                                  *)
LEMMA RestoreStep ==
    ASSUME RequestInv, OnAgentDoneRestore
    PROVE  RequestInv'
<1> DEFINE t == state
           u == state'
           v == t.projected
           next == [t EXCEPT !.pc = "finalize"]
           restored == [next EXCEPT !.restored = TRUE, !.delta = DeltaObjects(messages, v)]
<1>1. ListsOK(t, messages, host, damaged, edits) /\ t.pc = "agent"
  BY Zenon DEF RequestInv, OnAgentDoneRestore
<1>2. IsState(t) /\ StateOK(t)
  BY <1>1, Zenon DEF ListsOK, StateOK
<1>3. host' = host /\ damaged' = damaged /\ edits' = edits
  BY Zenon DEF OnAgentDoneRestore
<1>4. conversation \in {"none", "original", "masked"}
      /\ (conversation = "masked" => t.original /\ v # NoGuard)
  BY DEF RequestInv, UsageMaskedOnlyWhileProjected, IsProjected
<1>5. \/ v = NoGuard /\ u = next /\ messages' = messages /\ conversation' = conversation
      \/ /\ v # NoGuard /\ CanRestore(messages, v)
         /\ messages' = RestoredMessages(messages, v) /\ RestoreConversation(restored)
      \/ v # NoGuard /\ ~CanRestore(messages, v) /\ messages' = messages
           /\ RestoreConversation(next)
  BY Zenon DEF OnAgentDoneRestore, IsProjected
<1> DEFINE delta == DeltaObjects(messages, v)
<1>6. restored = [next EXCEPT !.restored = TRUE, !.delta = delta]
      /\ next = [t EXCEPT !.pc = "finalize"]
  OBVIOUS
<1> HIDE DEF t, next, restored, delta
<1>7. /\ IsState(next) /\ next.pc = "finalize" /\ next.guard = t.guard /\ next.projected = v
      /\ next.restored = t.restored /\ next.fault = t.fault /\ next.original = t.original
  BY <1>2, <1>6, Zenon DEF IsState, Pcs
<1>8. /\ IsState(restored) /\ restored.pc = "finalize" /\ restored.guard = t.guard
      /\ restored.projected = v /\ restored.restored = TRUE /\ restored.delta = delta
      /\ restored.fault = t.fault /\ restored.original = t.original
  BY <1>6, <1>7, Zenon DEF IsState
<1> HIDE DEF u, v
<1>9. CASE v = NoGuard /\ u = next /\ messages' = messages /\ conversation' = conversation
  <2>1. ListsOK(u, messages', host', damaged', edits')
    BY <1>1, <1>3, <1>7, <1>9, SameLists DEF v
  <2> QED
    BY <1>4, <1>9, <2>1 DEF RequestInv, UsageMaskedOnlyWhileProjected, u
<1>10. CASE /\ v # NoGuard /\ CanRestore(messages, v)
            /\ messages' = RestoredMessages(messages, v) /\ RestoreConversation(restored)
  <2>1. /\ u = [restored EXCEPT !.original = FALSE]
        /\ conversation' = IF t.original THEN "original" ELSE conversation
    BY <1>8, <1>10, Zenon DEF RestoreConversation, u
  <2>2. /\ IsState(u) /\ u.pc = "finalize" /\ u.guard = t.guard /\ u.projected = v
        /\ u.restored = TRUE /\ u.delta = delta /\ u.fault = t.fault
    BY <1>8, <2>1, Zenon DEF IsState
  <2>3. ListsOK(u, messages', host', damaged', edits')
    BY <1>1, <1>3, <1>10, <2>2, RestoredLists, Zenon DEF v, delta
  <2>4. conversation' \in {"none", "original"}
    BY <1>4, <2>1
  <2> QED
    BY <2>3, <2>4, Zenon DEF RequestInv, UsageMaskedOnlyWhileProjected, u
<1>11. CASE v # NoGuard /\ ~CanRestore(messages, v) /\ messages' = messages
              /\ RestoreConversation(next)
  <2>1. /\ u = [next EXCEPT !.original = FALSE]
        /\ conversation' = IF t.original THEN "original" ELSE conversation
    BY <1>7, <1>11, Zenon DEF RestoreConversation, u
  <2>2. /\ IsState(u) /\ u.pc = "finalize" /\ u.guard = t.guard /\ u.projected = v
        /\ u.restored = t.restored /\ u.fault = t.fault
    BY <1>7, <2>1, Zenon DEF IsState
  <2>3. ListsOK(u, messages', host', damaged', edits')
    BY <1>1, <1>3, <1>11, <2>2, RefusedLists DEF v
  <2>4. conversation' \in {"none", "original"}
    BY <1>4, <2>1
  <2> QED
    BY <2>3, <2>4 DEF RequestInv, UsageMaskedOnlyWhileProjected, u
<1> QED
  BY <1>5, <1>9, <1>10, <1>11, Zenon

(* on_agent_done_finalize records a fault only for a list that was edited. *)
LEMMA FinalizeStep ==
    ASSUME RequestInv, OnAgentDoneFinalize
    PROVE  RequestInv'
<1> DEFINE t == state
           u == state'
           f == /\ bridge /\ t.projected # NoGuard
                /\ ~t.restored \/ ~VerifyNative(messages, t.projected, t.delta)
<1>1. ListsOK(t, messages, host, damaged, edits) /\ t.pc = "finalize"
  BY Zenon DEF RequestInv, OnAgentDoneFinalize
<1>2. StateOK(t) /\ IsState(t)
  BY <1>1, Zenon DEF ListsOK, StateOK
<1>3. /\ messages' = messages /\ host' = host /\ damaged' = damaged /\ edits' = edits
      /\ conversation' = conversation /\ u = [t EXCEPT !.pc = "done", !.fault = f]
  BY Zenon DEF OnAgentDoneFinalize, IsProjected
<1>4. conversation \in {"none", "original"}
  BY <1>1, Zenon DEF RequestInv, UsageMaskedOnlyWhileProjected
<1>5. edits = 0 => ~f
  <2>1. SUFFICES ASSUME edits = 0, t.projected # NoGuard
        PROVE  t.restored /\ VerifyNative(messages, t.projected, t.delta)
    OBVIOUS
  <2>2. Quiet(t, messages, damaged)
    BY <1>1, <2>1 DEF ListsOK
  <2>3. t.restored
    BY <1>1, <1>2, <2>1, <2>2, QuietIsOwed DEF ListsOK, CameBack
  <2>4. t.projected.guard = t.guard
    BY <1>2, <2>1, Zenon DEF StateOK
  <2> QED
    BY <2>1, <2>2, <2>3, <2>4, Zenon DEF Quiet, VerifyNative
<1> HIDE DEF u, t, f
<1>6. /\ IsState(u) /\ u.pc = "done" /\ u.guard = t.guard /\ u.projected = t.projected
      /\ u.restored = t.restored /\ u.delta = t.delta /\ u.fault = f
  BY <1>2, <1>3, Zenon DEF IsState, Pcs
<1>7. StateOK(u)
  BY <1>1, <1>2, <1>6, Zenon DEF StateOK
<1>8. Untouched(u, messages, host) /\ CameBack(u, messages, host, damaged)
  BY <1>1, <1>6, Zenon DEF ListsOK, Untouched, CameBack, Owed
<1>9. Recoverable(u, messages, host, damaged)
  BY <1>1, <1>6, Zenon DEF ListsOK, Recoverable, Owed
<1>10. edits = 0 => Quiet(u, messages, damaged)
  BY <1>1, <1>5, <1>6, Zenon DEF ListsOK, Quiet
<1>11. ListsOK(u, messages', host', damaged', edits')
  BY <1>1, <1>3, <1>7, <1>8, <1>9, <1>10 DEF ListsOK
<1> QED
  BY <1>3, <1>4, <1>11 DEF RequestInv, UsageMaskedOnlyWhileProjected, u

(* A request starts with the list of the host.                             *)
LEMMA RequestInitially == Init => RequestInv
<1>1. SUFFICES ASSUME Init PROVE RequestInv
  OBVIOUS
<1>2. /\ messages \in NativeLists /\ host = messages /\ state = NewState
      /\ conversation \in {"none", "original"} /\ edits = 0 /\ damaged = FALSE
  BY <1>1 DEF Init
<1>3. messages \in Seq(ToSet(messages)) /\ Projected \notin ToSet(messages)
  BY <1>2, ObjectAssumption
<1>4. ToSet(messages) \subseteq Objects
  <2>1. ToSet(messages) \subseteq Natives
    BY <1>2, Zenon DEF Natives
  <2> QED
    BY <2>1 DEF Objects
<1>5. messages \in Seq(Objects) /\ Absent(messages, Projected)
  BY <1>3, <1>4 DEF Absent, ToSet
<1>6. StateOK(state)
  BY <1>2, Zenon DEF StateOK, IsState, NewState, Pcs
<1>7. state.guard = NoGuard /\ state.projected = NoGuard /\ ~state.restored /\ ~state.fault
  BY <1>2, Zenon DEF NewState
<1> QED
  BY <1>2, <1>5, <1>6, <1>7, Zenon
  DEF RequestInv, ListsOK, Untouched, Recoverable, CameBack, Quiet, UsageMaskedOnlyWhileProjected

(* Every hook and every edit keeps the invariant.                          *)
LEMMA RequestNext == RequestInv /\ [Next]_vars => RequestInv'
<1>1. SUFFICES ASSUME RequestInv, [Next]_vars PROVE RequestInv'
  OBVIOUS
<1>2. CASE OnAgentBeginGuard
  BY <1>1, <1>2, GuardStep
<1>3. ASSUME NEW view \in RequestViews, NEW prompt \in Prompts, NEW profile \in Profiles,
             NEW trusted \in TrustedUsages, BeginProject(view, prompt, profile, trusted)
      PROVE  RequestInv'
  BY <1>1, <1>3, BeginStep, Zenon
<1>4. ASSUME NEW engine \in EngineResults, NEW tokenizer \in Tokenizers,
             Project(engine, tokenizer)
      PROVE  RequestInv'
  BY <1>1, <1>4, ProjectStep
<1>5. CASE AgentAnswers
  BY <1>1, <1>5, AnswerStep
<1>6. CASE OnLlmResponse
  BY <1>1, <1>6, ResponseStep
<1>7. CASE OnAgentDoneRestore
  BY <1>1, <1>7, RestoreStep
<1>8. CASE OnAgentDoneFinalize
  BY <1>1, <1>8, FinalizeStep
<1>9. CASE EnterStorageLocked
  BY <1>1, <1>9, Zenon
      DEF EnterStorageLocked, RequestInv, UsageMaskedOnlyWhileProjected, IsProjected
<1>10. ASSUME NEW i \in DOMAIN messages, ForeignRemove(i) PROVE RequestInv'
  BY <1>1, <1>10, RemoveStep, Zenon
<1>11. ASSUME NEW i \in DOMAIN messages, ForeignRepeat(i) PROVE RequestInv'
  BY <1>1, <1>11, RepeatStep, Zenon
<1>12. ASSUME NEW o \in Foreign, NEW i \in 1..(Len(messages) + 1), ForeignInsert(o, i)
       PROVE  RequestInv'
  BY <1>1, <1>12, InsertStep
<1>13. CASE ForeignReplaceList
  BY <1>1, <1>13, ReplaceListStep
<1>14. CASE UNCHANGED vars
  BY <1>1, <1>14, Zenon DEF vars, RequestInv, UsageMaskedOnlyWhileProjected, IsProjected
<1> QED
  BY <1>1, <1>2, <1>3, <1>4, <1>5, <1>6, <1>7, <1>8, <1>9, <1>10, <1>11, <1>12, <1>13, <1>14,
     Zenon DEF Next

(* Through every request, with any list, any edits and any outcome of the  *)
(* budget, restore can put the host's list together and the usage counter  *)
(* is hidden only while it can: what _RequestState holds between the hooks.*)
THEOREM RequestInvariant == Spec => []RequestInv
<1> QED
  BY RequestInitially, RequestNext, PTL DEF Spec

(* on_agent_done_restore gives the host its own list back, whatever other  *)
(* plugins inserted, removed or appended between the hooks, unless they    *)
(* dropped or doubled the current input, doubled the projection, or had    *)
(* put something behind the current input; with no edits                   *)
(* on_agent_done_finalize records no fault.                                *)
THEOREM NativeListComesBack == Spec => []NativeHistoryComesBack
<1>1. RequestInv => NativeHistoryComesBack
  <2>1. SUFFICES ASSUME RequestInv, state.pc \in {"finalize", "done"}
        PROVE  /\ IsProjected => damaged \/ messages = host
                                   \/ Last(state.projected.pre) # state.guard.current
               /\ ~IsProjected => messages = host
               /\ state.pc = "done" /\ edits = 0 => ~state.fault
    BY Zenon DEF NativeHistoryComesBack
  <2>2. ListsOK(state, messages, host, damaged, edits)
    BY <2>1, Zenon DEF RequestInv
  <2>3. IsProjected => damaged \/ messages = host
                         \/ Last(state.projected.pre) # state.guard.current
    BY <2>1, <2>2, Zenon DEF ListsOK, CameBack, Owed, IsProjected
  <2>4. ~IsProjected => messages = host
    BY <2>2, Zenon DEF ListsOK, Untouched, IsProjected
  <2>5. edits = 0 => ~state.fault
    BY <2>2, Zenon DEF ListsOK, Quiet
  <2> QED
    BY <2>3, <2>4, <2>5, Zenon
<1> QED
  BY <1>1, RequestInvariant, PTL

(* The token usage of the host's conversation is hidden only while the     *)
(* list is projected and the agent runs, and then                          *)
(* _restore_request_conversation still has it to bring back.               *)
THEOREM UsageComesBack == Spec => []UsageMaskedOnlyWhileProjected
<1>1. RequestInv => UsageMaskedOnlyWhileProjected
  BY DEF RequestInv
<1> QED
  BY <1>1, RequestInvariant, PTL

=============================================================================
