-------------------------- MODULE ProjectionProofs --------------------------
(***************************************************************************)
(* What guard, project and restore compute, for message lists of every     *)
(* length: a guard that holds finds the current input once, project keeps  *)
(* it so, and restore gives back the list before project with all that     *)
(* followed the current input since.  The lists are unbounded, so the      *)
(* lemma about what a list keeps needs induction, which is taken from the  *)
(* least counterexample.  The last part is about edits of a list that      *)
(* restore will have to put together with them.                            *)
(***************************************************************************)
EXTENDS Projection, WellFoundedInduction, FiniteSetTheorems, TLAPS

(* Induction over the natural numbers for a set.                           *)
LEMMA SetInduction ==
    ASSUME NEW T \in SUBSET Nat, 0 \in T, \A n \in T : n + 1 \in T
    PROVE  T = Nat
<1> DEFINE Gap == Nat \ T
<1>1. SUFFICES ASSUME Gap # {} PROVE FALSE
  BY Zenon
<1>2. IsWellFoundedOn(OpToRel(<, Nat), Nat)
  BY NatLessThanWellFounded, Zenon
<1>3. \E x \in Gap : \A y \in Gap : ~(<<y, x>> \in OpToRel(<, Nat))
  BY <1>1, <1>2, WFMin, Zenon
<1>4. PICK x \in Gap : \A y \in Gap : ~(<<y, x>> \in OpToRel(<, Nat))
  BY <1>3, Zenon
<1>5. \A y \in Gap : ~(y < x)
  BY <1>4, Zenon DEF OpToRel
<1>6. x # 0 /\ x - 1 \in Nat /\ x - 1 \notin Gap
  BY <1>5
<1> QED
  BY <1>6

(* Induction up to a bound: what holds at 0 and is inherited by each next  *)
(* index holds at every index.                                             *)
LEMMA BoundedInduction ==
    ASSUME NEW n \in Nat, NEW T, 0 \in T, \A i \in 0..(n - 1) : i \in T => i + 1 \in T
    PROVE  0..n \subseteq T
<1> DEFINE R == {i \in Nat : i \in 0..n => i \in T}
<1>1. 0 \in R
  OBVIOUS
<1>2. ASSUME NEW i \in R PROVE i + 1 \in R
  OBVIOUS
<1>3. R = Nat
  <2>1. R \in SUBSET Nat
    OBVIOUS
  <2> HIDE DEF R
  <2> QED
    BY <1>1, <1>2, <2>1, SetInduction
<1> QED
  BY <1>3

(* One step of Without, and its recursion for a function f in place of     *)
(* itself.                                                                 *)
KeepNext(kept, s, i, T) == IF s[i] \in T THEN kept ELSE Append(kept, s[i])

Unrolled(f, s, T, n) ==
    [i \in 0..n |-> IF i = 0 THEN <<>> ELSE KeepNext(f[i - 1], s, i, T)]

(* The recursion over a list has a solution up to every index.             *)
LEMMA KeptExists ==
    ASSUME NEW s, NEW T, NEW n \in Nat
    PROVE  \E f : f = Unrolled(f, s, T, n)
<1> DEFINE N == {m \in Nat : \E f : f = Unrolled(f, s, T, m)}
<1>1. 0 \in N
  <2> DEFINE f == [i \in 0..0 |-> <<>>]
  <2>1. f = Unrolled(f, s, T, 0)
    BY DEF Unrolled
  <2> QED
    BY <2>1
<1>2. ASSUME NEW m \in N PROVE m + 1 \in N
  <2>1. PICK f : f = Unrolled(f, s, T, m)
    OBVIOUS
  <2> DEFINE v == KeepNext(f[m], s, m + 1, T)
             h == [i \in 0..(m + 1) |-> IF i = m + 1 THEN v ELSE f[i]]
  <2>2. ASSUME NEW i \in 0..(m + 1)
        PROVE  h[i] = IF i = 0 THEN <<>> ELSE KeepNext(h[i - 1], s, i, T)
    <3>1. CASE i = m + 1
      <4>1. i # 0 /\ i - 1 = m /\ h[m] = f[m] /\ h[i] = v
        BY <3>1
      <4> HIDE DEF h
      <4> QED
        BY <3>1, <4>1
    <3>2. CASE i \in 0..m
      <4>1. h[i] = f[i] /\ (i # 0 => h[i - 1] = f[i - 1])
        BY <3>2
      <4>2. f[i] = IF i = 0 THEN <<>> ELSE KeepNext(f[i - 1], s, i, T)
        BY <2>1, <3>2 DEF Unrolled
      <4> HIDE DEF h
      <4> QED
        BY <4>1, <4>2
    <3> QED
      BY <3>1, <3>2
  <2>3. h = [i \in 0..(m + 1) |-> h[i]]
    OBVIOUS
  <2> HIDE DEF h
  <2>4. h = Unrolled(h, s, T, m + 1)
    BY <2>2, <2>3, Zenon DEF Unrolled
  <2> QED
    BY <2>4
<1>3. N = Nat
  <2>1. N \in SUBSET Nat
    OBVIOUS
  <2> HIDE DEF N
  <2> QED
    BY <1>1, <1>2, <2>1, SetInduction
<1>4. n \in N
  BY <1>3
<1> QED
  BY <1>4

(* What Without has kept after each object of a list.                      *)
LEMMA KeptSteps ==
    ASSUME NEW s, NEW T, Len(s) \in Nat
    PROVE  /\ KeptUpTo(s, T)[0] = <<>>
           /\ \A i \in 1..Len(s) :
                 KeptUpTo(s, T)[i] = KeepNext(KeptUpTo(s, T)[i - 1], s, i, T)
<1> DEFINE g == KeptUpTo(s, T)
<1>1. PICK f : f = Unrolled(f, s, T, Len(s))
  BY KeptExists
<1>2. g = [i \in 0..Len(s) |-> IF i = 0 THEN <<>> ELSE KeepNext(g[i - 1], s, i, T)]
  BY <1>1, Zenon DEF KeptUpTo, KeepNext, Unrolled
<1> HIDE DEF g
<1>3. g[0] = <<>>
  BY <1>2
<1>4. \A i \in 1..Len(s) : g[i] = KeepNext(g[i - 1], s, i, T)
  BY <1>2
<1> QED
  BY <1>3, <1>4 DEF g

(* The first n objects of a list.                                          *)
Seen(s, n) == {s[i] : i \in 1..n}

(* Keeping has the objects seen so far that are outside T, and no others.  *)
LEMMA KeptAre ==
    ASSUME NEW O, NEW s \in Seq(O), NEW T, NEW n \in 0..Len(s)
    PROVE  /\ KeptUpTo(s, T)[n] \in Seq(O)
           /\ ToSet(KeptUpTo(s, T)[n]) = Seen(s, n) \ T
<1> DEFINE g == KeptUpTo(s, T)
           N == {m \in 0..Len(s) : g[m] \in Seq(O) /\ ToSet(g[m]) = Seen(s, m) \ T}
<1>1. g[0] = <<>> /\ \A i \in 1..Len(s) : g[i] = KeepNext(g[i - 1], s, i, T)
  BY KeptSteps
<1> HIDE DEF g
<1>2. 0 \in N
  <2>1. Seen(s, 0) = {} /\ ToSet(<<>>) = {}
    BY DEF ToSet, Seen
  <2>2. g[0] \in Seq(O) /\ ToSet(g[0]) = Seen(s, 0) \ T
    BY <1>1, <2>1
  <2>3. 0 \in 0..Len(s)
    OBVIOUS
  <2> QED
    BY <2>2, <2>3, Zenon
<1>3. ASSUME NEW m \in 0..(Len(s) - 1), m \in N PROVE m + 1 \in N
  <2>1. g[m + 1] = KeepNext(g[m], s, m + 1, T) /\ s[m + 1] \in O
    BY <1>1
  <2>2. Seen(s, m + 1) = Seen(s, m) \cup {s[m + 1]}
    <3>1. 1..(m + 1) = (1..m) \cup {m + 1}
      OBVIOUS
    <3> QED
      BY <3>1 DEF Seen
  <2> DEFINE seen == Seen(s, m)
             x == s[m + 1]
  <2>5. g[m] \in Seq(O) /\ ToSet(g[m]) = seen \ T
    BY <1>3
  <2>6. SUFFICES g[m + 1] \in Seq(O) /\ ToSet(g[m + 1]) = (seen \cup {x}) \ T
    <3>1. m + 1 \in 0..Len(s)
      OBVIOUS
    <3> QED
      BY <2>2, <3>1, Zenon
  <2> HIDE DEF seen, x, N
  <2>3. CASE s[m + 1] \in T
    BY <2>1, <2>3, <2>5 DEF KeepNext, x
  <2>4. CASE s[m + 1] \notin T
    <3>1. g[m + 1] = Append(g[m], s[m + 1])
      BY <2>1, <2>4 DEF KeepNext
    <3>2. ToSet(Append(g[m], x)) = ToSet(g[m]) \cup {x}
      <4> DEFINE a == g[m]
      <4>1. a \in Seq(O) /\ x \in O
        BY <2>1, <2>5 DEF x
      <4> HIDE DEF a
      <4>2. DOMAIN Append(a, x) = DOMAIN a \cup {Len(a) + 1}
        BY <4>1
      <4>3. \A i \in DOMAIN a : Append(a, x)[i] = a[i]
        BY <4>1
      <4>4. Append(a, x)[Len(a) + 1] = x
        BY <4>1
      <4>5. ToSet(Append(a, x)) = ToSet(a) \cup {x}
        BY <4>2, <4>3, <4>4 DEF ToSet
      <4> QED
        BY <4>5 DEF a
    <3>3. g[m + 1] \in Seq(O)
      <4>1. s[m + 1] \in O /\ g[m] \in Seq(O)
        BY <2>1, <2>5
      <4>2. \A a \in Seq(O), e \in O : Append(a, e) \in Seq(O)
        OBVIOUS
      <4> QED
        BY <3>1, <4>1, <4>2, Zenon
    <3>4. ToSet(g[m + 1]) = (seen \ T) \cup {x}
      BY <2>5, <3>1, <3>2 DEF x
    <3> QED
      BY <2>4, <3>3, <3>4 DEF x
  <2> QED
    BY <2>3, <2>4
<1>4. 0..Len(s) \subseteq N
  <2>1. Len(s) \in Nat
    OBVIOUS
  <2> HIDE DEF N
  <2>2. \A i \in 0..(Len(s) - 1) : i \in N => i + 1 \in N
    BY <1>3
  <2> QED
    BY <1>2, <2>1, <2>2, BoundedInduction, Zenon
<1> QED
  BY <1>4 DEF g

----------------------------------------------------------------------------
Absent(s, o) == \A j \in DOMAIN s : s[j] # o

(* Position k of s is the only one with the object c.                      *)
Once(s, c, k) == k \in DOMAIN s /\ s[k] = c /\ \A j \in DOMAIN s : s[j] = c => j = k

(* h is pre followed by what follows position k in s.                      *)
Joined(h, pre, s, k) ==
    /\ Len(h) = Len(pre) + Len(s) - k
    /\ \A j \in 1..Len(pre) : h[j] = pre[j]
    /\ \A j \in (k + 1)..Len(s) : h[Len(pre) + j - k] = s[j]

(* Putting pre in front of what follows position k gives h, and the        *)
(* projection p does not follow.                                           *)
Recovers(s, h, pre, k, p) ==
    Joined(h, pre, s, k) /\ \A j \in (k + 1)..Len(s) : s[j] # p

----------------------------------------------------------------------------
(* What project and restore compute *)

(* Without has the objects of the list that are outside T, and no others.  *)
LEMMA WithoutAre ==
    ASSUME NEW O, NEW s \in Seq(O), NEW T
    PROVE  Without(s, T) \in Seq(O) /\ ToSet(Without(s, T)) = ToSet(s) \ T
<1>1. Len(s) \in 0..Len(s)
  OBVIOUS
<1>2. Seen(s, Len(s)) = ToSet(s)
  BY DEF ToSet, Seen
<1>3. /\ KeptUpTo(s, T)[Len(s)] \in Seq(O)
      /\ ToSet(KeptUpTo(s, T)[Len(s)]) = Seen(s, Len(s)) \ T
  BY <1>1, KeptAre
<1> QED
  BY <1>2, <1>3, Zenon DEF Without

(* The current input, last in the list and there once, stays so when the   *)
(* history goes.                                                           *)
LEMMA WithoutLast ==
    ASSUME NEW O, NEW s \in Seq(O), NEW T, NEW c, c \notin T, Once(s, c, Len(s))
    PROVE  Once(Without(s, T), c, Len(Without(s, T)))
<1> DEFINE n == Len(s)
           a == KeptUpTo(s, T)[n - 1]
<1>1. n \in Nat \ {0} /\ s[n] = c /\ c \in O
  BY DEF Once
<1>2. KeptUpTo(s, T)[n] = KeepNext(a, s, n, T)
  <2>1. n \in 1..Len(s) /\ Len(s) \in Nat
    BY <1>1
  <2> QED
    BY <2>1, KeptSteps, Zenon
<1>3. Without(s, T) = Append(a, c)
  BY <1>1, <1>2 DEF KeepNext, Without
<1>4. a \in Seq(O) /\ ToSet(a) = Seen(s, n - 1) \ T
  <2>1. n - 1 \in 0..Len(s)
    BY <1>1
  <2> QED
    BY <2>1, KeptAre
<1>5. c \notin Seen(s, n - 1)
  BY <1>1 DEF Once, Seen
<1> HIDE DEF a, n
<1>6. \A j \in 1..Len(a) : a[j] # c
  BY <1>4, <1>5 DEF ToSet
<1> QED
  BY <1>1, <1>3, <1>4, <1>6 DEF Once

(* The leading system objects end before a last object that is not one.    *)
LEMMA SystemEnds ==
    ASSUME NEW O, NEW s \in Seq(O), s # <<>>, Role(Last(s)) # "system"
    PROVE  /\ SystemEnd(s) \in 0..(Len(s) - 1)
           /\ \A i \in 1..SystemEnd(s) : Role(s[i]) = "system"
<1> DEFINE Ends(n) == /\ \A i \in 1..n : Role(s[i]) = "system"
                      /\ n < Len(s) => Role(s[n + 1]) # "system"
           N == {n \in 0..Len(s) : \A i \in 1..n : Role(s[i]) = "system"}
<1>1. \E n \in 0..Len(s) : Ends(n)
  <2>1. SUFFICES ASSUME \A n \in 0..Len(s) : ~Ends(n) PROVE FALSE
    OBVIOUS
  <2>2. 0 \in N /\ Len(s) \in Nat
    OBVIOUS
  <2>3. \A n \in 0..(Len(s) - 1) : n \in N => n + 1 \in N
    BY <2>1
  <2>4. 0..Len(s) \subseteq N
    <3> HIDE DEF N
    <3> QED
      BY <2>2, <2>3, BoundedInduction, Zenon
  <2> QED
    BY <2>1, <2>4
<1>2. SystemEnd(s) \in 0..Len(s) /\ Ends(SystemEnd(s))
  BY <1>1, Zenon DEF SystemEnd
<1>3. SystemEnd(s) # Len(s)
  BY <1>2 DEF Last
<1> QED
  BY <1>2, <1>3

(* A guard that holds finds the current input once, at the end.            *)
LEMMA GuardFindsOne ==
    ASSUME NEW O, NEW s \in Seq(O), NEW l, BoundariesValid(s), GuardProjection(s, l).ok
    PROVE  Once(s, Last(s), Len(s))
<1> DEFINE n == SystemEnd(s)
           system == SubSeq(s, 1, n)
           preserved == ToSet(system) \cup {Last(s)}
           at == {i \in DOMAIN s : s[i] \in preserved}
           must == (1..n) \cup {Len(s)}
<1>1. s # <<>> /\ Role(Last(s)) = "user"
  BY DEF BoundariesValid
<1>2. n \in 0..(Len(s) - 1) /\ \A i \in 1..n : Role(s[i]) = "system"
  BY <1>1, SystemEnds
<1>3. Cardinality(at) = Len(system) + 1
  BY Zenon DEF GuardProjection, Occurrences
<1> HIDE DEF n
<1>4. Len(system) = n /\ \A i \in 1..n : system[i] = s[i]
  BY <1>2
<1>5. must \subseteq at
  <2>1. \A i \in 1..n : i \in DOMAIN s /\ s[i] \in ToSet(system)
    BY <1>2, <1>4 DEF ToSet
  <2> QED
    BY <1>1, <2>1 DEF Last
<1>6. IsFiniteSet(at)
  <2>1. IsFiniteSet(1..Len(s))
    BY FS_Interval
  <2>2. at \in SUBSET (1..Len(s))
    OBVIOUS
  <2> HIDE DEF at
  <2> QED
    BY <2>1, <2>2, FS_Subset, Zenon
<1>7. Cardinality(must) = n + 1
  <2>1. IsFiniteSet(1..n) /\ Cardinality(1..n) = n
    BY <1>2, FS_Interval
  <2>2. Len(s) \notin 1..n
    BY <1>2
  <2> QED
    BY <2>1, <2>2, FS_AddElement, Zenon
<1>8. at = must
  <2>1. must \in SUBSET at /\ Cardinality(at) = Cardinality(must)
    BY <1>3, <1>4, <1>5, <1>7, Zenon
  <2> HIDE DEF at, must
  <2> QED
    BY <1>6, <2>1, FS_Subset
<1>9. ASSUME NEW j \in DOMAIN s, s[j] = Last(s) PROVE j = Len(s)
  <2>1. j \in must
    BY <1>8, <1>9
  <2>2. j \notin 1..n
    BY <1>1, <1>2, <1>9
  <2> QED
    BY <2>1, <2>2
<1> QED
  BY <1>1, <1>9 DEF Once, Last

(* Min finds the least of some natural numbers.                            *)
LEMMA LeastIn ==
    ASSUME NEW S \in SUBSET Nat, S # {}
    PROVE  Min(S) \in S /\ \A y \in S : Min(S) <= y
<1>1. IsWellFoundedOn(OpToRel(<, Nat), Nat)
  BY NatLessThanWellFounded, Zenon
<1>2. \E x \in S : \A y \in S : ~(<<y, x>> \in OpToRel(<, Nat))
  BY <1>1, WFMin, Zenon
<1>3. PICK x \in S : \A y \in S : ~(<<y, x>> \in OpToRel(<, Nat))
  BY <1>2, Zenon
<1>4. \A y \in S : ~(y < x)
  BY <1>3, Zenon DEF OpToRel
<1>5. \A y \in S : x <= y
  BY <1>4
<1> QED
  BY <1>5, Zenon DEF Min

(* An object after a list without it is there once, at the end.            *)
LEMMA EndsOnce ==
    ASSUME NEW O, NEW a \in Seq(O), NEW b \in Seq(O), NEW c, Len(b) = 1, b[1] = c,
           \A j \in 1..Len(a) : a[j] # c
    PROVE  Once(a \o b, c, Len(a \o b))
<1>1. Len(a) \in Nat /\ Len(a \o b) = Len(a) + 1
  <2>1. \A x, y \in Seq(O) : Len(x) \in Nat /\ Len(x \o y) = Len(x) + Len(y)
    OBVIOUS
  <2>2. Len(a) \in Nat /\ Len(a \o b) = Len(a) + Len(b)
    BY <2>1, Zenon
  <2> QED
    BY <2>2
<1>2. DOMAIN (a \o b) = 1..(Len(a) + 1)
  BY <1>1
<1>3. (a \o b)[Len(a) + 1] = c
  BY <1>1
<1>4. \A j \in 1..Len(a) : (a \o b)[j] # c
  OBVIOUS
<1> QED
  BY <1>1, <1>2, <1>3, <1>4 DEF Once

(* project puts the projection before the current input.                   *)
LEMMA ProjectsList ==
    ASSUME NEW O, NEW s \in Seq(O), NEW g, NEW objects \in Seq(O),
           g.current \in ToSet(s), g.current \notin g.history
    PROVE  /\ ProjectedMessages(s, g, objects) \in Seq(O)
           /\ (Once(s, g.current, Len(s)) /\ \A j \in 1..Len(objects) : objects[j] # g.current) =>
                 Once(ProjectedMessages(s, g, objects), g.current,
                      Len(ProjectedMessages(s, g, objects)))
<1> DEFINE r == Without(s, g.history)
           c == g.current
           S == {i \in DOMAIN r : r[i] = c}
           start == Min(S)
           before == SubSeq(r, 1, start - 1)
           after == SubSeq(r, start, Len(r))
<1>1. r \in Seq(O) /\ ToSet(r) = ToSet(s) \ g.history
  BY WithoutAre
<1>2. ProjectedMessages(s, g, objects) = before \o objects \o after
  BY DEF ProjectedMessages
<1>3. Once(s, c, Len(s)) => Once(r, c, Len(r))
  BY WithoutLast
<1> HIDE DEF r
<1>4. S \in SUBSET Nat /\ S # {}
  BY <1>1 DEF ToSet
<1>5. start \in DOMAIN r /\ r[start] = c
  <2>1. start \in S
    <3> HIDE DEF S
    <3> QED
      BY <1>4, LeastIn
  <2> QED
    BY <2>1
<1> HIDE DEF S, start
<1>6. before \in Seq(O) /\ after \in Seq(O)
  BY <1>1, <1>5
<1>7. ASSUME Once(s, c, Len(s)), \A j \in 1..Len(objects) : objects[j] # c
      PROVE  Once(before \o objects \o after, c, Len(before \o objects \o after))
  <2>1. start = Len(r) /\ \A j \in 1..(Len(r) - 1) : r[j] # c
    BY <1>1, <1>3, <1>5, <1>7 DEF Once
  <2>2. Len(after) = 1 /\ after[1] = c
    BY <1>1, <1>5, <2>1
  <2>3. \A j \in 1..Len(before) : before[j] # c
    BY <1>1, <1>5, <2>1
  <2> DEFINE ahead == before \o objects
  <2> HIDE DEF before, after
  <2>4. ahead \in Seq(O) /\ \A j \in 1..Len(ahead) : ahead[j] # c
    BY <1>6, <1>7, <2>3
  <2> HIDE DEF ahead, c
  <2>5. Once(ahead \o after, c, Len(ahead \o after))
    BY <1>6, <2>2, <2>4, EndsOnce, Zenon
  <2> QED
    BY <2>5 DEF ahead
<1> QED
  BY <1>2, <1>6, <1>7

(* What follows the current input, where it is there once.                 *)
LEMMA DeltaFollows ==
    ASSUME NEW s, NEW v, NEW k, Once(s, v.guard.current, k), k \in Nat
    PROVE  /\ CurrentPositions(s, v) = {k}
           /\ DeltaObjects(s, v) = SubSeq(s, k + 1, Len(s))
<1>1. CurrentPositions(s, v) = {k}
  BY DEF CurrentPositions, Once
<1>2. Max({k}) = k
  BY DEF Max
<1> QED
  BY <1>1, <1>2, Zenon DEF DeltaObjects

(* restore accepts only a list that has the current input once.            *)
LEMMA RestoreFindsOne ==
    ASSUME NEW O, NEW s \in Seq(O), NEW v, CanRestore(s, v)
    PROVE  \E k \in DOMAIN s : Once(s, v.guard.current, k)
<1> DEFINE S == CurrentPositions(s, v)
<1>1. Cardinality(S) = 1
  BY DEF CanRestore
<1>2. S \in SUBSET (1..Len(s))
  BY DEF CurrentPositions
<1>3. IsFiniteSet(S)
  <2>1. IsFiniteSet(1..Len(s))
    BY FS_Interval
  <2> HIDE DEF S
  <2> QED
    BY <1>2, <2>1, FS_Subset, Zenon
<1>4. PICK k : S = {k}
  <2> HIDE DEF S
  <2> QED
    BY <1>1, <1>3, FS_Singleton
<1> QED
  BY <1>4 DEF CurrentPositions, Once

(* Where nothing of the projection follows the current input, restore      *)
(* accepts the list.                                                       *)
LEMMA RestoreAccepts ==
    ASSUME NEW O, NEW p, NEW s \in Seq(O), NEW v, NEW k, Once(s, v.guard.current, k),
           v.objects \in {<<>>, <<p>>},
           \A j \in (k + 1)..Len(s) : s[j] # p
    PROVE  CanRestore(s, v)
<1> DEFINE D == SubSeq(s, k + 1, Len(s))
           S == {i \in DOMAIN D : D[i] \in ToSet(v.objects)}
<1>1. k \in 1..Len(s) /\ k \in Nat
  BY DEF Once
<1>2. CurrentPositions(s, v) = {k} /\ DeltaObjects(s, v) = D
  BY <1>1, DeltaFollows, Zenon
<1>3. ToSet(v.objects) \subseteq {p}
  BY DEF ToSet
<1>4. \A i \in DOMAIN D : D[i] # p
  BY <1>1
<1> HIDE DEF D
<1>5. S = {}
  BY <1>3, <1>4
<1>6. Cardinality({}) = 0 /\ Cardinality({k}) = 1
  BY FS_EmptySet, FS_Singleton, Zenon
<1> QED
  BY <1>2, <1>5, <1>6, Zenon DEF CanRestore, Occurrences

(* The parts of a concatenation.                                           *)
LEMMA Concatenated ==
    ASSUME NEW O, NEW a \in Seq(O), NEW b \in Seq(O)
    PROVE  /\ a \o b \in Seq(O) /\ Len(a \o b) = Len(a) + Len(b)
           /\ \A j \in 1..Len(a) : (a \o b)[j] = a[j]
           /\ \A j \in 1..Len(b) : (a \o b)[Len(a) + j] = b[j]
OBVIOUS

(* The contract of project and restore: whatever follows the current input *)
(* while the list is projected, restore accepts it and gives the list that *)
(* project replaced with that behind it, R(P(X) + Delta) = X + Delta.      *)
THEOREM RestoreUndoesProject ==
    ASSUME NEW O, NEW s \in Seq(O), NEW g, NEW p \in O, NEW objects \in {<<>>, <<p>>},
           Once(s, g.current, Len(s)), g.current \notin g.history, p # g.current,
           NEW delta \in Seq(O), Absent(delta, g.current), Absent(delta, p)
    PROVE  LET sent == ProjectedMessages(s, g, objects) \o delta
               view == ProjectedView(s, g, objects)
           IN  CanRestore(sent, view) /\ RestoredMessages(sent, view) = s \o delta
<1> DEFINE c == g.current
           r == ProjectedMessages(s, g, objects)
           sent == r \o delta
           view == ProjectedView(s, g, objects)
           k == Len(r)
<1>1. objects \in Seq(O) /\ \A j \in 1..Len(objects) : objects[j] # c
  <2>1. CASE objects = <<>>
    BY <2>1
  <2>2. CASE objects = <<p>>
    BY <2>2
  <2> QED
    BY <2>1, <2>2
<1>2. c \in ToSet(s)
  BY DEF Once, ToSet
<1>3. r \in Seq(O) /\ Once(r, c, Len(r))
  BY <1>1, <1>2, ProjectsList
<1>4. view.guard = g /\ view.pre = s /\ view.objects = objects
  BY DEF ProjectedView
<1> HIDE DEF r, view
<1>5. /\ sent \in Seq(O) /\ Len(sent) = Len(r) + Len(delta)
      /\ \A j \in 1..Len(r) : sent[j] = r[j]
      /\ \A j \in 1..Len(delta) : sent[Len(r) + j] = delta[j]
  BY <1>3, Concatenated
<1> HIDE DEF sent
<1>6. Len(r) \in Nat /\ Len(delta) \in Nat /\ k \in 1..Len(r)
  BY <1>3 DEF Once
<1>7. ASSUME NEW j \in (k + 1)..Len(sent)
      PROVE  j - k \in 1..Len(delta) /\ sent[j] = delta[j - k]
  <2>1. j - k \in 1..Len(delta) /\ Len(r) + (j - k) = j
    BY <1>5, <1>6
  <2> QED
    BY <1>5, <2>1
<1>8. \A j \in (k + 1)..Len(sent) : sent[j] # c /\ sent[j] # p
  BY <1>7 DEF Absent
<1>9. Once(sent, c, k)
  <2>1. k \in DOMAIN sent /\ sent[k] = c
    <3>1. r[k] = c
      BY <1>3 DEF Once
    <3>2. sent[k] = r[k]
      BY <1>5, <1>6
    <3>3. k \in 1..Len(sent) /\ DOMAIN sent = 1..Len(sent)
      BY <1>5, <1>6
    <3> QED
      BY <3>1, <3>2, <3>3
  <2>2. ASSUME NEW j \in DOMAIN sent, sent[j] = c PROVE j = k
    <3>1. j \in 1..Len(sent) /\ ~(j \in (k + 1)..Len(sent))
      BY <1>5, <1>8, <2>2
    <3>2. j \in 1..Len(r)
      BY <1>5, <1>6, <3>1
    <3> QED
      BY <1>3, <1>5, <2>2, <3>2 DEF Once
  <2> QED
    BY <2>1, <2>2 DEF Once
<1>10. CanRestore(sent, view)
  BY <1>4, <1>5, <1>8, <1>9, RestoreAccepts, Zenon
<1>11. DeltaObjects(sent, view) = SubSeq(sent, k + 1, Len(sent))
  BY <1>4, <1>6, <1>9, DeltaFollows, Zenon
<1>12. SubSeq(sent, k + 1, Len(sent)) = delta
  <2> DEFINE d == SubSeq(sent, k + 1, Len(sent))
  <2>1. d \in Seq(O) /\ Len(d) = Len(delta)
    BY <1>5, <1>6
  <2>2. ASSUME NEW j \in 1..Len(delta) PROVE d[j] = delta[j]
    BY <1>5, <1>6
  <2> HIDE DEF d
  <2>3. d = delta
    BY <2>1, <2>2
  <2> QED
    BY <2>3 DEF d
<1>13. RestoredMessages(sent, view) = s \o delta
  BY <1>4, <1>11, <1>12, Zenon DEF RestoredMessages
<1> QED
  BY <1>10, <1>13 DEF sent, r, view

----------------------------------------------------------------------------
(* Edits by other plugins *)

(* InsertAt moves what stands at the position and after it.                *)
LEMMA Inserted ==
    ASSUME NEW O, NEW s \in Seq(O), NEW i \in 1..(Len(s) + 1), NEW o \in O
    PROVE  /\ InsertAt(s, i, o) \in Seq(O)
           /\ Len(InsertAt(s, i, o)) = Len(s) + 1
           /\ \A j \in 1..(i - 1) : InsertAt(s, i, o)[j] = s[j]
           /\ InsertAt(s, i, o)[i] = o
           /\ \A j \in i..Len(s) : InsertAt(s, i, o)[j + 1] = s[j]
<1> DEFINE a == SubSeq(s, 1, i - 1)
           m == a \o <<o>>
           b == SubSeq(s, i, Len(s))
<1>1. a \in Seq(O) /\ Len(a) = i - 1 /\ \A j \in 1..(i - 1) : a[j] = s[j]
  OBVIOUS
<1>2. b \in Seq(O) /\ Len(b) = Len(s) + 1 - i /\ \A j \in i..Len(s) : b[j + 1 - i] = s[j]
  OBVIOUS
<1> HIDE DEF a, b
<1>3. m \in Seq(O) /\ Len(m) = i /\ m[i] = o /\ \A j \in 1..(i - 1) : m[j] = s[j]
  BY <1>1
<1>4. InsertAt(s, i, o) = m \o b
  BY DEF InsertAt, a, b
<1> HIDE DEF m
<1>5. /\ m \o b \in Seq(O) /\ Len(m \o b) = Len(m) + Len(b)
      /\ \A j \in 1..Len(m) : (m \o b)[j] = m[j]
      /\ \A j \in 1..Len(b) : (m \o b)[Len(m) + j] = b[j]
  <2>1. m \in Seq(O) /\ b \in Seq(O)
    BY <1>2, <1>3
  <2> QED
    BY <2>1, Concatenated
<1>6. \A j \in i..Len(s) : (m \o b)[j + 1] = s[j]
  <2>1. TAKE j \in i..Len(s)
  <2>2. j + 1 - i \in 1..Len(b) /\ Len(m) + (j + 1 - i) = j + 1
    BY <1>2, <1>3
  <2> QED
    BY <1>2, <1>5, <2>2, Zenon
<1> QED
  BY <1>2, <1>3, <1>4, <1>5, <1>6

(* RemoveAt moves what stands after the position.                          *)
LEMMA Removed ==
    ASSUME NEW O, NEW s \in Seq(O), NEW i \in 1..Len(s)
    PROVE  /\ RemoveAt(s, i) \in Seq(O)
           /\ Len(RemoveAt(s, i)) = Len(s) - 1
           /\ \A j \in 1..(i - 1) : RemoveAt(s, i)[j] = s[j]
           /\ \A j \in (i + 1)..Len(s) : RemoveAt(s, i)[j - 1] = s[j]
<1> DEFINE a == SubSeq(s, 1, i - 1)
           b == SubSeq(s, i + 1, Len(s))
<1>1. a \in Seq(O) /\ Len(a) = i - 1 /\ \A j \in 1..(i - 1) : a[j] = s[j]
  OBVIOUS
<1>2. b \in Seq(O) /\ Len(b) = Len(s) - i /\ \A j \in (i + 1)..Len(s) : b[j - i] = s[j]
  OBVIOUS
<1>3. RemoveAt(s, i) = a \o b
  BY DEF RemoveAt
<1> HIDE DEF a, b
<1>4. /\ a \o b \in Seq(O) /\ Len(a \o b) = Len(a) + Len(b)
      /\ \A j \in 1..Len(a) : (a \o b)[j] = a[j]
      /\ \A j \in 1..Len(b) : (a \o b)[Len(a) + j] = b[j]
  <2>1. a \in Seq(O) /\ b \in Seq(O)
    BY <1>1, <1>2
  <2> QED
    BY <2>1, Concatenated
<1>5. \A j \in (i + 1)..Len(s) : (a \o b)[j - 1] = s[j]
  <2>1. TAKE j \in (i + 1)..Len(s)
  <2>2. j - i \in 1..Len(b) /\ Len(a) + (j - i) = j - 1
    BY <1>1, <1>2
  <2> QED
    BY <1>2, <1>4, <2>2, Zenon
<1>6. Len(a \o b) = Len(s) - 1
  BY <1>1, <1>2, <1>4
<1>7. \A j \in 1..(i - 1) : (a \o b)[j] = s[j]
  BY <1>1, <1>4
<1> QED
  BY <1>3, <1>4, <1>5, <1>6, <1>7, Zenon

(* RemoveAt at the front of no list.                                       *)
LEMMA RemovedFromEmpty ==
    ASSUME NEW O
    PROVE  RemoveAt(<<>>, 1) \in Seq(O)
BY DEF RemoveAt

(* The current input is there once after an insertion of something else.   *)
LEMMA InsertOnce ==
    ASSUME NEW O, NEW s \in Seq(O), NEW i \in 1..(Len(s) + 1), NEW o \in O,
           NEW c, o # c, NEW k, Once(s, c, k)
    PROVE  Once(InsertAt(s, i, o), c, IF i <= k THEN k + 1 ELSE k)
<1> DEFINE t == InsertAt(s, i, o)
           q == IF i <= k THEN k + 1 ELSE k
<1>1. k \in 1..Len(s) /\ s[k] = c /\ \A j \in 1..Len(s) : s[j] = c => j = k
  BY DEF Once
<1>2. /\ t \in Seq(O) /\ Len(t) = Len(s) + 1 /\ t[i] = o
      /\ \A j \in 1..(i - 1) : t[j] = s[j]
      /\ \A j \in i..Len(s) : t[j + 1] = s[j]
  BY Inserted
<1> HIDE DEF t
<1>3. q \in DOMAIN t /\ t[q] = c
  BY <1>1, <1>2
<1>4. ASSUME NEW j \in DOMAIN t, t[j] = c PROVE j = q
  <2>1. j \in 1..(Len(s) + 1) /\ j # i
    BY <1>2, <1>4
  <2>2. CASE j < i
    BY <1>1, <1>2, <1>4, <2>1, <2>2
  <2>3. CASE i < j
    <3>1. j - 1 \in i..Len(s) /\ (j - 1) + 1 = j
      BY <2>1, <2>3
    <3>2. s[j - 1] = c
      BY <1>2, <1>4, <3>1
    <3> QED
      BY <1>1, <3>1, <3>2
  <2> QED
    BY <2>1, <2>2, <2>3
<1> HIDE DEF q
<1>5. Once(t, c, q)
  BY <1>3, <1>4 DEF Once
<1> QED
  BY <1>5 DEF t, q

(* The current input is there once after the removal of something else.    *)
LEMMA RemoveOnce ==
    ASSUME NEW O, NEW s \in Seq(O), NEW i \in 1..Len(s),
           NEW c, s[i] # c, NEW k, Once(s, c, k)
    PROVE  Once(RemoveAt(s, i), c, IF i < k THEN k - 1 ELSE k)
<1> DEFINE t == RemoveAt(s, i)
           q == IF i < k THEN k - 1 ELSE k
<1>1. k \in 1..Len(s) /\ s[k] = c /\ \A j \in 1..Len(s) : s[j] = c => j = k
  BY DEF Once
<1>2. /\ t \in Seq(O) /\ Len(t) = Len(s) - 1
      /\ \A j \in 1..(i - 1) : t[j] = s[j]
      /\ \A j \in (i + 1)..Len(s) : t[j - 1] = s[j]
  BY Removed
<1> HIDE DEF t
<1>3. q \in DOMAIN t /\ t[q] = c
  BY <1>1, <1>2
<1>4. ASSUME NEW j \in DOMAIN t, t[j] = c PROVE j = q
  <2>1. j \in 1..(Len(s) - 1)
    BY <1>2
  <2>2. CASE j < i
    BY <1>1, <1>2, <1>4, <2>1, <2>2
  <2>3. CASE i <= j
    <3>1. j + 1 \in (i + 1)..Len(s) /\ (j + 1) - 1 = j
      BY <2>1, <2>3
    <3>2. s[j + 1] = c
      BY <1>2, <1>4, <3>1
    <3> QED
      BY <1>1, <2>3, <3>1, <3>2
  <2> QED
    BY <2>1, <2>2, <2>3
<1> HIDE DEF q
<1>5. Once(t, c, q)
  BY <1>3, <1>4 DEF Once
<1> QED
  BY <1>5 DEF t, q

(* The current input is there once after something else is appended.       *)
LEMMA AppendOnce ==
    ASSUME NEW O, NEW s \in Seq(O), NEW o \in O, NEW c, o # c, NEW k, Once(s, c, k)
    PROVE  Once(Append(s, o), c, k)
<1>1. DOMAIN Append(s, o) = 1..(Len(s) + 1) /\ Append(s, o)[Len(s) + 1] = o
  OBVIOUS
<1>2. \A j \in 1..Len(s) : Append(s, o)[j] = s[j]
  OBVIOUS
<1>3. Len(s) \in Nat /\ DOMAIN s = 1..Len(s)
  OBVIOUS
<1> QED
  BY <1>1, <1>2, <1>3 DEF Once

(* What restore puts together is the host's list after an insertion: an    *)
(* object after the current input goes into the host's list as well.       *)
LEMMA InsertRecovers ==
    ASSUME NEW O, NEW p, NEW s \in Seq(O), NEW h \in Seq(O), NEW pre \in Seq(O),
           NEW i \in 1..(Len(s) + 1), NEW o \in O, o # p,
           NEW k \in 1..Len(s), Recovers(s, h, pre, k, p)
    PROVE  /\ i <= k => Recovers(InsertAt(s, i, o), h, pre, k + 1, p)
           /\ k < i => /\ i + Len(h) - Len(s) \in 1..(Len(h) + 1)
                       /\ Recovers(InsertAt(s, i, o),
                                   InsertAt(h, i + Len(h) - Len(s), o), pre, k, p)
<1>1. /\ Len(h) = Len(pre) + Len(s) - k
      /\ \A j \in 1..Len(pre) : h[j] = pre[j]
      /\ \A j \in (k + 1)..Len(s) : h[Len(pre) + j - k] = s[j] /\ s[j] # p
  BY Zenon DEF Recovers, Joined
<1> DEFINE t == InsertAt(s, i, o)
           x == i + Len(h) - Len(s)
           u == InsertAt(h, x, o)
<1>2. /\ t \in Seq(O) /\ Len(t) = Len(s) + 1 /\ t[i] = o
      /\ \A j \in 1..(i - 1) : t[j] = s[j]
      /\ \A j \in i..Len(s) : t[j + 1] = s[j]
  <2>1. s \in Seq(O) /\ i \in 1..(Len(s) + 1) /\ o \in O
    OBVIOUS
  <2> QED
    BY <2>1, Inserted
<1>3. Len(s) \in Nat /\ Len(h) \in Nat /\ Len(pre) \in Nat
  OBVIOUS
<1> HIDE DEF t, x, u
<1>4. ASSUME i <= k PROVE Recovers(t, h, pre, k + 1, p)
  <2>1. \A j \in (k + 2)..(Len(s) + 1) : t[j] = s[j - 1]
    <3>1. TAKE j \in (k + 2)..(Len(s) + 1)
    <3>2. j - 1 \in i..Len(s) /\ (j - 1) + 1 = j
      BY <1>3, <1>4
    <3> QED
      BY <1>2, <3>2
  <2>2. ASSUME NEW j \in (k + 2)..(Len(s) + 1)
        PROVE  h[Len(pre) + j - (k + 1)] = t[j] /\ t[j] # p
    <3>1. j - 1 \in (k + 1)..Len(s) /\ Len(pre) + (j - 1) - k = Len(pre) + j - (k + 1)
      BY <1>3
    <3> QED
      BY <1>1, <2>1, <3>1, Zenon
  <2>3. Len(h) = Len(pre) + Len(t) - (k + 1) /\ ((k + 1) + 1)..Len(t) = (k + 2)..(Len(s) + 1)
    BY <1>1, <1>2, <1>3
  <2> QED
    BY <1>1, <2>2, <2>3, Zenon DEF Recovers, Joined
<1>5. ASSUME k < i PROVE x \in 1..(Len(h) + 1) /\ Recovers(t, u, pre, k, p)
  <2>1. x = Len(pre) + i - k /\ x \in 1..(Len(h) + 1) /\ Len(pre) < x
    BY <1>1, <1>3, <1>5 DEF x
  <2>2. /\ u \in Seq(O) /\ Len(u) = Len(h) + 1 /\ u[x] = o
        /\ \A j \in 1..(x - 1) : u[j] = h[j]
        /\ \A j \in x..Len(h) : u[j + 1] = h[j]
    <3>1. x \in 1..(Len(h) + 1)
      BY <2>1
    <3> QED
      BY <3>1, Inserted, SMTT(30) DEF u
  <2>3. \A j \in 1..Len(pre) : u[j] = pre[j]
    <3>1. 1..Len(pre) \subseteq 1..(x - 1)
      BY <1>3, <2>1
    <3> QED
      BY <1>1, <2>2, <3>1, Zenon
  <2>4. Len(u) = Len(pre) + Len(t) - k
    BY <1>1, <1>2, <1>3, <2>2
  <2>5. ASSUME NEW j \in (k + 1)..Len(t)
        PROVE  u[Len(pre) + j - k] = t[j] /\ t[j] # p
    <3>1. j \in (k + 1)..(Len(s) + 1)
      BY <1>2
    <3>2. CASE j < i
      <4>1. j \in 1..(i - 1) /\ j \in (k + 1)..Len(s) /\ Len(pre) + j - k \in 1..(x - 1)
        BY <1>3, <2>1, <3>1, <3>2
      <4> QED
        BY <1>1, <1>2, <2>2, <4>1, Zenon
    <3>3. CASE j = i
      BY <1>2, <2>1, <2>2, <3>3
    <3>4. CASE i < j
      <4>1. /\ j - 1 \in i..Len(s) /\ j - 1 \in (k + 1)..Len(s) /\ (j - 1) + 1 = j
            /\ Len(pre) + (j - 1) - k \in x..Len(h)
            /\ (Len(pre) + (j - 1) - k) + 1 = Len(pre) + j - k
        <5>1. Len(h) = Len(pre) + Len(s) - k /\ x = Len(pre) + i - k
          BY <1>1, <2>1
        <5>2. j \in Int /\ i < j /\ j <= Len(s) + 1 /\ k < i
          BY <1>3, <1>5, <3>1, <3>4
        <5> QED
          BY <1>3, <5>1, <5>2
      <4>2. t[j] = s[j - 1] /\ u[Len(pre) + j - k] = h[Len(pre) + (j - 1) - k]
        BY <1>2, <2>2, <4>1, Zenon
      <4> QED
        BY <1>1, <4>1, <4>2, Zenon
    <3> QED
      BY <1>3, <3>1, <3>2, <3>3, <3>4
  <2> QED
    BY <2>1, <2>3, <2>4, <2>5, Zenon DEF Recovers, Joined
<1> QED
  BY <1>4, <1>5 DEF t, x, u

(* The same for a removal of something other than the current input.       *)
LEMMA RemoveRecovers ==
    ASSUME NEW O, NEW p, NEW s \in Seq(O), NEW h \in Seq(O), NEW pre \in Seq(O),
           NEW i \in 1..Len(s), NEW k \in 1..Len(s), Recovers(s, h, pre, k, p)
    PROVE  /\ i < k => Recovers(RemoveAt(s, i), h, pre, k - 1, p)
           /\ k < i => /\ i + Len(h) - Len(s) \in 1..Len(h)
                       /\ Recovers(RemoveAt(s, i), RemoveAt(h, i + Len(h) - Len(s)), pre, k, p)
<1> DEFINE t == RemoveAt(s, i)
           x == i + Len(h) - Len(s)
           u == RemoveAt(h, x)
<1>1. /\ Len(h) = Len(pre) + Len(s) - k
      /\ \A j \in 1..Len(pre) : h[j] = pre[j]
      /\ \A j \in (k + 1)..Len(s) : h[Len(pre) + j - k] = s[j] /\ s[j] # p
  BY DEF Recovers, Joined
<1>2. /\ t \in Seq(O) /\ Len(t) = Len(s) - 1
      /\ \A j \in 1..(i - 1) : t[j] = s[j]
      /\ \A j \in (i + 1)..Len(s) : t[j - 1] = s[j]
  BY Removed
<1>3. Len(s) \in Nat /\ Len(h) \in Nat /\ Len(pre) \in Nat
  OBVIOUS
<1> HIDE DEF t, x, u
<1>4. ASSUME i < k PROVE Recovers(t, h, pre, k - 1, p)
  <2>1. \A j \in k..(Len(s) - 1) : t[j] = s[j + 1]
    <3>1. TAKE j \in k..(Len(s) - 1)
    <3>2. j + 1 \in (i + 1)..Len(s) /\ (j + 1) - 1 = j
      BY <1>3, <1>4
    <3> QED
      BY <1>2, <3>2
  <2>2. ASSUME NEW j \in k..(Len(s) - 1)
        PROVE  h[Len(pre) + j - (k - 1)] = t[j] /\ t[j] # p
    <3>1. j + 1 \in (k + 1)..Len(s) /\ Len(pre) + (j + 1) - k = Len(pre) + j - (k - 1)
      BY <1>3
    <3> QED
      BY <1>1, <2>1, <3>1, Zenon
  <2>3. Len(h) = Len(pre) + Len(t) - (k - 1) /\ ((k - 1) + 1)..Len(t) = k..(Len(s) - 1)
    BY <1>1, <1>2, <1>3
  <2> QED
    BY <1>1, <2>2, <2>3, Zenon DEF Recovers, Joined
<1>5. ASSUME k < i PROVE x \in 1..Len(h) /\ Recovers(t, u, pre, k, p)
  <2>1. x = Len(pre) + i - k /\ x \in 1..Len(h) /\ Len(pre) < x
    BY <1>1, <1>3, <1>5 DEF x
  <2>2. /\ u \in Seq(O) /\ Len(u) = Len(h) - 1
        /\ \A j \in 1..(x - 1) : u[j] = h[j]
        /\ \A j \in (x + 1)..Len(h) : u[j - 1] = h[j]
    <3>1. x \in 1..Len(h)
      BY <2>1
    <3> QED
      BY <3>1, Removed, Zenon DEF u
  <2>3. \A j \in 1..Len(pre) : u[j] = pre[j]
    <3>1. 1..Len(pre) \subseteq 1..(x - 1)
      BY <1>3, <2>1
    <3> QED
      BY <1>1, <2>2, <3>1, Zenon
  <2>4. Len(u) = Len(pre) + Len(t) - k
    BY <1>1, <1>2, <1>3, <2>2
  <2>5. ASSUME NEW j \in (k + 1)..Len(t)
        PROVE  u[Len(pre) + j - k] = t[j] /\ t[j] # p
    <3>1. j \in (k + 1)..(Len(s) - 1)
      BY <1>2
    <3>2. CASE j < i
      <4>1. j \in 1..(i - 1) /\ j \in (k + 1)..Len(s) /\ Len(pre) + j - k \in 1..(x - 1)
        BY <1>3, <2>1, <3>1, <3>2
      <4> QED
        BY <1>1, <1>2, <2>2, <4>1, Zenon
    <3>3. CASE i <= j
      <4>1. /\ j + 1 \in (i + 1)..Len(s) /\ j + 1 \in (k + 1)..Len(s) /\ (j + 1) - 1 = j
            /\ Len(pre) + (j + 1) - k \in (x + 1)..Len(h)
            /\ (Len(pre) + (j + 1) - k) - 1 = Len(pre) + j - k
        <5>1. Len(h) = Len(pre) + Len(s) - k /\ x = Len(pre) + i - k
          BY <1>1, <2>1, Zenon
        <5>2. j \in Int /\ i <= j /\ j <= Len(s) - 1 /\ k < i
          BY <1>3, <1>5, <3>1, <3>3
        <5> QED
          BY <1>3, <5>1, <5>2
      <4>2. t[j] = s[j + 1] /\ u[Len(pre) + j - k] = h[Len(pre) + (j + 1) - k]
        BY <1>2, <2>2, <4>1, Zenon
      <4> QED
        BY <1>1, <4>1, <4>2
    <3> QED
      BY <1>3, <3>1, <3>2, <3>3
  <2> QED
    BY <2>1, <2>3, <2>4, <2>5, Zenon DEF Recovers, Joined
<1> QED
  BY <1>4, <1>5 DEF t, x, u

(* The same for what the agent or another plugin appends to both lists.    *)
LEMMA AppendRecovers ==
    ASSUME NEW O, NEW p, NEW s \in Seq(O), NEW h \in Seq(O), NEW pre \in Seq(O),
           NEW o \in O, o # p, NEW k \in 1..Len(s), Recovers(s, h, pre, k, p)
    PROVE  Recovers(Append(s, o), Append(h, o), pre, k, p)
<1> DEFINE t == Append(s, o)
           u == Append(h, o)
<1>1. /\ Len(h) = Len(pre) + Len(s) - k
      /\ \A j \in 1..Len(pre) : h[j] = pre[j]
      /\ \A j \in (k + 1)..Len(s) : h[Len(pre) + j - k] = s[j] /\ s[j] # p
  BY DEF Recovers, Joined
<1>2. Len(t) = Len(s) + 1 /\ t[Len(s) + 1] = o /\ \A j \in 1..Len(s) : t[j] = s[j]
  OBVIOUS
<1>3. Len(u) = Len(h) + 1 /\ u[Len(h) + 1] = o /\ \A j \in 1..Len(h) : u[j] = h[j]
  OBVIOUS
<1>4. Len(s) \in Nat /\ Len(h) \in Nat /\ Len(pre) \in Nat
  OBVIOUS
<1> HIDE DEF t, u
<1>5. Len(u) = Len(pre) + Len(t) - k /\ \A j \in 1..Len(pre) : u[j] = pre[j]
  BY <1>1, <1>2, <1>3, <1>4
<1>6. ASSUME NEW j \in (k + 1)..Len(t)
      PROVE  u[Len(pre) + j - k] = t[j] /\ t[j] # p
  <2>1. CASE j = Len(s) + 1
    BY <1>1, <1>2, <1>3, <1>4, <2>1
  <2>2. CASE j # Len(s) + 1
    <3>1. j \in 1..Len(s) /\ j \in (k + 1)..Len(s) /\ Len(pre) + j - k \in 1..Len(h)
      BY <1>1, <1>2, <1>4, <2>2
    <3> QED
      BY <1>1, <1>2, <1>3, <3>1, Zenon
  <2> QED
    BY <2>1, <2>2, Zenon
<1> QED
  BY <1>5, <1>6, Zenon DEF Recovers, Joined, t, u

(* restore puts the host's list together.                                  *)
LEMMA RestoreRecovers ==
    ASSUME NEW O, NEW p, NEW s \in Seq(O), NEW h \in Seq(O), NEW pre \in Seq(O),
           NEW k \in 1..Len(s), Recovers(s, h, pre, k, p)
    PROVE  pre \o SubSeq(s, k + 1, Len(s)) = h
<1> DEFINE d == SubSeq(s, k + 1, Len(s))
           e == pre \o d
<1>1. /\ Len(h) = Len(pre) + Len(s) - k
      /\ \A j \in 1..Len(pre) : h[j] = pre[j]
      /\ \A j \in (k + 1)..Len(s) : h[Len(pre) + j - k] = s[j]
  BY DEF Recovers, Joined
<1>2. d \in Seq(O) /\ Len(d) = Len(s) - k /\ \A j \in 1..(Len(s) - k) : d[j] = s[k + j]
  OBVIOUS
<1> HIDE DEF d
<1>3. /\ e \in Seq(O) /\ Len(e) = Len(pre) + Len(d)
      /\ \A j \in 1..Len(pre) : e[j] = pre[j]
      /\ \A j \in 1..Len(d) : e[Len(pre) + j] = d[j]
  <2>1. d \in Seq(O)
    BY <1>2
  <2> QED
    BY <2>1, Concatenated
<1> HIDE DEF e
<1>4. Len(s) \in Nat /\ Len(h) \in Nat /\ Len(pre) \in Nat
  OBVIOUS
<1>5. ASSUME NEW j \in 1..Len(h) PROVE e[j] = h[j]
  <2>1. CASE j <= Len(pre)
    BY <1>1, <1>3, <1>4, <2>1
  <2>2. CASE Len(pre) < j
    <3>1. /\ j - Len(pre) \in 1..(Len(s) - k) /\ Len(pre) + (j - Len(pre)) = j
          /\ k + (j - Len(pre)) \in (k + 1)..Len(s)
          /\ Len(pre) + (k + (j - Len(pre))) - k = j
      BY <1>1, <1>4, <2>2
    <3>2. h[j] = s[k + (j - Len(pre))]
      BY <1>1, <3>1
    <3>3. e[j] = d[j - Len(pre)] /\ d[j - Len(pre)] = s[k + (j - Len(pre))]
      BY <1>2, <1>3, <3>1, Zenon
    <3> QED
      BY <3>2, <3>3
  <2>3. j <= Len(pre) \/ Len(pre) < j
    BY <1>4
  <2> QED
    BY <2>1, <2>2, <2>3
<1>6. Len(e) = Len(h)
  BY <1>1, <1>2, <1>3, <1>4
<1>7. e = h
  BY <1>3, <1>5, <1>6
<1> QED
  BY <1>7, Zenon DEF d, e

(* An object is absent after the insertion of another one, and after a     *)
(* removal.                                                                *)
LEMMA StaysAbsent ==
    ASSUME NEW O, NEW s \in Seq(O), NEW p, Absent(s, p)
    PROVE  /\ \A o \in O : o # p => Absent(Append(s, o), p)
           /\ \A i \in 1..(Len(s) + 1), o \in O : o # p => Absent(InsertAt(s, i, o), p)
           /\ \A i \in 1..Len(s) : Absent(RemoveAt(s, i), p)
<1>1. Len(s) \in Nat /\ \A j \in 1..Len(s) : s[j] # p
  BY DEF Absent
<1>2. ASSUME NEW o \in O, o # p PROVE Absent(Append(s, o), p)
  BY <1>1, <1>2 DEF Absent
<1>3. ASSUME NEW i \in 1..(Len(s) + 1), NEW o \in O, o # p PROVE Absent(InsertAt(s, i, o), p)
  <2> DEFINE t == InsertAt(s, i, o)
  <2>1. /\ t \in Seq(O) /\ Len(t) = Len(s) + 1 /\ t[i] = o
        /\ \A j \in 1..(i - 1) : t[j] = s[j]
        /\ \A j \in i..Len(s) : t[j + 1] = s[j]
    BY Inserted
  <2> HIDE DEF t
  <2>2. ASSUME NEW j \in 1..(Len(s) + 1) PROVE t[j] # p
    <3>1. CASE j < i
      BY <1>1, <2>1, <3>1
    <3>2. CASE j = i
      BY <1>3, <2>1, <3>2
    <3>3. CASE i < j
      <4>1. j - 1 \in i..Len(s) /\ j - 1 \in 1..Len(s) /\ (j - 1) + 1 = j
        BY <1>1, <3>3
      <4> QED
        BY <1>1, <2>1, <4>1, Zenon
    <3> QED
      BY <3>1, <3>2, <3>3
  <2> QED
    BY <2>1, <2>2 DEF Absent, t
<1>4. ASSUME NEW i \in 1..Len(s) PROVE Absent(RemoveAt(s, i), p)
  <2> DEFINE t == RemoveAt(s, i)
  <2>1. /\ t \in Seq(O) /\ Len(t) = Len(s) - 1
        /\ \A j \in 1..(i - 1) : t[j] = s[j]
        /\ \A j \in (i + 1)..Len(s) : t[j - 1] = s[j]
    BY Removed, Zenon
  <2> HIDE DEF t
  <2>2. ASSUME NEW j \in 1..(Len(s) - 1) PROVE t[j] # p
    <3>1. CASE j < i
      BY <1>1, <2>1, <3>1
    <3>2. CASE i <= j
      <4>1. j + 1 \in (i + 1)..Len(s) /\ j + 1 \in 1..Len(s) /\ (j + 1) - 1 = j
        BY <1>1, <3>2
      <4> QED
        BY <1>1, <2>1, <4>1
    <3> QED
      BY <3>1, <3>2
  <2> QED
    BY <2>1, <2>2 DEF Absent, t
<1> QED
  BY <1>2, <1>3, <1>4
=============================================================================
