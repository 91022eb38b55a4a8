------------------------------- MODULE Lists --------------------------------
(***************************************************************************)
(* Python's list operations, as far as the specifications use them.  They  *)
(* are kept apart from SequencesExt because modules under proof extend     *)
(* this one: SequencesExt extends Bags, whose proof version puts two       *)
(* libraries of theorems in front of each obligation.                      *)
(***************************************************************************)
EXTENDS Integers, Sequences, FiniteSets, FiniteSetsExt

(* A loop over list with the accumulator op, started at init.              *)
FoldLeft(op(_, _), init, list) ==
    LET after[n \in 0..Len(list)] ==
            IF n = 0 THEN init ELSE op(after[n - 1], list[n])
    IN  after[Len(list)]

(* The same over the positions of list.                                    *)
FoldLeftDomain(op(_, _), init, list) == FoldLeft(op, init, [n \in DOMAIN list |-> n])

FlattenSeq(lists) == FoldLeft(LAMBDA joined, list : joined \o list, <<>>, lists)

ToSet(list) == {list[n] : n \in DOMAIN list}

Last(list) == list[Len(list)]

(* list.insert and del, with positions from 1.                             *)
InsertAt(list, n, object) ==
    SubSeq(list, 1, n - 1) \o <<object>> \o SubSeq(list, n, Len(list))

RemoveAt(list, n) == SubSeq(list, 1, n - 1) \o SubSeq(list, n + 1, Len(list))

(* A comprehension: the objects of s outside T, in their order.            *)
KeptUpTo(s, T) ==
    LET kept[i \in 0..Len(s)] ==
            IF i = 0 THEN <<>>
            ELSE IF s[i] \in T THEN kept[i - 1] ELSE Append(kept[i - 1], s[i])
    IN  kept

Without(s, T) == KeptUpTo(s, T)[Len(s)]

SumUpTo(numbers) ==
    LET sum[n \in 0..Len(numbers)] == IF n = 0 THEN 0 ELSE sum[n - 1] + numbers[n]
    IN  sum

SumOf(numbers) == SumUpTo(numbers)[Len(numbers)]

IsSorted(list, Leq(_, _)) == \A m, n \in DOMAIN list : m < n => Leq(list[m], list[n])
=============================================================================
