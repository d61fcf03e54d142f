-------------------------------- MODULE Split --------------------------------
(***************************************************************************)
(* `pidag split` and the split that `pidag auto` makes of a large spec     *)
(* (src/split): which of the child specs each exit criterion goes to.      *)
(*                                                                         *)
(* Criteria are numbered from 1.  A split is a sequence of parts, each the *)
(* sequence of its criteria.  Of a criterion's text only the first module  *)
(* it names is kept ("" for none); the texts of the child specs, the tests *)
(* and the dependencies listed in them are left out.                       *)
(***************************************************************************)
EXTENDS Naturals, Sequences, SequencesExt, FiniteSets, FiniteSetsExt

All(k) == [i \in 1 .. k |-> i]

\* auto_determine_split_count
SplitCount(k) == IF k <= 7 THEN 1 ELSE (k + 5) \div 6

\* Mutant: what is left over by the division goes nowhere.
OrderedByBase(k, n) == [p \in 1 .. n |-> SubSeq(All(k), (p - 1) * (k \div n) + 1, p * (k \div n))]

\* split_into_n_parts_ordered, for n of 1 .. k: runs of criteria, the longer ones first.
Ordered(k, n) ==
  LET before(p) == p * (k \div n) + Min({p, k % n})
  IN  [p \in 1 .. n |-> SubSeq(All(k), before(p - 1) + 1, before(p))]

-----------------------------------------------------------------------------
(* group_by_module: names[i] is the module of criterion i.                 *)

Group(names, m) == SelectSeq(All(Len(names)), LAMBDA i : names[i] = m)
Modules(names)  == ToSet(names) \ {""}

\* The orders that the groups may be taken in: the larger first, of equal ones any,
\* since they come out of a HashMap.
GroupOrders(names) ==
  {order \in SetToSeqs(Modules(names)) :
     \A i, j \in DOMAIN order :
       i < j => Len(Group(names, order[i])) >= Len(Group(names, order[j]))}

\* To the first of the smallest parts.
Put(parts, criteria) ==
  LET smallest == SelectInSeq(parts, LAMBDA p : \A q \in ToSet(parts) : Len(p) <= Len(q))
  IN  [parts EXCEPT ![smallest] = @ \o criteria]

\* For n of 2 .. Len(names): whole groups first, then what names no module, one by one.
Grouped(names, n, order) ==
  LET groups == FoldLeft(LAMBDA parts, m : Put(parts, Group(names, m)),
                         [p \in 1 .. n |-> <<>>], order)
      all    == FoldLeft(LAMBDA parts, i : Put(parts, <<i>>), groups, Group(names, ""))
  IN  [p \in 1 .. n |-> SortSeq(all[p], <)]

-----------------------------------------------------------------------------
\* build_coverage_report and is_complete.
Complete(parts, k) ==
  LET covered == UNION {ToSet(parts[p]) : p \in DOMAIN parts}
  IN  (1 .. k) \ covered = {} /\ Cardinality(covered) = k

\* split_for_auto: no split, or parts that pass the coverage check.
AutoParts(k) == IF SplitCount(k) <= 1 THEN <<>> ELSE Ordered(k, SplitCount(k))

-----------------------------------------------------------------------------
(* Properties *)

\* Parts that follow each other: every criterion once, in order, no part empty.
Contiguous(parts, k) ==
  /\ FlattenSeq(parts) = All(k) /\ Complete(parts, k)
  /\ \A p \in DOMAIN parts : parts[p] # <<>>

\* Every criterion once; those of one module together; an empty part only if there are
\* fewer groups than parts; and no part ahead of another by more than one group.
WellGrouped(parts, names) ==
  LET groups == {Group(names, m) : m \in Modules(names)} IN
  /\ Complete(parts, Len(names)) /\ Len(FlattenSeq(parts)) = Len(names)
  /\ \A g \in groups : \E p \in DOMAIN parts : ToSet(g) \subseteq ToSet(parts[p])
  /\ (\E p \in DOMAIN parts : parts[p] = <<>>) =>
       Cardinality(groups) + Len(Group(names, "")) < Len(parts)
  /\ \A p, q \in DOMAIN parts :
       Len(parts[p]) <= Len(parts[q]) + Max({1} \cup {Len(g) : g \in groups})

\* No exit criterion is lost or given out twice, however a spec is split; a large spec is
\* split by `pidag auto`, in order, into children that are not large themselves.
KeepsAll(sizes, texts) ==
  /\ \A k \in sizes : /\ \A n \in 1 .. k : Contiguous(Ordered(k, n), k)
                      /\ IF k <= 7 THEN AutoParts(k) = <<>>
                         ELSE /\ Contiguous(AutoParts(k), k)
                              /\ \A p \in ToSet(AutoParts(k)) : AutoParts(Len(p)) = <<>>
  /\ \A names \in texts : \A n \in 2 .. Len(names), order \in GroupOrders(names) :
       WellGrouped(Grouped(names, n, order), names)
=============================================================================
