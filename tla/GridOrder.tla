------------------------------- MODULE GridOrder -------------------------------
(* The order of the rows of a table indexed by month and cell.  Sorting is stated by   *)
(* rank: what stands at place k is what k rows, itself included, do not come after.    *)
EXTENDS Naturals, FiniteSets

Before(r, s) == r[1] < s[1] \/ (r[1] = s[1] /\ r[2] < s[2])
AtOrBefore(r, s) == r = s \/ Before(r, s)

\* The members of S as a sequence, leq being a total order of them.
InOrder(S, leq(_, _)) ==
    [k \in 1..Cardinality(S) |-> CHOOSE x \in S : Cardinality({y \in S : leq(y, x)}) = k]
\* Numbers in order, and (month, cell) pairs.
Ascending(S) == InOrder(S, <=)
SortedIndex(S) == InOrder(S, AtOrBefore)
===============================================================================
