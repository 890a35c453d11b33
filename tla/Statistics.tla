----------------------------- MODULE Statistics -----------------------------
(***************************************************************************)
(* The order and the statistics the tools share: Python's order of tuples, *)
(* math.ceil of a ratio, statistics.median, and the percentile of          *)
(* ghalo_analyze.py.  Results that may be fractions are returned scaled.   *)
(***************************************************************************)
EXTENDS Integers, Sequences, FiniteSets, SequencesExt, FiniteSetsExt

\* The lexicographic order of tuples of integers of one length.
Precedes(x, y) ==
  \E i \in 1 .. Len(x) : x[i] < y[i] /\ \A j \in 1 .. i - 1 : x[j] = y[j]

\* The elements of S in the order of Less, a strict total order on S.
Ordered(S, Less(_, _)) ==
  [i \in 1 .. Cardinality(S) |-> CHOOSE x \in S : Cardinality({y \in S : Less(y, x)}) = i - 1]

Ascending(S) == Ordered(S, <)

\* What the sequence has at these places, in its order.
Chosen(sequence, places) ==
  [k \in 1 .. Cardinality(places) |-> sequence[Ascending(places)[k]]]

CeilDiv(a, b) == (a + b - 1) \div b

\* The values ascending, equal ones in the order of their places.
Sorted(values) ==
  LET ranked == Ordered({<<values[i], i>> : i \in DOMAIN values}, Precedes)
  IN [k \in DOMAIN ranked |-> ranked[k][1]]

\* Twice the median.
MedianTwice(values) ==
  LET n == Len(values)
  IN Sorted(values)[(n + 1) \div 2] + Sorted(values)[(n + 2) \div 2]

\* 100 times the inclusive linear percentile of values, which are not empty.
Percentile100(values, percent) ==
  LET position == (Len(values) - 1) * percent
      lower == position \div 100
      weight == position % 100
  IN IF weight = 0 THEN 100 * Sorted(values)[lower + 1]
     ELSE (100 - weight) * Sorted(values)[lower + 1] + weight * Sorted(values)[lower + 2]

=============================================================================
