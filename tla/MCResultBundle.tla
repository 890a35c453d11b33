--------------------------- MODULE MCResultBundle ---------------------------
(***************************************************************************)
(* Model-checking instances of ResultBundle.  Runs a and b compute the     *)
(* same stem, c another one; a bundle with the stem of a is there from     *)
(* an earlier session.  In the first, a and b are one case of a suite and  *)
(* of the suite that follows it, c is a batch job of its own.              *)
(***************************************************************************)
EXTENDS ResultBundle

CONSTANTS a, b, c

ThreeRuns == {a, b, c}
TwoRuns == {a, b}
StemOfThree == [r \in ThreeRuns |-> IF r = c THEN "other" ELSE "same"]
StemOfTwo == [r \in TwoRuns |-> "same"]
BAfterA == [r \in ThreeRuns |-> IF r = b THEN {a} ELSE {}]
Concurrent == [r \in TwoRuns |-> {}]
OldOfThree == {<<"same", 1>>}
NoneOld == {}

=============================================================================
