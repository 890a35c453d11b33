------------------------------ MODULE CartDims ------------------------------
(***************************************************************************)
(* halo_compatible_dims, which every backend runs on the number of ranks   *)
(* before MPI_Cart_create.  It starts from a factor of 5 or 3 when the     *)
(* square of that factor divides the ranks, and then moves factors of two  *)
(* from the rows to the columns while the columns are too few.  The grid   *)
(* must use every rank: MPI_Cart_create gives MPI_COMM_NULL to the ranks a *)
(* smaller grid leaves out, and fails on a larger one.                     *)
(***************************************************************************)
EXTENDS Integers

CONSTANT MaxRanks   \* largest job considered (bound of the model)

ASSUME MaxRanksAssumption == MaxRanks \in Nat \ {0}

VARIABLES
  phase,       \* "start", "loop" or "done"
  ranks,       \* the argument
  cols,        \* columns so far
  remaining,   \* rows so far
  rows         \* the result's rows, 0 until it is computed

dimsVars == <<phase, ranks, cols, remaining, rows>>

DimsTypeOK ==
  /\ phase \in {"start", "loop", "done"}
  /\ ranks \in 1 .. MaxRanks
  /\ cols \in Nat \ {0}
  /\ remaining \in Nat \ {0}
  /\ IF phase = "done" THEN rows \in Nat \ {0} ELSE rows = 0

DimsInit ==
  /\ phase = "start"
  /\ ranks \in 1 .. MaxRanks
  /\ cols = 1
  /\ remaining = ranks
  /\ rows = 0

\* The initial factor: 5 when 25 divides the ranks, else 3 when 9 does.
TakeFactor ==
  /\ phase = "start"
  /\ LET factor == IF ranks % 25 = 0 THEN 5 ELSE IF ranks % 9 = 0 THEN 3 ELSE 1
     IN  /\ cols' = factor
         /\ remaining' = ranks \div factor
  /\ phase' = "loop"
  /\ UNCHANGED <<ranks, rows>>

\* Faults: the rows are not known to be even; the columns are not bounded.
MoreColumnsWhenOdd == cols * cols < ranks /\ remaining # 1
MoreColumnsWhenEven == remaining % 2 = 0 /\ remaining # 1

TooFewColumns ==
  /\ remaining % 2 = 0
  /\ cols * cols < ranks
  /\ remaining # 1

Halve ==
  /\ phase = "loop"
  /\ TooFewColumns
  /\ remaining' = remaining \div 2
  /\ cols' = cols * 2
  /\ UNCHANGED <<phase, ranks, rows>>

Divide ==
  /\ phase = "loop"
  /\ ~TooFewColumns
  /\ rows' = ranks \div cols
  /\ phase' = "done"
  /\ UNCHANGED <<ranks, cols, remaining>>

DimsNext == TakeFactor \/ Halve \/ Divide

DimsSpec == DimsInit /\ [][DimsNext]_dimsVars

-----------------------------------------------------------------------------
\* The grid has a place for every rank and a rank for every place.
GridUsesEveryRank == phase = "done" => rows * cols = ranks

\* The grid is never four times wider than it is high, and it is higher than
\* it is wide only when its height has no factor of two left to move.
NearlySquare ==
  phase = "done" => /\ cols < 4 * rows
                    /\ cols < rows => rows % 2 = 1

=============================================================================
