------------------------------ MODULE Topology ------------------------------
(***************************************************************************)
(* The periodic two-dimensional Cartesian grid every backend builds in     *)
(* initialize_topology.  MPI_Cart_create is called without reordering, so  *)
(* a rank is identified here by its coordinates; RankNumber gives the      *)
(* row-major number MPI assigns to them.                                   *)
(***************************************************************************)
EXTENDS Integers

CONSTANTS
  Rows,   \* dims[0] of the Cartesian communicator
  Cols    \* dims[1] of the Cartesian communicator

ASSUME GridAssumption == Rows \in Nat \ {0} /\ Cols \in Nat \ {0}

Rank == (0 .. Rows - 1) \X (0 .. Cols - 1)

RankNumber(r) == r[1] * Cols + r[2]

\* The root that gathers, prints and writes is MPI rank 0.
Root == <<0, 0>>

-----------------------------------------------------------------------------
(***************************************************************************)
(* The four neighbours.  North is the next row, south the previous one.    *)
(* On a grid with one or two rows north and south are the same rank (and   *)
(* likewise east and west), which is what makes the tags matter.           *)
(***************************************************************************)
North(r) == <<(r[1] + 1) % Rows, r[2]>>
South(r) == <<(r[1] + Rows - 1) % Rows, r[2]>>
East(r)  == <<r[1], (r[2] + 1) % Cols>>
West(r)  == <<r[1], (r[2] + Cols - 1) % Cols>>

\* The ranks whose progress an exchange of r can depend on: the four
\* neighbours and, through the second stage, the four diagonal ones.
Around(r) == {North(r), South(r), East(r), West(r),
              North(East(r)), South(East(r)), North(West(r)), South(West(r))}

-----------------------------------------------------------------------------
(***************************************************************************)
(* Every halo buffer has 3N words, exchanged as one segment of N words and *)
(* one of 2N words.  The "n" segment moves from the north-east on every    *)
(* exchange and the "2n" segment from the south-west, so after i exchanges *)
(* the data of Origin(s, i, r) is in segment s of rank r.                  *)
(***************************************************************************)
Segment == {"n", "2n"}

Origin(s, i, r) ==
  IF s = "n" THEN <<(r[1] + i) % Rows, (r[2] + i) % Cols>>
             ELSE <<(r[1] - i) % Rows, (r[2] - i) % Cols>>

=============================================================================
