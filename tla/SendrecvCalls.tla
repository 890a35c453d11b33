--------------------------- MODULE SendrecvCalls ---------------------------
(***************************************************************************)
(* The four MPI_Sendrecv calls of an exchange, the same in the host-memory *)
(* and in the MPI-HIP backend: by tag, the segment each one moves, where   *)
(* it sends and where it receives from.                                    *)
(***************************************************************************)
EXTENDS Topology

Tag == {"9901", "9902", "9903", "9904"}

SegmentOf(t) == IF t \in {"9901", "9903"} THEN "n" ELSE "2n"

Dest(t, r) ==
  CASE t = "9901" -> South(r)
    [] t = "9902" -> North(r)
    [] t = "9903" -> West(r)
    [] t = "9904" -> East(r)

Source(t, r) ==
  CASE t = "9901" -> North(r)
    [] t = "9902" -> South(r)
    [] t = "9903" -> East(r)
    [] t = "9904" -> West(r)

NorthSouth(t) == t \in {"9901", "9902"}

=============================================================================
