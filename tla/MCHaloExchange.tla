--------------------------- MODULE MCHaloExchange ---------------------------
(***************************************************************************)
(* The model-checking instance of HaloExchange: a 2x2 grid, where the two  *)
(* neighbours of a dimension are one rank.                                 *)
(***************************************************************************)
EXTENDS HaloExchange

\* MPI buffers the short segments and not the long ones.
ShortTags == {"9901", "9903"}

=============================================================================
