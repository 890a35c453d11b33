-------------------------- MODULE NeighborExchange --------------------------
(***************************************************************************)
(* What Backend::exchange promises to the benchmark, whatever moves the    *)
(* data: a rank may be inside at most one exchange; it leaves exchange i   *)
(* only after all the ranks around it have entered exchange i; and the     *)
(* output buffer it leaves with holds, in each segment, the data that has  *)
(* travelled one more step across the grid.  There is no global barrier:   *)
(* ranks that are far apart may be several exchanges apart.                *)
(***************************************************************************)
EXTENDS Topology

CONSTANT Iterations   \* exchanges every rank performs, a natural

VARIABLES
  entered,   \* entered[r]: exchanges rank r has started
  left,      \* left[r]: exchanges rank r has completed
  halo       \* halo[r]: the halo rank r will send next, by segment

vars == <<entered, left, halo>>

Init ==
  /\ entered = [r \in Rank |-> 0]
  /\ left = [r \in Rank |-> 0]
  /\ halo = [r \in Rank |-> [s \in Segment |-> r]]

Enter(r) ==
  /\ entered[r] = left[r]
  /\ entered[r] < Iterations
  /\ entered' = [entered EXCEPT ![r] = @ + 1]
  /\ UNCHANGED <<left, halo>>

Leave(r) ==
  /\ left[r] < entered[r]
  /\ \A q \in Around(r) : entered[q] >= entered[r]
  /\ left' = [left EXCEPT ![r] = @ + 1]
  /\ halo' = [halo EXCEPT ![r] = [s \in Segment |-> Origin(s, left[r] + 1, r)]]
  /\ UNCHANGED entered

Next == \E r \in Rank : Enter(r) \/ Leave(r)

Spec == Init /\ [][Next]_vars

FairSpec == Spec /\ \A r \in Rank : WF_vars(Enter(r) \/ Leave(r))

=============================================================================
