---------------------------- MODULE HaloExchange ----------------------------
(***************************************************************************)
(* The host-memory MPI backend's exchange (src/backends/mpi), called in a  *)
(* loop by every rank with no barrier between the calls, as                *)
(* time_exchanges does.                                                    *)
(*                                                                         *)
(* An exchange copies hoew to hins, makes two MPI_Sendrecv calls north and *)
(* south, copies hons to hiew, and makes two MPI_Sendrecv calls east and   *)
(* west.  Each call is three steps here: its send is posted (Send), its    *)
(* receive is matched (Receive), and it returns (Return).  MPI delivers    *)
(* the messages from one rank to another with one tag in order; a message  *)
(* sent eagerly lets its sender return at once, one sent by rendezvous     *)
(* holds its sender until the receiver has taken it.  Which tags are eager *)
(* depends on the halo length and on the MPI library, so it is a constant. *)
(*                                                                         *)
(* Data are abstracted to the rank whose setup filled the segment: setup   *)
(* fills hoew with the rank's own number.                                  *)
(***************************************************************************)
EXTENDS SendrecvCalls, Sequences

CONSTANTS
  Iterations,   \* exchanges every rank performs (bound of the model)
  EagerTags     \* tags whose messages MPI sends eagerly

ASSUME IterationsAssumption == Iterations \in Nat
ASSUME EagerTagsAssumption == EagerTags \subseteq Tag

VARIABLES
  iter,   \* iter[r]: exchanges rank r has completed
  pc,     \* pc[r]: the statement of exchange rank r is at
  call,   \* call[r]: how far the MPI_Sendrecv at pc[r] is
  hins,   \* hins[r][s]: input buffer of the north-south stage
  hons,   \* hons[r][s]: output buffer of the north-south stage
  hiew,   \* hiew[r][s]: input buffer of the east-west stage
  hoew,   \* hoew[r][s]: output buffer of the east-west stage
  chan    \* chan[r][t]: messages rank r has sent with tag t, not yet received

vars == <<iter, pc, call, hins, hons, hiew, hoew, chan>>

\* The contents of a buffer setup has zeroed: no rank's data.
Zero == <<-1, -1>>

Location == {"copy_in", "copy_across"} \cup Tag

CallState == {"ready", "posted", "received"}

Buffer == [Segment -> Rank \cup {Zero}]

TypeOK ==
  /\ iter \in [Rank -> 0 .. Iterations]
  /\ pc \in [Rank -> Location]
  /\ call \in [Rank -> CallState]
  /\ hins \in [Rank -> Buffer]
  /\ hons \in [Rank -> Buffer]
  /\ hiew \in [Rank -> Buffer]
  /\ hoew \in [Rank -> Buffer]
  /\ chan \in [Rank -> [Tag -> Seq(Rank \cup {Zero})]]

-----------------------------------------------------------------------------
SendBuffer(t, r) == IF NorthSouth(t) THEN hins[r] ELSE hiew[r]

After(t) ==
  CASE t = "9901" -> "9902"
    [] t = "9902" -> "copy_across"
    [] t = "9903" -> "9904"
    [] t = "9904" -> "copy_in"

-----------------------------------------------------------------------------
Init ==
  /\ iter = [r \in Rank |-> 0]
  /\ pc = [r \in Rank |-> "copy_in"]
  /\ call = [r \in Rank |-> "ready"]
  /\ hins = [r \in Rank |-> [s \in Segment |-> Zero]]
  /\ hons = [r \in Rank |-> [s \in Segment |-> Zero]]
  /\ hiew = [r \in Rank |-> [s \in Segment |-> Zero]]
  /\ hoew = [r \in Rank |-> [s \in Segment |-> r]]
  /\ chan = [r \in Rank |-> [t \in Tag |-> <<>>]]

\* std::copy(hoew_, hins_): the exchange starts.
CopyIn(r) ==
  /\ pc[r] = "copy_in"
  /\ iter[r] < Iterations
  /\ hins' = [hins EXCEPT ![r] = hoew[r]]
  /\ pc' = [pc EXCEPT ![r] = "9901"]
  /\ UNCHANGED <<iter, call, hons, hiew, hoew, chan>>

\* Fault: the east-west stage sends what is left of the last exchange.
CopyAcrossSkipped(r) ==
  /\ pc[r] = "copy_across"
  /\ pc' = [pc EXCEPT ![r] = "9903"]
  /\ UNCHANGED <<iter, call, hins, hons, hiew, hoew, chan>>

\* std::copy(hons_, hiew_), between the two stages.
CopyAcross(r) ==
  /\ pc[r] = "copy_across"
  /\ hiew' = [hiew EXCEPT ![r] = hons[r]]
  /\ pc' = [pc EXCEPT ![r] = "9903"]
  /\ UNCHANGED <<iter, call, hins, hons, hoew, chan>>

\* MPI_Sendrecv with tag t is called: its send is posted.
Send(r, t) ==
  /\ pc[r] = t
  /\ call[r] = "ready"
  /\ chan' = [chan EXCEPT ![r][t] = Append(@, SendBuffer(t, r)[SegmentOf(t)])]
  /\ call' = [call EXCEPT ![r] = "posted"]
  /\ UNCHANGED <<iter, pc, hins, hons, hiew, hoew>>

\* Fault: MPI_Send and MPI_Recv one after the other.
MayReceiveAfterSend(r, t) ==
  call[r] = "posted" /\ (t \in EagerTags \/ chan[r][t] = <<>>)

\* MPI_Sendrecv: the receive does not wait for the send.
MayReceive(r, t) == call[r] = "posted"

\* The receive of the call is matched with the oldest message of its source
\* and tag, and the data lands in the output buffer of the stage.
Receive(r, t) ==
  /\ pc[r] = t
  /\ MayReceive(r, t)
  /\ chan[Source(t, r)][t] # <<>>
  /\ LET data == Head(chan[Source(t, r)][t])
     IN  IF NorthSouth(t)
         THEN /\ hons' = [hons EXCEPT ![r][SegmentOf(t)] = data]
              /\ UNCHANGED hoew
         ELSE /\ hoew' = [hoew EXCEPT ![r][SegmentOf(t)] = data]
              /\ UNCHANGED hons
  /\ chan' = [chan EXCEPT ![Source(t, r)][t] = Tail(@)]
  /\ call' = [call EXCEPT ![r] = "received"]
  /\ UNCHANGED <<iter, pc, hins, hiew>>

\* Fault: the call does not wait for its receive.
MayReturnAtOnce(r, t) == call[r] # "ready"

\* The receive is complete, and so is the send, which under rendezvous means
\* that the receiver has taken the message.
MayReturn(r, t) ==
  call[r] = "received" /\ (t \in EagerTags \/ chan[r][t] = <<>>)

\* The call returns, and after the last one so does the exchange.
Return(r, t) ==
  /\ pc[r] = t
  /\ MayReturn(r, t)
  /\ pc' = [pc EXCEPT ![r] = After(t)]
  /\ call' = [call EXCEPT ![r] = "ready"]
  /\ iter' = IF t = "9904" THEN [iter EXCEPT ![r] = @ + 1] ELSE iter
  /\ UNCHANGED <<hins, hons, hiew, hoew, chan>>

Step(r) ==
  \/ CopyIn(r)
  \/ CopyAcross(r)
  \/ \E t \in Tag : Send(r, t) \/ Receive(r, t) \/ Return(r, t)

Finished == \A r \in Rank : iter[r] = Iterations

\* Every rank has left the loop; the system stops here and nowhere else.
Terminating == Finished /\ UNCHANGED vars

Next == (\E r \in Rank : Step(r)) \/ Terminating

Spec == Init /\ [][Next]_vars

\* Every rank is an operating-system process, and MPI progresses a blocking
\* call whose partner is in the matching call.
FairSpec == Spec /\ \A r \in Rank : WF_vars(Step(r))

-----------------------------------------------------------------------------
(***************************************************************************)
(* Properties.                                                             *)
(***************************************************************************)

\* After i exchanges a rank holds exactly the data that started i steps to
\* the north-east ("n") and i steps to the south-west ("2n").  Mixing two
\* exchanges, two directions or two segments, reading a buffer before it is
\* filled, or sending the wrong one all break it.  This is the transport
\* exchange() claims to perform.
HaloTransported ==
  \A r \in Rank : pc[r] = "copy_in" =>
    \A s \in Segment : hoew[r][s] = Origin(s, iter[r], r)

\* Ranks run ahead of each other with no barrier between exchanges and the
\* tags are the same in every exchange; yet a channel never holds two
\* messages, so a receive cannot match a message of another exchange.
OneMessagePerTag ==
  \A r \in Rank, t \in Tag : Len(chan[r][t]) <= 1

\* When every rank has left the loop no message is in flight: the next halo
\* length can reuse the tags with other message sizes.
NothingInFlight ==
  Finished => \A r \in Rank, t \in Tag : chan[r][t] = <<>>

\* The backend implements the promise of Backend::exchange.  A rank has
\* entered an exchange once it has copied its input, and what it sends is in
\* hoew between exchanges and in hins during one.
Contract == INSTANCE NeighborExchange WITH
  entered <- [r \in Rank |-> IF pc[r] = "copy_in" THEN iter[r] ELSE iter[r] + 1],
  left <- iter,
  halo <- [r \in Rank |-> IF pc[r] = "copy_in" THEN hoew[r] ELSE hins[r]]

ImplementsContract == Contract!Spec

\* Every rank completes all its exchanges, even when no message is eager and
\* on grids where a rank is its own neighbour.
Termination == <>Finished

=============================================================================
