---------------------------- MODULE RcclExchange ----------------------------
(***************************************************************************)
(* The RCCL backend's exchange, called in a loop by every rank with no     *)
(* barrier between the calls.                                              *)
(*                                                                         *)
(* The host enqueues four operations on its device's stream: copy hoew to  *)
(* hins, a group of two sends and two receives north and south, copy hons  *)
(* to hiew, and a group east and west.  In conservative mode the host      *)
(* synchronises with the stream after each, in stream-ordered mode once at *)
(* the end.  The device executes its stream in order.  RCCL messages carry *)
(* no tag: what one rank sends another is received in the order in which   *)
(* the calls were issued, so on a grid where north and south (or east and  *)
(* west) are the same rank the issue order alone pairs sends and receives. *)
(* Calls of one group to different peers progress independently.           *)
(*                                                                         *)
(* A halo word is abstracted to the segment it was sent as and the rank    *)
(* that filled it; the state modelled starts after fill_rank, the last     *)
(* step of a validation.  A halo length is positive.                       *)
(***************************************************************************)
EXTENDS Topology, SequencesExt

CONSTANTS
  Iterations,   \* exchanges every rank performs (bound of the model)
  Settings      \* the pairs of an --rccl-sync-mode and whether RCCL completes
                \* a send before it is received

ASSUME IterationsAssumption == Iterations \in Nat
ASSUME SettingsAssumption ==
  Settings \subseteq {"conservative", "stream_ordered"} \X BOOLEAN

Copies == {"copy_in", "copy_across"}
Groups == {"north_south", "east_west"}

VARIABLES
  syncMode,  \* the option of the job
  buffered,  \* what RCCL does with a send
  iter,      \* iter[r]: exchanges rank r has completed
  at,        \* at[r]: index of the host's next statement
  stream,    \* stream[r]: operations enqueued and not complete, oldest first
  running,   \* running[r]: whether the group at the head has been launched
  pending,   \* pending[r]: calls of that group that have not progressed
  wire,      \* wire[p][r]: messages from p to r, not yet received
  hins, hons, hiew, hoew   \* the four buffers, by rank and segment

setting == <<syncMode, buffered>>
vars == <<setting, iter, at, stream, running, pending, wire,
          hins, hons, hiew, hoew>>

Zero == <<"none", <<-1, -1>>>>     \* the contents of a new buffer

Word == (Segment \X Rank) \cup {Zero}

Buffer == [Segment -> Word]

-----------------------------------------------------------------------------
\* The host's statements of one exchange.
Program ==
  IF syncMode = "conservative"
  THEN <<"copy_in", "sync", "north_south", "sync",
         "copy_across", "sync", "east_west", "sync">>
  ELSE <<"copy_in", "north_south", "copy_across", "east_west", "sync">>

\* Fault: the receives of a group are issued in the other order.
CallsReceiving2NFirst(op, r) ==
  LET fore == IF op = "north_south" THEN North(r) ELSE East(r)
      back == IF op = "north_south" THEN South(r) ELSE West(r)
  IN  <<[kind |-> "send", seg |-> "n",  peer |-> back],
        [kind |-> "recv", seg |-> "2n", peer |-> back],
        [kind |-> "send", seg |-> "2n", peer |-> fore],
        [kind |-> "recv", seg |-> "n",  peer |-> fore]>>

\* Fault: a group sends both segments the same way.
CallsSendingBothBack(op, r) ==
  LET fore == IF op = "north_south" THEN North(r) ELSE East(r)
      back == IF op = "north_south" THEN South(r) ELSE West(r)
  IN  <<[kind |-> "send", seg |-> "n",  peer |-> back],
        [kind |-> "recv", seg |-> "n",  peer |-> fore],
        [kind |-> "send", seg |-> "2n", peer |-> back],
        [kind |-> "recv", seg |-> "2n", peer |-> back]>>

\* The calls of a group, in issue order.
Calls(op, r) ==
  LET fore == IF op = "north_south" THEN North(r) ELSE East(r)
      back == IF op = "north_south" THEN South(r) ELSE West(r)
  IN  <<[kind |-> "send", seg |-> "n",  peer |-> back],
        [kind |-> "recv", seg |-> "n",  peer |-> fore],
        [kind |-> "send", seg |-> "2n", peer |-> fore],
        [kind |-> "recv", seg |-> "2n", peer |-> back]>>

TypeOK ==
  /\ setting \in Settings
  /\ iter \in [Rank -> 0 .. Iterations]
  /\ at \in [Rank -> 1 .. Len(Program)]
  /\ stream \in [Rank -> Seq(Copies \cup Groups)]
  /\ running \in [Rank -> BOOLEAN]
  /\ pending \in [Rank -> SUBSET (1 .. 4)]
  /\ wire \in [Rank -> [Rank -> Seq(Word)]]
  /\ \A b \in {hins, hons, hiew, hoew} : b \in [Rank -> Buffer]

Init ==
  /\ \E s \in Settings : syncMode = s[1] /\ buffered = s[2]
  /\ iter = [r \in Rank |-> 0]
  /\ at = [r \in Rank |-> 1]
  /\ stream = [r \in Rank |-> <<>>]
  /\ running = [r \in Rank |-> FALSE]
  /\ pending = [r \in Rank |-> {}]
  /\ wire = [p \in Rank |-> [r \in Rank |-> <<>>]]
  /\ hins = [r \in Rank |-> [s \in Segment |-> Zero]]
  /\ hons = [r \in Rank |-> [s \in Segment |-> Zero]]
  /\ hiew = [r \in Rank |-> [s \in Segment |-> Zero]]
  /\ hoew = [r \in Rank |-> [s \in Segment |-> <<s, r>>]]

-----------------------------------------------------------------------------
(***************************************************************************)
(* The host.                                                               *)
(***************************************************************************)
Enqueue(r) ==
  /\ Program[at[r]] # "sync"
  /\ at[r] = 1 => iter[r] < Iterations
  /\ stream' = [stream EXCEPT ![r] = Append(@, Program[at[r]])]
  /\ at' = [at EXCEPT ![r] = @ + 1]
  /\ UNCHANGED <<setting, iter, running, pending, wire,
                 hins, hons, hiew, hoew>>

\* Fault: the stream has work left when the exchange returns.
DrainedSkipped(r) == TRUE

Drained(r) == stream[r] = <<>>

\* hipStreamSynchronize returns; after the last one so does the exchange.
Synchronize(r) ==
  /\ Program[at[r]] = "sync"
  /\ Drained(r)
  /\ at' = [at EXCEPT ![r] = (@ % Len(Program)) + 1]
  /\ iter' = IF at[r] = Len(Program) THEN [iter EXCEPT ![r] = @ + 1] ELSE iter
  /\ UNCHANGED <<setting, stream, running, pending, wire,
                 hins, hons, hiew, hoew>>

-----------------------------------------------------------------------------
(***************************************************************************)
(* The device and the RCCL library.                                        *)
(***************************************************************************)
AtHead(r, ops) == stream[r] # <<>> /\ Head(stream[r]) \in ops

Copy(r) ==
  /\ AtHead(r, Copies)
  /\ IF Head(stream[r]) = "copy_in"
     THEN hins' = [hins EXCEPT ![r] = hoew[r]] /\ UNCHANGED hiew
     ELSE hiew' = [hiew EXCEPT ![r] = hons[r]] /\ UNCHANGED hins
  /\ stream' = [stream EXCEPT ![r] = Tail(@)]
  /\ UNCHANGED <<setting, iter, at, running, pending, wire, hons, hoew>>

Launch(r) ==
  /\ AtHead(r, Groups)
  /\ ~running[r]
  /\ running' = [running EXCEPT ![r] = TRUE]
  /\ pending' = [pending EXCEPT ![r] = DOMAIN Calls(Head(stream[r]), r)]
  /\ UNCHANGED <<setting, iter, at, stream, wire, hins, hons, hiew, hoew>>

\* Fault: the calls are not grouped, and each waits for the one before it.
ReadyUngrouped(r, i) ==
  /\ i \in pending[r]
  /\ \A j \in pending[r] : i <= j
  /\ buffered \/ \A p \in Rank : wire[r][p] = <<>>

\* Call i of the running group may progress: no call before it, to the same
\* peer and of the same kind, is pending.
Ready(r, i) ==
  LET calls == Calls(Head(stream[r]), r)
  IN  /\ i \in pending[r]
      /\ \A j \in pending[r] : j < i => \/ calls[j].peer # calls[i].peer
                                        \/ calls[j].kind # calls[i].kind

\* The buffer the running group sends from.
SendFrom(r) == IF Head(stream[r]) = "north_south" THEN hins[r] ELSE hiew[r]

Transmit(r, i) ==
  /\ running[r]
  /\ Ready(r, i)
  /\ LET c == Calls(Head(stream[r]), r)[i]
     IN  /\ c.kind = "send"
         /\ wire' = [wire EXCEPT ![r][c.peer] =
                       Append(@, <<c.seg, SendFrom(r)[c.seg][2]>>)]
  /\ pending' = [pending EXCEPT ![r] = @ \ {i}]
  /\ UNCHANGED <<setting, iter, at, stream, running, hins, hons, hiew, hoew>>

Deliver(r, i) ==
  /\ running[r]
  /\ Ready(r, i)
  /\ LET c == Calls(Head(stream[r]), r)[i]
         m == Head(wire[c.peer][r])
     IN  /\ c.kind = "recv"
         /\ wire[c.peer][r] # <<>>
         /\ IF Head(stream[r]) = "north_south"
            THEN hons' = [hons EXCEPT ![r][c.seg] = m] /\ UNCHANGED hoew
            ELSE hoew' = [hoew EXCEPT ![r][c.seg] = m] /\ UNCHANGED hons
         /\ wire' = [wire EXCEPT ![c.peer][r] = Tail(@)]
  /\ pending' = [pending EXCEPT ![r] = @ \ {i}]
  /\ UNCHANGED <<setting, iter, at, stream, running, hins, hiew>>

\* The group is complete: all its calls have progressed and, unless RCCL
\* buffers them, the peers have taken what it sent.
Complete(r) ==
  /\ running[r]
  /\ pending[r] = {}
  /\ buffered \/ \A p \in Rank : wire[r][p] = <<>>
  /\ running' = [running EXCEPT ![r] = FALSE]
  /\ stream' = [stream EXCEPT ![r] = Tail(@)]
  /\ UNCHANGED <<setting, iter, at, pending, wire,
                 hins, hons, hiew, hoew>>

-----------------------------------------------------------------------------
Host(r) == Enqueue(r) \/ Synchronize(r)

Device(r) ==
  \/ Copy(r)
  \/ Launch(r)
  \/ \E i \in 1 .. 4 : Transmit(r, i) \/ Deliver(r, i)
  \/ Complete(r)

Finished == \A r \in Rank : iter[r] = Iterations

Terminating == Finished /\ UNCHANGED vars

Next == (\E r \in Rank : Host(r) \/ Device(r)) \/ Terminating

Spec == Init /\ [][Next]_vars

\* Hosts are processes, and a device keeps executing its stream whatever its
\* host does.
FairSpec == Spec /\ \A r \in Rank : WF_vars(Host(r)) /\ WF_vars(Device(r))

-----------------------------------------------------------------------------
(***************************************************************************)
(* Properties.                                                             *)
(***************************************************************************)
Idle(r) == at[r] = 1

\* Between exchanges each segment holds the data that started i steps away,
\* still as the segment it was sent as: an N-word receive never takes a
\* 2N-word message, with nothing but the issue order of enqueue_north_south
\* and enqueue_east_west to pair them when the two peers are one rank.
HaloTransported ==
  \A r \in Rank : Idle(r) =>
    \A s \in Segment : hoew[r][s] = <<s, Origin(s, iter[r], r)>>

\* How many segments of one stage go from p to r: two on a grid where both
\* neighbours of the dimension are r.
SegmentsTo(p, r) ==
  LET Stage(back, fore) ==
        Cardinality({s \in Segment : r = IF s = "n" THEN back ELSE fore})
  IN  Max({Stage(South(p), North(p)), Stage(West(p), East(p))})

\* A rank runs ahead of a peer by one group at most: on a wire there are
\* never more than the messages of two groups, and of one when RCCL does not
\* complete a send before it is received.
WireBounded ==
  \A p, r \in Rank :
    Len(wire[p][r]) <= (IF buffered THEN 2 ELSE 1) * SegmentsTo(p, r)

\* Both modes implement the promise of Backend::exchange.  What a rank sends
\* is in hoew until the device has copied it to hins.
Contract == INSTANCE NeighborExchange WITH
  entered <- [r \in Rank |-> IF Idle(r) THEN iter[r] ELSE iter[r] + 1],
  left <- iter,
  halo <- [r \in Rank |->
             [s \in Segment |->
                IF Idle(r) \/ Contains(stream[r], "copy_in")
                THEN hoew[r][s][2] ELSE hins[r][s][2]]]

ImplementsContract == Contract!Spec

\* Every rank completes all its exchanges: no group waits for ever for a peer
\* whose stream is behind or whose host is waiting in a synchronisation.
Termination == <>Finished

=============================================================================
