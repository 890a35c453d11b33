---------------------------- MODULE HipExchange ----------------------------
(***************************************************************************)
(* The MPI-HIP backend's exchange (src/backends/mpi_hip), called in a loop *)
(* by every rank with no barrier between the calls.  Its buffers are in    *)
(* device memory, which HIP copies and MPI sends from and receives into.   *)
(*                                                                         *)
(* The two libraries do not see each other's work at once: what one of     *)
(* them has written since the last hipDeviceSynchronize of the rank is     *)
(* unsettled, and the other may read something else in its place.  A copy  *)
(* between device buffers that blocks until MPI can see it is the          *)
(* exception; whether hipMemcpy does so is a constant.                     *)
(*                                                                         *)
(* A segment that a rank would send to itself is copied on the device; the *)
(* others move by the MPI_Sendrecv calls of the host-memory backend.       *)
(***************************************************************************)
EXTENDS SendrecvCalls, Sequences

CONSTANTS
  Iterations,    \* exchanges every rank performs (bound of the model)
  EagerTags,     \* tags whose messages MPI sends eagerly
  BlockingCopy   \* whether MPI sees a copy once hipMemcpy has returned

ASSUME IterationsAssumption == Iterations \in Nat
ASSUME EagerTagsAssumption == EagerTags \subseteq Tag
ASSUME BlockingCopyAssumption == BlockingCopy \in BOOLEAN

Buffer == {"hins", "hons", "hiew", "hoew"}

VARIABLES
  iter,     \* iter[r]: exchanges rank r has completed
  pc,       \* pc[r]: the statement of perform_exchange rank r is at
  call,     \* call[r]: how far the MPI_Sendrecv at pc[r] is
  memory,   \* memory[r][b][s]: what was last written to a segment
  writer,   \* writer[r][b][s]: who wrote it, "none" once it is settled
  chan      \* chan[r][t]: messages rank r has sent with tag t, not received

vars == <<iter, pc, call, memory, writer, chan>>

\* What hipMalloc leaves in a buffer, and what a library may read in place of
\* a write of the other: no rank's data.
Garbage == <<-1, -1>>

Word == Rank \cup {Garbage}

Syncs == {"sync_input", "sync_north_south", "sync_transpose"}

Copies == {"copy_input", "copy_transpose"}

TypeOK ==
  /\ iter \in [Rank -> 0 .. Iterations]
  /\ pc \in [Rank -> Syncs \cup Copies \cup Tag]
  /\ call \in [Rank -> {"ready", "posted", "received"}]
  /\ memory \in [Rank -> [Buffer -> [Segment -> Word]]]
  /\ writer \in [Rank -> [Buffer -> [Segment -> {"none", "hip", "mpi"}]]]
  /\ chan \in [Rank -> [Tag -> Seq(Word)]]

-----------------------------------------------------------------------------
\* Fault: the copy across does not wait for the received data to settle.
NextUnsynchronized(p) ==
  CASE p = "sync_input" -> "copy_input"
    [] p = "copy_input" -> "9901"
    [] p = "9901" -> "9902"
    [] p = "9902" -> "copy_transpose"
    [] p = "sync_north_south" -> "copy_transpose"
    [] p = "copy_transpose" -> "sync_transpose"
    [] p = "sync_transpose" -> "9903"
    [] p = "9903" -> "9904"
    [] p = "9904" -> "sync_input"

\* Fault: the transpose copy is left out.
NextUntransposed(p) ==
  CASE p = "sync_input" -> "copy_input"
    [] p = "copy_input" -> "9901"
    [] p = "9901" -> "9902"
    [] p = "9902" -> "sync_north_south"
    [] p = "sync_north_south" -> "sync_transpose"
    [] p = "copy_transpose" -> "sync_transpose"
    [] p = "sync_transpose" -> "9903"
    [] p = "9903" -> "9904"
    [] p = "9904" -> "sync_input"

\* The statements of perform_exchange, in a cycle.
NextStatement(p) ==
  CASE p = "sync_input" -> "copy_input"
    [] p = "copy_input" -> "9901"
    [] p = "9901" -> "9902"
    [] p = "9902" -> "sync_north_south"
    [] p = "sync_north_south" -> "copy_transpose"
    [] p = "copy_transpose" -> "sync_transpose"
    [] p = "sync_transpose" -> "9903"
    [] p = "9903" -> "9904"
    [] p = "9904" -> "sync_input"

\* The rank goes on to its next statement; the last one ends the exchange.
Advance(r) ==
  /\ pc' = [pc EXCEPT ![r] = NextStatement(@)]
  /\ iter' = IF pc[r] = "9904" THEN [iter EXCEPT ![r] = @ + 1] ELSE iter

SendBuffer(t) == IF NorthSouth(t) THEN "hins" ELSE "hiew"

ReceiveBuffer(t) == IF NorthSouth(t) THEN "hons" ELSE "hoew"

\* use_local_copy_for_exchange_segment: the segment would go round to the
\* rank itself.
Local(t, r) == Dest(t, r) = r /\ Source(t, r) = r

\* What a library reads in a segment.
Readable(r, b, s, reader) ==
  IF \/ writer[r][b][s] \in {"none", reader}
     \/ reader = "mpi" /\ BlockingCopy
  THEN {memory[r][b][s]}
  ELSE {memory[r][b][s], Garbage}

-----------------------------------------------------------------------------
\* setup fills hoew and synchronizes; the other buffers are just allocated.
Init ==
  /\ iter = [r \in Rank |-> 0]
  /\ pc = [r \in Rank |-> "sync_input"]
  /\ call = [r \in Rank |-> "ready"]
  /\ memory = [r \in Rank |-> [b \in Buffer |-> [s \in Segment |->
                 IF b = "hoew" THEN r ELSE Garbage]]]
  /\ writer = [r \in Rank |-> [b \in Buffer |-> [s \in Segment |-> "none"]]]
  /\ chan = [r \in Rank |-> [t \in Tag |-> <<>>]]

\* hipDeviceSynchronize: before the first copy, after the north-south calls
\* and after the transpose copy.
Synchronize(r) ==
  /\ pc[r] \in Syncs
  /\ pc[r] = "sync_input" => iter[r] < Iterations
  /\ writer' = [writer EXCEPT ![r] =
                  [b \in Buffer |-> [s \in Segment |-> "none"]]]
  /\ Advance(r)
  /\ UNCHANGED <<call, memory, chan>>

\* hipMemcpy of a whole buffer: hoew to hins, or hons to hiew.
Copy(r, from, to) ==
  /\ \E n \in Readable(r, from, "n", "hip"),
        m \in Readable(r, from, "2n", "hip") :
       memory' = [memory EXCEPT ![r][to] =
                    [s \in Segment |-> IF s = "n" THEN n ELSE m]]
  /\ writer' = [writer EXCEPT ![r][to] = [s \in Segment |-> "hip"]]
  /\ Advance(r)
  /\ UNCHANGED <<call, chan>>

CopyInput(r) == pc[r] = "copy_input" /\ Copy(r, "hoew", "hins")

CopyTranspose(r) == pc[r] = "copy_transpose" /\ Copy(r, "hons", "hiew")

\* exchange_segment, of a segment that stays on the rank.
CopySegment(r, t) ==
  /\ pc[r] = t
  /\ Local(t, r)
  /\ \E data \in Readable(r, SendBuffer(t), SegmentOf(t), "hip") :
       memory' = [memory EXCEPT ![r][ReceiveBuffer(t)][SegmentOf(t)] = data]
  /\ writer' = [writer EXCEPT ![r][ReceiveBuffer(t)][SegmentOf(t)] = "hip"]
  /\ Advance(r)
  /\ UNCHANGED <<call, chan>>

\* exchange_segment, of any other: MPI_Sendrecv posts its send, ...
Send(r, t) ==
  /\ pc[r] = t
  /\ call[r] = "ready"
  /\ ~Local(t, r)
  /\ \E data \in Readable(r, SendBuffer(t), SegmentOf(t), "mpi") :
       chan' = [chan EXCEPT ![r][t] = Append(@, data)]
  /\ call' = [call EXCEPT ![r] = "posted"]
  /\ UNCHANGED <<iter, pc, memory, writer>>

\* ... takes the oldest message of its source and tag, ...
Receive(r, t) ==
  /\ pc[r] = t
  /\ call[r] = "posted"
  /\ chan[Source(t, r)][t] # <<>>
  /\ memory' = [memory EXCEPT ![r][ReceiveBuffer(t)][SegmentOf(t)] =
                  Head(chan[Source(t, r)][t])]
  /\ writer' = [writer EXCEPT ![r][ReceiveBuffer(t)][SegmentOf(t)] = "mpi"]
  /\ chan' = [chan EXCEPT ![Source(t, r)][t] = Tail(@)]
  /\ call' = [call EXCEPT ![r] = "received"]
  /\ UNCHANGED <<iter, pc>>

\* ... and returns when its send is complete too.
Return(r, t) ==
  /\ pc[r] = t
  /\ call[r] = "received"
  /\ t \in EagerTags \/ chan[r][t] = <<>>
  /\ call' = [call EXCEPT ![r] = "ready"]
  /\ Advance(r)
  /\ UNCHANGED <<memory, writer, chan>>

Step(r) ==
  \/ Synchronize(r)
  \/ CopyInput(r)
  \/ CopyTranspose(r)
  \/ \E t \in Tag : CopySegment(r, t) \/ Send(r, t) \/ Receive(r, t) \/ Return(r, t)

Finished == \A r \in Rank : iter[r] = Iterations

Terminating == Finished /\ UNCHANGED vars

Next == (\E r \in Rank : Step(r)) \/ Terminating

Spec == Init /\ [][Next]_vars

-----------------------------------------------------------------------------
(***************************************************************************)
(* Properties.                                                             *)
(***************************************************************************)

\* HIP never copies what MPI has received since the last synchronization: not
\* from hoew at the start of the next exchange, not from hons to hiew, and not
\* where a segment stays on the rank.
DeviceReadsSettled ==
  \A r \in Rank, s \in Segment :
    /\ pc[r] = "copy_input" => writer[r]["hoew"][s] # "mpi"
    /\ pc[r] = "copy_transpose" => writer[r]["hons"][s] # "mpi"
    /\ \A t \in Tag : pc[r] = t /\ Local(t, r) =>
         writer[r][SendBuffer(t)][SegmentOf(t)] # "mpi"

\* MPI never sends what HIP has written since the last synchronization: the
\* mitigation docs/GPU_AWARE_MPI_DESIGN.md:521 gives for GPU work racing MPI.
MPIReadsSettled ==
  \A r \in Rank, t \in Tag :
    pc[r] = t /\ call[r] = "ready" /\ ~Local(t, r) =>
      writer[r][SendBuffer(t)][SegmentOf(t)] # "hip"

\* When hipMemcpy blocks, the backend implements the promise of
\* Backend::exchange, whichever segments are messages and whichever are local
\* copies: no rank ever sends or copies what another library's view of the
\* memory made of its data.
Contract == INSTANCE NeighborExchange WITH
  entered <- [r \in Rank |-> IF pc[r] = "sync_input" THEN iter[r] ELSE iter[r] + 1],
  left <- iter,
  halo <- [r \in Rank |-> IF pc[r] \in {"sync_input", "copy_input"}
                          THEN memory[r]["hoew"] ELSE memory[r]["hins"]]

ImplementsContract == Contract!Spec

=============================================================================
