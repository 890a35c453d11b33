------------------------- MODULE HipExchangeProofs -------------------------
(***************************************************************************)
(* Safety of the MPI-HIP exchange for every grid, every number of          *)
(* iterations and every choice of eager tags.                              *)
(*                                                                         *)
(* Between the rank and its memory, SettledInv says that MPI writes only   *)
(* the two output buffers and that the copies read them right after a      *)
(* synchronization.  Between ranks the argument is that of                 *)
(* HaloExchangeProofs: Posted and Received count the calls behind a rank,  *)
(* and a channel holds their difference.  A segment copied on the device   *)
(* counts as posted and received at once.                                  *)
(***************************************************************************)
EXTENDS HipExchange, ExchangeTheorems

Index(p) ==
  CASE p = "sync_input" -> 0
    [] p = "copy_input" -> 1
    [] p = "9901" -> 2
    [] p = "9902" -> 3
    [] p = "sync_north_south" -> 4
    [] p = "copy_transpose" -> 5
    [] p = "sync_transpose" -> 6
    [] p = "9903" -> 7
    [] p = "9904" -> 8

\* Whether rank r has sent, or received, or copied, its segment of tag t in
\* the exchange it is in.
Started(r, t) == Index(pc[r]) > Index(t) \/ (pc[r] = t /\ call[r] # "ready")

Done(r, t) == Index(pc[r]) > Index(t) \/ (pc[r] = t /\ call[r] = "received")

\* The segments of tag t that rank r has sent, and that it has received.
Posted(r, t) == IF Started(r, t) THEN iter[r] + 1 ELSE iter[r]

Received(r, t) == IF Done(r, t) THEN iter[r] + 1 ELSE iter[r]

ControlInv ==
  \A r \in Rank :
    /\ call[r] # "ready" => pc[r] \in Tag /\ ~Local(pc[r], r)
    /\ pc[r] # "sync_input" => iter[r] < Iterations

SettledInv ==
  \A r \in Rank, s \in Segment :
    /\ writer[r]["hins"][s] # "mpi" /\ writer[r]["hiew"][s] # "mpi"
    /\ pc[r] = "copy_input" => writer[r]["hoew"][s] # "mpi"
    /\ pc[r] = "copy_transpose" => writer[r]["hons"][s] # "mpi"

LocalInv == TypeOK /\ ControlInv /\ SettledInv

-----------------------------------------------------------------------------
(***************************************************************************)
(* One rank and its memory.                                                *)
(***************************************************************************)
Location == Syncs \cup Copies \cup Tag

LEMMA NextStatementType ==
  ASSUME NEW p \in Location
  PROVE  NextStatement(p) \in Location
BY DEF NextStatement, Location, Syncs, Copies, Tag

LEMMA SegmentType ==
  ASSUME NEW t \in Tag
  PROVE  /\ SegmentOf(t) \in Segment
         /\ SendBuffer(t) \in Buffer /\ ReceiveBuffer(t) \in Buffer
         /\ SendBuffer(t) \in {"hins", "hiew"}
         /\ ReceiveBuffer(t) \in {"hons", "hoew"}
BY DEF Tag, SegmentOf, Segment, SendBuffer, ReceiveBuffer, Buffer, NorthSouth

\* What is read in a segment is a word.
LEMMA ReadableType ==
  ASSUME TypeOK, NEW r \in Rank, NEW b \in Buffer, NEW s \in Segment, NEW who
  PROVE  Readable(r, b, s, who) \subseteq Word
BY DEF TypeOK, Readable, Word

\* Going to the next statement of an exchange that may be performed.
LEMMA AdvanceType ==
  ASSUME TypeOK, ControlInv, NEW r \in Rank, Advance(r),
         iter[r] < Iterations
  PROVE  /\ iter' \in [Rank -> 0 .. Iterations]
         /\ pc' \in [Rank -> Location]
<1>1. pc[r] \in Location /\ iter[r] \in 0 .. Iterations
  BY DEF TypeOK, Location
<1>2. NextStatement(pc[r]) \in Location
  BY <1>1, NextStatementType
<1>3. iter[r] + 1 \in 0 .. Iterations
  BY <1>1, IterationsAssumption
<1> QED BY <1>2, <1>3 DEF Advance, TypeOK, Location

\* Where a rank advances, it is in an exchange it may perform.
LEMMA MayAdvance ==
  ASSUME TypeOK, ControlInv, NEW r \in Rank,
         \/ Synchronize(r)
         \/ CopyInput(r)
         \/ CopyTranspose(r)
         \/ \E t \in Tag : CopySegment(r, t) \/ Return(r, t)
  PROVE  iter[r] < Iterations /\ Advance(r)
BY DEF ControlInv, Synchronize, CopyInput, CopyTranspose, Copy, CopySegment,
       Return, Tag

LEMMA CopyType ==
  ASSUME TypeOK, NEW r \in Rank, NEW from \in Buffer, NEW to \in Buffer,
         Copy(r, from, to)
  PROVE  /\ memory' \in [Rank -> [Buffer -> [Segment -> Word]]]
         /\ writer' \in [Rank -> [Buffer -> [Segment -> {"none", "hip", "mpi"}]]]
<1>1. PICK n \in Readable(r, from, "n", "hip"), m \in Readable(r, from, "2n", "hip") :
        memory' = [memory EXCEPT ![r][to] =
                     [s \in Segment |-> IF s = "n" THEN n ELSE m]]
  BY DEF Copy
<1>2. n \in Word /\ m \in Word
  BY <1>1, ReadableType DEF Segment
<1>3. [s \in Segment |-> IF s = "n" THEN n ELSE m] \in [Segment -> Word]
  BY <1>2
<1>4. [s \in Segment |-> "hip"] \in [Segment -> {"none", "hip", "mpi"}]
  OBVIOUS
<1>5. writer' = [writer EXCEPT ![r][to] = [s \in Segment |-> "hip"]]
  BY DEF Copy
<1> QED BY <1>1, <1>3, <1>4, <1>5 DEF TypeOK

\* Every step of a rank preserves the types of all variables.
LEMMA StepType ==
  ASSUME TypeOK, ControlInv, NEW r \in Rank, Step(r)
  PROVE  TypeOK'
<1>1. CASE Synchronize(r)
  <2>1. iter' \in [Rank -> 0 .. Iterations] /\ pc' \in [Rank -> Location]
    BY <1>1, MayAdvance, AdvanceType
  <2>2. writer' \in [Rank -> [Buffer -> [Segment -> {"none", "hip", "mpi"}]]]
    BY <1>1 DEF Synchronize, TypeOK
  <2> QED BY <1>1, <2>1, <2>2 DEF Synchronize, TypeOK, Location
<1>2. CASE CopyInput(r) \/ CopyTranspose(r)
  <2>1. iter' \in [Rank -> 0 .. Iterations] /\ pc' \in [Rank -> Location]
    BY <1>2, MayAdvance, AdvanceType
  <2>2. /\ memory' \in [Rank -> [Buffer -> [Segment -> Word]]]
        /\ writer' \in [Rank -> [Buffer -> [Segment -> {"none", "hip", "mpi"}]]]
    BY <1>2, CopyType DEF CopyInput, CopyTranspose, Buffer
  <2>3. UNCHANGED <<call, chan>>
    BY <1>2 DEF CopyInput, CopyTranspose, Copy
  <2> QED BY <2>1, <2>2, <2>3 DEF TypeOK, Location
<1>3. ASSUME NEW t \in Tag, CopySegment(r, t)
      PROVE  TypeOK'
  <2>1. iter' \in [Rank -> 0 .. Iterations] /\ pc' \in [Rank -> Location]
    BY <1>3, MayAdvance, AdvanceType
  <2>2. PICK data \in Readable(r, SendBuffer(t), SegmentOf(t), "hip") :
          memory' = [memory EXCEPT ![r][ReceiveBuffer(t)][SegmentOf(t)] = data]
    BY <1>3 DEF CopySegment
  <2>3. data \in Word
    BY <2>2, ReadableType, SegmentType
  <2>4. memory' \in [Rank -> [Buffer -> [Segment -> Word]]]
    BY <2>2, <2>3, SegmentType DEF TypeOK
  <2>5. writer' \in [Rank -> [Buffer -> [Segment -> {"none", "hip", "mpi"}]]]
    BY <1>3, SegmentType DEF CopySegment, TypeOK
  <2> QED BY <1>3, <2>1, <2>4, <2>5 DEF CopySegment, TypeOK, Location
<1>4. ASSUME NEW t \in Tag, Send(r, t)
      PROVE  TypeOK'
  <2>1. PICK data \in Readable(r, SendBuffer(t), SegmentOf(t), "mpi") :
          chan' = [chan EXCEPT ![r][t] = Append(@, data)]
    BY <1>4 DEF Send
  <2>2. data \in Word
    BY <2>1, ReadableType, SegmentType
  <2>3. chan' \in [Rank -> [Tag -> Seq(Word)]]
    BY <2>1, <2>2 DEF TypeOK
  <2> QED BY <1>4, <2>3 DEF Send, TypeOK
<1>5. ASSUME NEW t \in Tag, Receive(r, t)
      PROVE  TypeOK'
  <2> DEFINE c == chan[Source(t, r)][t]
  <2>1. Source(t, r) \in Rank
    BY DestSource
  <2>2. c \in Seq(Word) /\ c # <<>>
    BY <1>5, <2>1 DEF Receive, TypeOK
  <2>3. Head(c) \in Word /\ Tail(c) \in Seq(Word)
    <3> HIDE DEF c
    <3> QED BY <2>2
  <2>4. chan' \in [Rank -> [Tag -> Seq(Word)]]
    BY <1>5, <2>1, <2>3 DEF Receive, TypeOK
  <2>5. memory' \in [Rank -> [Buffer -> [Segment -> Word]]]
    BY <1>5, <2>3, SegmentType DEF Receive, TypeOK
  <2>6. writer' \in [Rank -> [Buffer -> [Segment -> {"none", "hip", "mpi"}]]]
    BY <1>5, SegmentType DEF Receive, TypeOK
  <2> QED BY <1>5, <2>4, <2>5, <2>6 DEF Receive, TypeOK
<1>6. ASSUME NEW t \in Tag, Return(r, t)
      PROVE  TypeOK'
  <2>1. iter' \in [Rank -> 0 .. Iterations] /\ pc' \in [Rank -> Location]
    BY <1>6, MayAdvance, AdvanceType
  <2> QED BY <1>6, <2>1 DEF Return, TypeOK, Location
<1> QED BY <1>1, <1>2, <1>3, <1>4, <1>5, <1>6 DEF Step

\* No call is in progress outside the four calls, or where the segment stays
\* on the rank, and a rank is inside an exchange it may perform.
LEMMA StepControl ==
  ASSUME TypeOK, ControlInv, NEW r \in Rank, Step(r)
  PROVE  ControlInv'
<1> SUFFICES ASSUME NEW q \in Rank
             PROVE  /\ (call[q] # "ready" => pc[q] \in Tag /\ ~Local(pc[q], q))'
                    /\ (pc[q] # "sync_input" => iter[q] < Iterations)'
  BY DEF ControlInv
<1>1. CASE q # r
  <2>1. iter'[q] = iter[q] /\ pc'[q] = pc[q] /\ call'[q] = call[q]
    BY <1>1 DEF Step, Synchronize, CopyInput, CopyTranspose, Copy, CopySegment,
                Send, Receive, Return, Advance, TypeOK
  <2> QED BY <2>1 DEF ControlInv, Local, Dest, Source
<1>2. CASE q = r
  <2>1. CASE \/ Synchronize(r) \/ CopyInput(r) \/ CopyTranspose(r)
             \/ \E t \in Tag : CopySegment(r, t) \/ Return(r, t)
    <3>1. iter[r] < Iterations /\ Advance(r)
      BY <2>1, MayAdvance
    <3>2. call'[r] = "ready"
      BY <2>1 DEF Synchronize, CopyInput, CopyTranspose, Copy, CopySegment,
                  Return, ControlInv, TypeOK, Syncs, Tag
    <3>3. pc'[r] # "sync_input" => iter'[r] = iter[r]
      BY <3>1 DEF Advance, NextStatement, TypeOK
    <3> QED BY <1>2, <3>1, <3>2, <3>3
  <2>2. ASSUME NEW t \in Tag, Send(r, t) \/ Receive(r, t)
        PROVE  /\ (call[q] # "ready" => pc[q] \in Tag /\ ~Local(pc[q], q))'
               /\ (pc[q] # "sync_input" => iter[q] < Iterations)'
    <3>1. pc' = pc /\ iter' = iter /\ pc[r] = t /\ ~Local(t, r)
      BY <2>2 DEF Send, Receive, ControlInv
    <3> QED BY <1>2, <3>1 DEF ControlInv, Local, Dest, Source
  <2> QED BY <2>1, <2>2 DEF Step
<1> QED BY <1>1, <1>2

\* MPI writes into the output buffers only, and each copy comes right after
\* the synchronization that settles the buffer it reads.
LEMMA StepSettled ==
  ASSUME TypeOK, ControlInv, SettledInv, NEW r \in Rank, Step(r)
  PROVE  SettledInv'
<1> SUFFICES ASSUME NEW q \in Rank, NEW s \in Segment
             PROVE  /\ writer'[q]["hins"][s] # "mpi" /\ writer'[q]["hiew"][s] # "mpi"
                    /\ pc'[q] = "copy_input" => writer'[q]["hoew"][s] # "mpi"
                    /\ pc'[q] = "copy_transpose" => writer'[q]["hons"][s] # "mpi"
  BY DEF SettledInv
<1>1. CASE q # r
  <2>1. pc'[q] = pc[q] /\ writer'[q] = writer[q]
    BY <1>1 DEF Step, Synchronize, CopyInput, CopyTranspose, Copy, CopySegment,
                Send, Receive, Return, Advance, TypeOK
  <2> QED BY <2>1 DEF SettledInv
<1>2. CASE q = r
  <2>1. /\ pc[r] \in Location
        /\ pc'[r] = "copy_input" => pc[r] \in {"copy_input", "sync_input"}
        /\ pc'[r] = "copy_transpose" => pc[r] \in {"copy_transpose", "sync_north_south"}
    <3>1. pc'[r] = pc[r] \/ pc'[r] = NextStatement(pc[r])
      BY DEF Step, Synchronize, CopyInput, CopyTranspose, Copy, CopySegment,
             Send, Receive, Return, Advance, TypeOK
    <3> QED BY <3>1 DEF NextStatement, TypeOK, Location, Syncs, Copies, Tag
  <2>2. CASE Synchronize(r)
    BY <1>2, <2>2 DEF Synchronize, TypeOK, Buffer
  <2>3. CASE CopyInput(r) \/ CopyTranspose(r)
    <3>1. /\ pc'[r] = NextStatement(pc[r]) /\ pc[r] \in Copies
      BY <2>3 DEF CopyInput, CopyTranspose, Copy, Advance, TypeOK, Copies
    <3>2. pc'[r] \notin Copies
      BY <3>1 DEF NextStatement, Copies
    <3>3. PICK to \in {"hins", "hiew"} :
            writer' = [writer EXCEPT ![r][to] = [v \in Segment |-> "hip"]]
      BY <2>3 DEF CopyInput, CopyTranspose, Copy
    <3> QED BY <1>2, <3>2, <3>3 DEF SettledInv, TypeOK, Buffer, Copies
  <2>4. ASSUME NEW t \in Tag, CopySegment(r, t) \/ Receive(r, t)
        PROVE  /\ writer'[q]["hins"][s] # "mpi" /\ writer'[q]["hiew"][s] # "mpi"
               /\ pc'[q] = "copy_input" => writer'[q]["hoew"][s] # "mpi"
               /\ pc'[q] = "copy_transpose" => writer'[q]["hons"][s] # "mpi"
    <3>1. pc[r] = t
      BY <2>4 DEF CopySegment, Receive
    <3>2. pc'[r] \notin Copies
      BY <2>1, <3>1 DEF Tag, Copies
    <3>3. PICK who \in {"hip", "mpi"} :
            writer' = [writer EXCEPT ![r][ReceiveBuffer(t)][SegmentOf(t)] = who]
      BY <2>4 DEF CopySegment, Receive
    <3>4. ReceiveBuffer(t) \in {"hons", "hoew"}
      BY SegmentType
    <3>5. writer'[r]["hins"] = writer[r]["hins"] /\ writer'[r]["hiew"] = writer[r]["hiew"]
      BY <3>3, <3>4 DEF TypeOK, Buffer
    <3> QED BY <1>2, <3>2, <3>5 DEF SettledInv, Copies
  <2>5. ASSUME NEW t \in Tag, Send(r, t) \/ Return(r, t)
        PROVE  /\ writer'[q]["hins"][s] # "mpi" /\ writer'[q]["hiew"][s] # "mpi"
               /\ pc'[q] = "copy_input" => writer'[q]["hoew"][s] # "mpi"
               /\ pc'[q] = "copy_transpose" => writer'[q]["hons"][s] # "mpi"
    <3>1. pc[r] = t /\ writer' = writer
      BY <2>5 DEF Send, Return
    <3>2. pc'[r] \notin Copies
      BY <2>1, <3>1 DEF Tag, Copies
    <3> QED BY <1>2, <3>1, <3>2 DEF SettledInv, Copies
  <2> QED BY <2>2, <2>3, <2>4, <2>5 DEF Step
<1> QED BY <1>1, <1>2

LEMMA InitLocal == Init => LocalInv
BY IterationsAssumption
   DEF Init, LocalInv, TypeOK, ControlInv, SettledInv, Syncs, Word, Buffer

LEMMA NextLocal == LocalInv /\ [Next]_vars => LocalInv'
<1> SUFFICES ASSUME LocalInv, [Next]_vars
             PROVE  LocalInv'
  OBVIOUS
<1>1. CASE \E r \in Rank : Step(r)
  BY <1>1, StepType, StepControl, StepSettled DEF LocalInv
<1>2. CASE UNCHANGED vars
  BY <1>2 DEF vars, LocalInv, TypeOK, ControlInv, SettledInv, Local, Dest, Source
<1> QED BY <1>1, <1>2 DEF Next, Terminating

\* Every variable has its type, and MPI calls are in progress only where the
\* segment is a message.
THEOREM TypeCorrect == Spec => [](TypeOK /\ ControlInv)
<1>1. LocalInv => TypeOK /\ ControlInv
  BY DEF LocalInv
<1> QED BY InitLocal, NextLocal, <1>1, PTL DEF Spec

\* The device never copies what MPI received and no synchronization settled,
\* on any grid, whether or not hipMemcpy blocks.
THEOREM DeviceReadsAreSettled == Spec => []DeviceReadsSettled
<1>1. LocalInv => DeviceReadsSettled
  BY SegmentType DEF LocalInv, SettledInv, DeviceReadsSettled
<1> QED BY InitLocal, NextLocal, <1>1, PTL DEF Spec

-----------------------------------------------------------------------------
(***************************************************************************)
(* The counters.                                                           *)
(***************************************************************************)
ChannelOf(r, t) ==
  \/ /\ chan[r][t] = <<>>
     /\ Posted(r, t) = Received(Dest(t, r), t)
  \/ /\ chan[r][t] = <<Payload(t, Received(Dest(t, r), t), r)>>
     /\ Posted(r, t) = Received(Dest(t, r), t) + 1

ChannelInv == \A r \in Rank, t \in Tag : ChannelOf(r, t)

\* A rank receives only what it has reached, and within a rank the two calls
\* of a stage come in order.
LEMMA ProgramOrder ==
  ASSUME TypeOK, NEW r \in Rank
  PROVE  /\ \A t \in Tag :
              /\ Posted(r, t) \in Nat /\ Received(r, t) \in Nat
              /\ Received(r, t) >= iter[r]
              /\ Received(r, t) <= Posted(r, t)
              /\ Posted(r, t) <= iter[r] + 1
         /\ Posted(r, "9902") <= Received(r, "9901")
         /\ Posted(r, "9904") <= Received(r, "9903")
         /\ Posted(r, "9901") <= Received(r, "9902") + 1
         /\ Posted(r, "9903") <= Received(r, "9904") + 1
<1>1. iter[r] \in Nat /\ pc[r] \in Location /\ call[r] \in {"ready", "posted", "received"}
  BY IterationsAssumption DEF TypeOK, Location
<1> QED BY <1>1 DEF Posted, Received, Started, Done, Index, Tag, Location,
                    Syncs, Copies

\* When a rank is about to send, its previous message with the same tag has
\* been received: the answer to it could not have arrived otherwise.
LEMMA PreviousReceived ==
  ASSUME TypeOK, ChannelInv, NEW r \in Rank, NEW t \in Tag,
         pc[r] = t, call[r] = "ready"
  PROVE  chan[r][t] = <<>> /\ Posted(r, t) = Received(Dest(t, r), t)
<1> DEFINE d == Dest(t, r)
           u == Answer(t)
<1>1. d \in Rank /\ u \in Tag /\ Dest(u, d) = r
  BY DestSource, AnswerReturns
<1>2. Posted(d, u) >= Received(r, u)
  <2>1. Posted(d, u) = Received(r, u) \/ Posted(d, u) = Received(r, u) + 1
    BY <1>1 DEF ChannelInv, ChannelOf
  <2>2. Received(r, u) \in Nat
    BY <1>1, ProgramOrder
  <2> QED BY <2>1, <2>2
<1>3. iter[r] \in Nat /\ Posted(r, t) = iter[r]
  BY IterationsAssumption DEF TypeOK, Posted, Started, Index, Tag
<1>4. Received(d, t) >= iter[r]
  <2> HIDE DEF d
  <2>1. CASE t \in {"9901", "9903"}
    <3>1. Received(r, u) >= iter[r]
      BY <1>1, ProgramOrder
    <3>2. Posted(d, u) <= Received(d, t)
      BY <1>1, <2>1, ProgramOrder DEF Answer
    <3>3. /\ Posted(d, u) \in Nat /\ Received(d, t) \in Nat
          /\ Received(r, u) \in Nat
      BY <1>1, ProgramOrder
    <3> QED BY <1>2, <1>3, <3>1, <3>2, <3>3
  <2>2. CASE t \in {"9902", "9904"}
    <3>1. Received(r, u) = iter[r] + 1
      BY <2>2 DEF Received, Done, Index, Answer
    <3>2. Posted(d, u) <= Received(d, t) + 1
      BY <1>1, <2>2, ProgramOrder DEF Answer
    <3>3. Posted(d, u) \in Nat /\ Received(d, t) \in Nat
      BY <1>1, ProgramOrder
    <3> QED BY <1>2, <1>3, <3>1, <3>2, <3>3
  <2> QED BY <2>1, <2>2 DEF Tag
<1>5. Received(d, t) \in Nat
  BY <1>1, ProgramOrder
<1>6. \/ chan[r][t] = <<>> /\ Posted(r, t) = Received(d, t)
      \/ Posted(r, t) = Received(d, t) + 1
  BY DEF ChannelInv, ChannelOf
<1> HIDE DEF d
<1>7. chan[r][t] = <<>> /\ Posted(r, t) = Received(d, t)
  BY <1>3, <1>4, <1>5, <1>6
<1> QED BY <1>7 DEF d

\* A step of one rank moves no counter of another.
LEMMA OthersKeepCounters ==
  ASSUME TypeOK, NEW r \in Rank, Step(r), NEW q \in Rank, q # r, NEW u \in Tag
  PROVE  Posted(q, u)' = Posted(q, u) /\ Received(q, u)' = Received(q, u)
<1>1. iter'[q] = iter[q] /\ pc'[q] = pc[q] /\ call'[q] = call[q]
  BY DEF Step, Synchronize, CopyInput, CopyTranspose, Copy, CopySegment,
         Send, Receive, Return, Advance, TypeOK
<1> QED BY <1>1 DEF Posted, Received, Started, Done

\* The place of a statement in the exchange, before and after a step.
LEMMA IndexNext ==
  ASSUME NEW p \in Location, NEW u \in Tag
  PROVE  /\ Index(p) \in Nat /\ Index(u) \in Nat
         /\ p # "9904" => (Index(NextStatement(p)) > Index(u) <=> Index(p) >= Index(u))
         /\ ~(Index("sync_input") > Index(u))
         /\ Index("9904") >= Index(u)
         /\ Index(p) = Index(u) <=> p = u
<1>1. Index(u) \in 2 .. 8 /\ Index("9904") = 8 /\ Index("sync_input") = 0
  BY DEF Index, Tag
<1>2. CASE p \in Tag
  <2>1. p # "9904" => NextStatement(p) \in {"9902", "sync_north_south", "9904"}
    BY <1>2 DEF NextStatement, Tag
  <2>2. p # "9904" => Index(NextStatement(p)) = Index(p) + 1
    BY <1>2 DEF NextStatement, Index, Tag
  <2>3. Index(p) \in Nat /\ (Index(p) = Index(u) <=> p = u)
    BY <1>2 DEF Index, Tag
  <2> QED BY <1>1, <2>2, <2>3
<1>3. CASE p \notin Tag
  <2>1. p \in {"sync_input", "copy_input", "sync_north_south",
               "copy_transpose", "sync_transpose"}
    BY <1>3 DEF Location, Syncs, Copies
  <2>2. Index(NextStatement(p)) = Index(p) + 1
    <3>1. /\ NextStatement("sync_input") = "copy_input"
          /\ NextStatement("copy_input") = "9901"
          /\ NextStatement("sync_north_south") = "copy_transpose"
          /\ NextStatement("copy_transpose") = "sync_transpose"
          /\ NextStatement("sync_transpose") = "9903"
      BY DEF NextStatement
    <3>2. /\ Index("sync_input") = 0 /\ Index("copy_input") = 1
          /\ Index("9901") = 2 /\ Index("sync_north_south") = 4
          /\ Index("copy_transpose") = 5 /\ Index("sync_transpose") = 6
          /\ Index("9903") = 7
      BY DEF Index
    <3> QED BY <2>1, <3>1, <3>2
  <2>3. Index(p) \in {0, 1, 4, 5, 6} /\ Index(u) \in {2, 3, 7, 8}
    BY <2>1 DEF Index, Tag
  <2> QED BY <1>1, <1>3, <2>1, <2>2, <2>3 DEF Tag
<1> QED BY <1>2, <1>3

\* Synchronizations, copies of whole buffers and returns move no counter.
LEMMA QuietSteps ==
  ASSUME TypeOK, ControlInv, NEW r \in Rank,
         \/ Synchronize(r)
         \/ CopyInput(r)
         \/ CopyTranspose(r)
         \/ \E t \in Tag : Return(r, t),
         NEW u \in Tag
  PROVE  Posted(r, u)' = Posted(r, u) /\ Received(r, u)' = Received(r, u)
<1>1. /\ iter \in [Rank -> Int] /\ pc \in [Rank -> Location]
      /\ call \in [Rank -> {"ready", "posted", "received"}]
      /\ pc[r] \notin Tag => call[r] = "ready"
  BY IterationsAssumption DEF TypeOK, ControlInv, Location
<1>2. CASE Synchronize(r) \/ CopyInput(r) \/ CopyTranspose(r)
  <2>1. /\ pc[r] \in Syncs \cup Copies /\ call[r] = "ready"
        /\ pc'[r] = NextStatement(pc[r]) /\ iter'[r] = iter[r] /\ call'[r] = call[r]
    BY <1>1, <1>2 DEF Synchronize, CopyInput, CopyTranspose, Copy, Advance,
                      Syncs, Copies, Tag
  <2>2. pc[r] # "9904" /\ pc[r] # u
    BY <2>1 DEF Syncs, Copies, Tag
  <2> QED BY <1>1, <2>1, <2>2, IndexNext DEF Posted, Received, Started, Done
<1>3. ASSUME NEW t \in Tag, Return(r, t)
      PROVE  Posted(r, u)' = Posted(r, u) /\ Received(r, u)' = Received(r, u)
  <2>1. /\ pc[r] = t /\ call[r] = "received" /\ call'[r] = "ready"
        /\ pc'[r] = NextStatement(t)
        /\ iter'[r] = IF t = "9904" THEN iter[r] + 1 ELSE iter[r]
    BY <1>1, <1>3 DEF Return, Advance
  <2>2. CASE t = "9904"
    <3>1. pc'[r] = "sync_input"
      BY <2>1, <2>2 DEF NextStatement
    <3> QED BY <1>1, <2>1, <2>2, <3>1, IndexNext
            DEF Posted, Received, Started, Done
  <2>3. CASE t # "9904"
    BY <1>1, <2>1, <2>3, IndexNext DEF Posted, Received, Started, Done
  <2> QED BY <2>2, <2>3
<1> QED BY <1>2, <1>3

\* Posting a send counts one send.
LEMMA SendCounts ==
  ASSUME TypeOK, NEW r \in Rank, NEW t \in Tag, Send(r, t), NEW u \in Tag
  PROVE  /\ Received(r, u)' = Received(r, u)
         /\ u = t => Posted(r, u)' = Posted(r, u) + 1
         /\ u # t => Posted(r, u)' = Posted(r, u)
<1>1. /\ iter' = iter /\ pc' = pc /\ pc[r] = t
      /\ call[r] = "ready" /\ call'[r] = "posted"
  BY DEF Send, TypeOK
<1> QED BY <1>1 DEF Posted, Received, Started, Done, Index, Tag

\* Matching a receive counts one receive.
LEMMA ReceiveCounts ==
  ASSUME TypeOK, NEW r \in Rank, NEW t \in Tag, Receive(r, t), NEW u \in Tag
  PROVE  /\ Posted(r, u)' = Posted(r, u)
         /\ u = t => Received(r, u)' = Received(r, u) + 1
         /\ u # t => Received(r, u)' = Received(r, u)
<1>1. /\ iter' = iter /\ pc' = pc /\ pc[r] = t
      /\ call[r] = "posted" /\ call'[r] = "received"
  BY DEF Receive, TypeOK
<1> QED BY <1>1 DEF Posted, Received, Started, Done, Index, Tag

\* Copying a segment counts one of each.
LEMMA CopySegmentCounts ==
  ASSUME TypeOK, ControlInv, NEW r \in Rank, NEW t \in Tag, CopySegment(r, t),
         NEW u \in Tag
  PROVE  /\ u = t => /\ Posted(r, u)' = Posted(r, u) + 1
                     /\ Received(r, u)' = Received(r, u) + 1
                     /\ Posted(r, u) = Received(r, u)
         /\ u # t => /\ Posted(r, u)' = Posted(r, u)
                     /\ Received(r, u)' = Received(r, u)
<1>1. /\ pc[r] = t /\ call[r] = "ready" /\ call'[r] = "ready"
      /\ pc'[r] = NextStatement(t)
      /\ iter'[r] = IF t = "9904" THEN iter[r] + 1 ELSE iter[r]
  BY DEF CopySegment, Advance, TypeOK, ControlInv
<1>2. iter[r] \in Int /\ t \in Location
  BY IterationsAssumption DEF TypeOK, Location
<1>3. CASE t = "9904"
  <2>1. pc'[r] = "sync_input"
    BY <1>1, <1>3 DEF NextStatement
  <2> QED BY <1>1, <1>2, <1>3, <2>1, IndexNext
          DEF Posted, Received, Started, Done
<1>4. CASE t # "9904"
  BY <1>1, <1>2, <1>4, IndexNext DEF Posted, Received, Started, Done
<1> QED BY <1>3, <1>4

-----------------------------------------------------------------------------
(***************************************************************************)
(* Channels and buffers, when MPI sees a copy once hipMemcpy has returned. *)
(***************************************************************************)

\* What rank r receives with tag t in exchange i.
Expected(t, i, r) ==
  CASE t = "9901" -> Origin("n", i, North(r))
    [] t = "9902" -> Origin("2n", i, South(r))
    [] t = "9903" -> Origin("n", i + 1, r)
    [] t = "9904" -> Origin("2n", i + 1, r)

BuffersOf(r) ==
  /\ pc[r] \in {"sync_input", "copy_input"}
       => \A s \in Segment : memory[r]["hoew"][s] = Origin(s, iter[r], r)
  /\ pc[r] \notin {"sync_input", "copy_input"}
       => \A s \in Segment : memory[r]["hins"][s] = Origin(s, iter[r], r)
  /\ pc[r] \in {"sync_transpose", "9903", "9904"}
       => /\ memory[r]["hiew"]["n"] = Origin("n", iter[r], North(r))
          /\ memory[r]["hiew"]["2n"] = Origin("2n", iter[r], South(r))
  /\ \A t \in Tag : Done(r, t) =>
       memory[r][ReceiveBuffer(t)][SegmentOf(t)] = Expected(t, iter[r], r)

BufferInv == \A r \in Rank : BuffersOf(r)

\* What the source of a tag sends is what its destination expects.
LEMMA SentIsExpected ==
  ASSUME NEW r \in Rank, NEW t \in Tag, NEW i \in Nat
  PROVE  Payload(t, i, Source(t, r)) = Expected(t, i, r)
BY OriginStep DEF Payload, Expected, Source, Tag

\* The segment of the call a rank is at.
LEMMA SentData ==
  ASSUME BufferInv, NEW r \in Rank, NEW t \in Tag, pc[r] = t
  PROVE  memory[r][SendBuffer(t)][SegmentOf(t)] = Payload(t, iter[r], r)
BY DEF BufferInv, BuffersOf, SendBuffer, SegmentOf, NorthSouth, Payload,
       Segment, Tag

\* A copy reads what was written.
LEMMA CopyReads ==
  ASSUME LocalInv, NEW r \in Rank
  PROVE  /\ CopyInput(r) =>
              memory' = [memory EXCEPT ![r]["hins"] = memory[r]["hoew"]]
         /\ CopyTranspose(r) =>
              memory' = [memory EXCEPT ![r]["hiew"] = memory[r]["hons"]]
<1>1. ASSUME NEW from \in Buffer, NEW to \in Buffer, Copy(r, from, to),
             \A s \in Segment : writer[r][from][s] # "mpi"
      PROVE  memory' = [memory EXCEPT ![r][to] = memory[r][from]]
  <2>1. \A s \in Segment : Readable(r, from, s, "hip") = {memory[r][from][s]}
    BY <1>1 DEF LocalInv, TypeOK, Readable
  <2>2. memory' = [memory EXCEPT ![r][to] =
                     [s \in Segment |-> IF s = "n" THEN memory[r][from]["n"]
                                                   ELSE memory[r][from]["2n"]]]
    BY <1>1, <2>1 DEF Copy, Segment
  <2>3. memory[r][from] \in [Segment -> Word]
    BY DEF LocalInv, TypeOK
  <2>4. [s \in Segment |-> IF s = "n" THEN memory[r][from]["n"]
                                      ELSE memory[r][from]["2n"]]
          = memory[r][from]
    BY <2>3 DEF Segment
  <2> QED BY <2>2, <2>4
<1>2. ASSUME CopyInput(r)
      PROVE  memory' = [memory EXCEPT ![r]["hins"] = memory[r]["hoew"]]
  <2>1. \A s \in Segment : writer[r]["hoew"][s] # "mpi"
    BY <1>2 DEF LocalInv, SettledInv, CopyInput
  <2> QED BY <1>1, <1>2, <2>1 DEF CopyInput, Buffer
<1>3. ASSUME CopyTranspose(r)
      PROVE  memory' = [memory EXCEPT ![r]["hiew"] = memory[r]["hons"]]
  <2>1. \A s \in Segment : writer[r]["hons"][s] # "mpi"
    BY <1>3 DEF LocalInv, SettledInv, CopyTranspose
  <2> QED BY <1>1, <1>3, <2>1 DEF CopyTranspose, Buffer
<1> QED BY <1>2, <1>3

\* So does a segment that stays on the rank, which is its own neighbour, ...
LEMMA CopySegmentReads ==
  ASSUME LocalInv, BufferInv, NEW r \in Rank, NEW t \in Tag, CopySegment(r, t)
  PROVE  memory' = [memory EXCEPT ![r][ReceiveBuffer(t)][SegmentOf(t)] =
                      Expected(t, iter[r], r)]
<1>1. /\ SegmentOf(t) \in Segment
      /\ SendBuffer(t) \in Buffer /\ SendBuffer(t) \in {"hins", "hiew"}
  BY SegmentType
<1>2. writer[r][SendBuffer(t)][SegmentOf(t)] \in {"none", "hip"}
  BY <1>1 DEF LocalInv, TypeOK, SettledInv
<1>3. Readable(r, SendBuffer(t), SegmentOf(t), "hip")
        = {memory[r][SendBuffer(t)][SegmentOf(t)]}
  BY <1>2 DEF Readable
<1>4. pc[r] = t /\ Source(t, r) = r
  BY DEF CopySegment, Local
<1>5. memory[r][SendBuffer(t)][SegmentOf(t)] = Payload(t, iter[r], r)
  BY <1>4, SentData
<1>6. Payload(t, iter[r], r) = Expected(t, iter[r], r)
  <2>1. iter[r] \in Nat
    BY IterationsAssumption DEF LocalInv, TypeOK
  <2> QED BY <1>4, <2>1, SentIsExpected
<1>7. PICK data \in Readable(r, SendBuffer(t), SegmentOf(t), "hip") :
        memory' = [memory EXCEPT ![r][ReceiveBuffer(t)][SegmentOf(t)] = data]
  BY DEF CopySegment
<1>8. data = Expected(t, iter[r], r)
  BY <1>3, <1>5, <1>6, <1>7
<1> QED BY <1>7, <1>8

\* ... and so does a send.
LEMMA SendReads ==
  ASSUME BlockingCopy, BufferInv, NEW r \in Rank, NEW t \in Tag, Send(r, t)
  PROVE  chan' = [chan EXCEPT ![r][t] = Append(@, Payload(t, iter[r], r))]
<1>1. Readable(r, SendBuffer(t), SegmentOf(t), "mpi")
        = {memory[r][SendBuffer(t)][SegmentOf(t)]}
  BY DEF Readable
<1>2. memory[r][SendBuffer(t)][SegmentOf(t)] = Payload(t, iter[r], r)
  BY SentData DEF Send
<1> QED BY <1>1, <1>2 DEF Send

\* The segment a rank is about to receive is the one its partner sent in the
\* same exchange.
LEMMA ReceivedData ==
  ASSUME TypeOK, ChannelInv, NEW r \in Rank, NEW t \in Tag, Receive(r, t)
  PROVE  /\ chan[Source(t, r)][t] = <<Payload(t, iter[r], Source(t, r))>>
         /\ Received(r, t) = iter[r]
         /\ Posted(Source(t, r), t) = Received(r, t) + 1
<1>1. Source(t, r) \in Rank /\ Dest(t, Source(t, r)) = r
  BY DestSource
<1>2. Received(r, t) = iter[r]
  BY DEF Receive, Received, Done, Index, Tag
<1>3. chan[Source(t, r)][t] # <<>>
  BY DEF Receive
<1> QED BY <1>1, <1>2, <1>3 DEF ChannelInv, ChannelOf

LEMMA StepChannel ==
  ASSUME BlockingCopy, LocalInv, ChannelInv, BufferInv, NEW r \in Rank, Step(r)
  PROVE  ChannelInv'
<1> SUFFICES ASSUME NEW q \in Rank, NEW u \in Tag
             PROVE  ChannelOf(q, u)'
  BY DEF ChannelInv
<1> DEFINE d == Dest(u, q)
<1>1. d \in Rank /\ Source(u, d) = q /\ TypeOK /\ ControlInv
  BY DestSource DEF LocalInv
<1>2. ChannelOf(q, u)
  BY DEF ChannelInv
<1>3. CASE \/ Synchronize(r)
           \/ CopyInput(r)
           \/ CopyTranspose(r)
           \/ \E t \in Tag : Return(r, t)
  <2>1. chan' = chan
    BY <1>3 DEF Synchronize, CopyInput, CopyTranspose, Copy, Return
  <2>2. Posted(q, u)' = Posted(q, u) /\ Received(d, u)' = Received(d, u)
    BY <1>1, <1>3, QuietSteps, OthersKeepCounters
  <2> QED BY <1>2, <2>1, <2>2 DEF ChannelOf
<1>4. ASSUME NEW t \in Tag, CopySegment(r, t)
      PROVE  ChannelOf(q, u)'
  <2>1. chan' = chan /\ Dest(t, r) = r /\ Source(t, r) = r
    BY <1>4 DEF CopySegment, Local
  <2>2. CASE q = r /\ u = t
    <3>1. /\ Posted(q, u)' = Posted(q, u) + 1
          /\ Received(d, u)' = Received(d, u) + 1
          /\ Posted(q, u) = Received(d, u)
      BY <1>1, <1>4, <2>1, <2>2, CopySegmentCounts
    <3>2. Received(d, u) \in Nat
      BY <1>1, ProgramOrder
    <3>3. chan[q][u] = <<>>
      BY <1>2, <3>1, <3>2 DEF ChannelOf
    <3> QED BY <2>1, <3>1, <3>3 DEF ChannelOf
  <2>3. CASE ~(q = r /\ u = t)
    <3>1. ~(d = r /\ u = t)
      BY <1>1, <2>1, <2>3
    <3>2. Posted(q, u)' = Posted(q, u) /\ Received(d, u)' = Received(d, u)
      BY <1>1, <1>4, <2>3, <3>1, CopySegmentCounts, OthersKeepCounters
    <3> QED BY <1>2, <2>1, <3>2 DEF ChannelOf
  <2> QED BY <2>2, <2>3
<1>5. ASSUME NEW t \in Tag, Send(r, t)
      PROVE  ChannelOf(q, u)'
  <2>1. Received(d, u)' = Received(d, u)
    BY <1>1, <1>5, SendCounts, OthersKeepCounters
  <2>2. CASE q = r /\ u = t
    <3>1. chan[r][t] = <<>> /\ Posted(r, t) = Received(d, t)
      BY <1>1, <1>5, <2>2, PreviousReceived DEF Send
    <3>2. Posted(r, t) = iter[r]
      BY <1>5 DEF Send, Posted, Started, Index, Tag
    <3>3. chan'[r][t] = Append(chan[r][t], Payload(t, iter[r], r))
      BY <1>1, <1>5, SendReads DEF TypeOK
    <3>4. chan'[r][t] = <<Payload(t, iter[r], r)>>
      BY <3>1, <3>3
    <3>5. Posted(r, t)' = Posted(r, t) + 1
      BY <1>1, <1>5, SendCounts
    <3> QED BY <2>1, <2>2, <3>1, <3>2, <3>4, <3>5 DEF ChannelOf
  <2>3. CASE ~(q = r /\ u = t)
    <3>1. chan'[q][u] = chan[q][u]
      BY <1>1, <1>5, <2>3, SendReads DEF TypeOK
    <3>2. Posted(q, u)' = Posted(q, u)
      BY <1>1, <1>5, <2>3, SendCounts, OthersKeepCounters
    <3> QED BY <1>2, <2>1, <3>1, <3>2 DEF ChannelOf
  <2> QED BY <2>2, <2>3
<1>6. ASSUME NEW t \in Tag, Receive(r, t)
      PROVE  ChannelOf(q, u)'
  <2>1. Posted(q, u)' = Posted(q, u)
    BY <1>1, <1>6, ReceiveCounts, OthersKeepCounters
  <2>2. CASE d = r /\ u = t
    <3>1. q = Source(t, r)
      BY <1>1, <2>2
    <3>2. /\ chan[q][t] = <<Payload(t, iter[r], q)>>
          /\ Posted(q, t) = Received(r, t) + 1
      BY <1>1, <1>6, <3>1, ReceivedData
    <3>3. chan'[q][t] = <<>>
      BY <1>1, <1>6, <3>1, <3>2 DEF Receive, TypeOK
    <3>4. Received(r, t)' = Received(r, t) + 1
      BY <1>1, <1>6, ReceiveCounts
    <3> QED BY <2>1, <2>2, <3>2, <3>3, <3>4 DEF ChannelOf
  <2>3. CASE ~(d = r /\ u = t)
    <3>1. ~(q = Source(t, r) /\ u = t)
      BY <2>3, DestSource
    <3>2. chan'[q][u] = chan[q][u]
      BY <1>1, <1>6, <3>1, DestSource DEF Receive, TypeOK
    <3>3. Received(d, u)' = Received(d, u)
      BY <1>1, <1>6, <2>3, ReceiveCounts, OthersKeepCounters
    <3> QED BY <1>2, <2>1, <3>2, <3>3 DEF ChannelOf
  <2> QED BY <2>2, <2>3
<1> QED BY <1>3, <1>4, <1>5, <1>6 DEF Step

\* A segment that lands in its place disturbs neither the place of another
\* tag nor what is being sent.
LEMMA Lands ==
  ASSUME TypeOK, NEW r \in Rank, NEW t \in Tag, NEW data,
         memory' = [memory EXCEPT ![r][ReceiveBuffer(t)][SegmentOf(t)] = data]
  PROVE  /\ memory'[r][ReceiveBuffer(t)][SegmentOf(t)] = data
         /\ \A u \in Tag \ {t} : memory'[r][ReceiveBuffer(u)][SegmentOf(u)]
                                   = memory[r][ReceiveBuffer(u)][SegmentOf(u)]
         /\ memory'[r]["hins"] = memory[r]["hins"]
         /\ memory'[r]["hiew"] = memory[r]["hiew"]
<1>1. memory[r] \in [Buffer -> [Segment -> Word]]
  BY DEF TypeOK
<1>2. ReceiveBuffer(t) \in Buffer \ {"hins", "hiew"} /\ SegmentOf(t) \in Segment
  BY SegmentType
<1>3. memory'[r] = [memory[r] EXCEPT ![ReceiveBuffer(t)][SegmentOf(t)] = data]
  BY DEF TypeOK
<1>4. ASSUME NEW u \in Tag \ {t}
      PROVE  memory'[r][ReceiveBuffer(u)][SegmentOf(u)]
               = memory[r][ReceiveBuffer(u)][SegmentOf(u)]
  <2>1. ReceiveBuffer(u) \in Buffer /\ SegmentOf(u) \in Segment
    BY SegmentType
  <2>2. ReceiveBuffer(u) # ReceiveBuffer(t) \/ SegmentOf(u) # SegmentOf(t)
    BY DEF ReceiveBuffer, SegmentOf, NorthSouth, Tag
  <2> QED BY <1>1, <1>2, <1>3, <2>1, <2>2
<1>5. memory'[r][ReceiveBuffer(t)][SegmentOf(t)] = data
  BY <1>1, <1>2, <1>3
<1>6. memory'[r]["hins"] = memory[r]["hins"] /\ memory'[r]["hiew"] = memory[r]["hiew"]
  BY <1>1, <1>2, <1>3 DEF Buffer
<1> QED BY <1>4, <1>5, <1>6

\* Where a rank goes on without changing a buffer it sends from, it stays in
\* the same part of the exchange.
LEMMA SamePart ==
  ASSUME NEW p \in Location \ {"copy_input", "copy_transpose", "9904"}
  PROVE  /\ NextStatement(p) \in {"sync_input", "copy_input"}
              <=> p \in {"sync_input", "copy_input"}
         /\ NextStatement(p) \in {"sync_transpose", "9903", "9904"}
              <=> p \in {"sync_transpose", "9903", "9904"}
BY DEF NextStatement, Location, Syncs, Copies, Tag

\* What is done once a rank has gone on to its next statement.
LEMMA DoneNext ==
  ASSUME TypeOK, ControlInv, NEW r \in Rank, NEW u \in Tag,
         Advance(r), call'[r] = "ready"
  PROVE  /\ pc[r] \in {"9904", "copy_input"} => ~Done(r, u)'
         /\ pc[r] \notin {"9904", "copy_input"} =>
              (Done(r, u)' <=> Index(pc[r]) >= Index(u))
<1>1. pc'[r] = NextStatement(pc[r]) /\ pc[r] \in Location
  BY DEF Advance, TypeOK, Location
<1>2. Done(r, u)' <=> Index(NextStatement(pc[r])) > Index(u)
  BY <1>1 DEF Done
<1>3. CASE pc[r] = "9904"
  <2>1. NextStatement(pc[r]) = "sync_input"
    BY <1>3 DEF NextStatement
  <2> QED BY <1>1, <1>2, <1>3, <2>1, IndexNext
<1>4. CASE pc[r] = "copy_input"
  BY <1>2, <1>4 DEF NextStatement, Index, Tag
<1>5. CASE pc[r] \notin {"9904", "copy_input"}
  BY <1>1, <1>2, <1>5, IndexNext
<1> QED BY <1>3, <1>4, <1>5

\* The buffers of the rank that takes the step ...
LEMMA OwnBuffers ==
  ASSUME LocalInv, ChannelInv, BufferInv, NEW r \in Rank, Step(r)
  PROVE  BuffersOf(r)'
<1>1. /\ BuffersOf(r) /\ TypeOK /\ ControlInv
      /\ iter[r] \in Nat /\ pc[r] \in Location
  BY IterationsAssumption DEF BufferInv, LocalInv, TypeOK, Location
<1>2. CASE Synchronize(r)
  <2>1. /\ memory' = memory /\ iter'[r] = iter[r] /\ call'[r] = "ready"
        /\ Advance(r) /\ pc[r] \in Syncs /\ call[r] = "ready"
        /\ pc'[r] = NextStatement(pc[r])
    BY <1>1, <1>2 DEF Synchronize, Advance, ControlInv, TypeOK, Syncs, Tag
  <2>2. \A u \in Tag : Done(r, u)' => Done(r, u)
    BY <1>1, <2>1, DoneNext, IndexNext DEF Done, Syncs, Tag
  <2>3. pc[r] \in Location \ {"copy_input", "copy_transpose", "9904"}
    BY <1>1, <2>1 DEF Syncs
  <2> QED BY <1>1, <2>1, <2>2, <2>3, SamePart DEF BuffersOf
<1>3. CASE CopyInput(r)
  <2>1. /\ memory' = [memory EXCEPT ![r]["hins"] = memory[r]["hoew"]]
        /\ Advance(r) /\ pc[r] = "copy_input" /\ call'[r] = "ready"
    BY <1>1, <1>3, CopyReads DEF CopyInput, Copy, ControlInv, Tag
  <2>2. pc'[r] = "9901" /\ iter'[r] = iter[r]
    BY <1>1, <2>1 DEF Advance, NextStatement, TypeOK
  <2>3. \A u \in Tag : ~Done(r, u)'
    BY <1>1, <2>1, DoneNext
  <2>4. memory'[r]["hins"] = memory[r]["hoew"]
    BY <1>1, <2>1 DEF TypeOK, Buffer
  <2> QED BY <1>1, <2>1, <2>2, <2>3, <2>4 DEF BuffersOf
<1>4. CASE CopyTranspose(r)
  <2>1. /\ memory' = [memory EXCEPT ![r]["hiew"] = memory[r]["hons"]]
        /\ Advance(r) /\ pc[r] = "copy_transpose" /\ call'[r] = "ready"
    BY <1>1, <1>4, CopyReads DEF CopyTranspose, Copy, ControlInv, Tag
  <2>2. pc'[r] = "sync_transpose" /\ iter'[r] = iter[r]
    BY <1>1, <2>1 DEF Advance, NextStatement, TypeOK
  <2>3. \A u \in Tag : Done(r, u)' => Done(r, u)
    BY <1>1, <2>1, DoneNext, IndexNext DEF Done, Tag
  <2>4. /\ memory'[r]["hiew"] = memory[r]["hons"]
        /\ \A b \in Buffer \ {"hiew"} : memory'[r][b] = memory[r][b]
    BY <1>1, <2>1 DEF TypeOK, Buffer
  <2>5. /\ memory[r]["hons"]["n"] = Origin("n", iter[r], North(r))
        /\ memory[r]["hons"]["2n"] = Origin("2n", iter[r], South(r))
    BY <1>1, <2>1 DEF BuffersOf, Done, Index, ReceiveBuffer, SegmentOf,
                      NorthSouth, Expected, Tag
  <2>6. \A u \in Tag : ReceiveBuffer(u) \in Buffer \ {"hiew"}
    BY SegmentType
  <2>7. memory'[r]["hins"] = memory[r]["hins"]
    BY <2>4 DEF Buffer
  <2> QED BY <1>1, <2>1, <2>2, <2>3, <2>4, <2>5, <2>6, <2>7 DEF BuffersOf
<1>5. ASSUME NEW t \in Tag, CopySegment(r, t) \/ Return(r, t)
      PROVE  BuffersOf(r)'
  <2>1. /\ pc[r] = t /\ call'[r] = "ready" /\ Advance(r)
        /\ pc'[r] = NextStatement(t)
        /\ iter'[r] = IF t = "9904" THEN iter[r] + 1 ELSE iter[r]
    BY <1>1, <1>5 DEF CopySegment, Return, Advance, ControlInv, TypeOK
  \* Whether the segment has just been copied or had been received, ...
  <2>2. /\ \A u \in Tag : u = t \/ Done(r, u) =>
             memory'[r][ReceiveBuffer(u)][SegmentOf(u)] = Expected(u, iter[r], r)
        /\ memory'[r]["hins"] = memory[r]["hins"]
        /\ memory'[r]["hiew"] = memory[r]["hiew"]
    <3>1. CASE CopySegment(r, t)
      <4>1. memory' = [memory EXCEPT ![r][ReceiveBuffer(t)][SegmentOf(t)] =
                         Expected(t, iter[r], r)]
        BY <3>1, CopySegmentReads
      <4>2. \A u \in Tag : Done(r, u) =>
              memory[r][ReceiveBuffer(u)][SegmentOf(u)] = Expected(u, iter[r], r)
        BY <1>1 DEF BuffersOf
      <4> DEFINE data == Expected(t, iter[r], r)
      <4> HIDE DEF data
      <4>3. memory' = [memory EXCEPT ![r][ReceiveBuffer(t)][SegmentOf(t)] = data]
        BY <4>1 DEF data
      <4>4. /\ memory'[r][ReceiveBuffer(t)][SegmentOf(t)] = data
            /\ \A u \in Tag \ {t} : memory'[r][ReceiveBuffer(u)][SegmentOf(u)]
                                      = memory[r][ReceiveBuffer(u)][SegmentOf(u)]
            /\ memory'[r]["hins"] = memory[r]["hins"]
            /\ memory'[r]["hiew"] = memory[r]["hiew"]
        BY <1>1, <4>3, Lands
      <4> QED BY <4>2, <4>4 DEF data
    <3>2. CASE Return(r, t)
      <4>1. memory' = memory /\ Done(r, t)
        BY <3>2 DEF Return, Done
      <4> QED BY <1>1, <4>1 DEF BuffersOf
    <3> QED BY <1>5, <3>1, <3>2
  <2>3. CASE t = "9904"
    <3>1. pc'[r] = "sync_input" /\ iter'[r] = iter[r] + 1
      BY <2>1, <2>3 DEF NextStatement
    <3>2. Done(r, "9903")
      BY <2>1, <2>3 DEF Done, Index
    <3>3. /\ memory'[r]["hoew"]["n"] = Origin("n", iter[r] + 1, r)
          /\ memory'[r]["hoew"]["2n"] = Origin("2n", iter[r] + 1, r)
      BY <2>2, <2>3, <3>2 DEF ReceiveBuffer, SegmentOf, NorthSouth, Expected, Tag
    <3>4. \A u \in Tag : ~Done(r, u)'
      BY <1>1, <2>1, <2>3, DoneNext
    <3> QED BY <3>1, <3>3, <3>4 DEF BuffersOf, Segment
  \* ... the rank goes on with it in its place.
  <2>4. CASE t # "9904"
    <3>1. \A u \in Tag : Done(r, u)' => u = t \/ Done(r, u)
      BY <1>1, <2>1, <2>4, DoneNext, IndexNext DEF Done, Tag
    <3>2. t \in Location \ {"copy_input", "copy_transpose", "9904"}
      BY <2>4 DEF Location, Tag
    <3>3. /\ pc'[r] \notin {"sync_input", "copy_input"}
          /\ pc'[r] \in {"sync_transpose", "9903", "9904"}
               => pc[r] \in {"sync_transpose", "9903", "9904"}
          /\ pc[r] \notin {"sync_input", "copy_input"}
          /\ iter'[r] = iter[r]
      BY <2>1, <2>4, <3>2, SamePart DEF Tag
    <3> QED BY <1>1, <2>2, <3>1, <3>3 DEF BuffersOf
  <2> QED BY <2>3, <2>4
<1>6. ASSUME NEW t \in Tag, Send(r, t)
      PROVE  BuffersOf(r)'
  <2>1. /\ pc' = pc /\ iter' = iter /\ memory' = memory
        /\ \A u \in Tag : Done(r, u)' = Done(r, u)
    BY <1>1, <1>6 DEF Send, Done, TypeOK
  <2> QED BY <1>1, <2>1 DEF BuffersOf
<1>7. ASSUME NEW t \in Tag, Receive(r, t)
      PROVE  BuffersOf(r)'
  <2>1. Payload(t, iter[r], Source(t, r)) = Expected(t, iter[r], r)
    BY <1>1, SentIsExpected
  <2>2. Head(chan[Source(t, r)][t]) = Expected(t, iter[r], r)
    BY <1>1, <1>7, <2>1, ReceivedData
  <2>3. memory' = [memory EXCEPT ![r][ReceiveBuffer(t)][SegmentOf(t)] =
                     Expected(t, iter[r], r)]
    BY <1>7, <2>2 DEF Receive
  <2>4. /\ pc' = pc /\ iter' = iter /\ pc[r] = t
        /\ \A u \in Tag : Done(r, u)' => u = t \/ Done(r, u)
    BY <1>1, <1>7 DEF Receive, Done, TypeOK
  <2>5. pc[r] \notin {"sync_input", "copy_input"}
    BY <2>4 DEF Tag
  <2> DEFINE data == Expected(t, iter[r], r)
  <2> HIDE DEF data
  <2>6. memory' = [memory EXCEPT ![r][ReceiveBuffer(t)][SegmentOf(t)] = data]
    BY <2>3 DEF data
  <2>7. /\ memory'[r][ReceiveBuffer(t)][SegmentOf(t)] = data
        /\ \A u \in Tag \ {t} : memory'[r][ReceiveBuffer(u)][SegmentOf(u)]
                                  = memory[r][ReceiveBuffer(u)][SegmentOf(u)]
        /\ memory'[r]["hins"] = memory[r]["hins"]
        /\ memory'[r]["hiew"] = memory[r]["hiew"]
    BY <1>1, <2>6, Lands
  <2>8. \A u \in Tag : Done(r, u)' =>
          memory'[r][ReceiveBuffer(u)][SegmentOf(u)] = Expected(u, iter[r], r)
    BY <1>1, <2>4, <2>7 DEF BuffersOf, data
  <2> QED BY <1>1, <2>4, <2>5, <2>7, <2>8 DEF BuffersOf
<1> QED BY <1>2, <1>3, <1>4, <1>5, <1>6, <1>7 DEF Step

\* ... and of every other.
LEMMA StepBuffer ==
  ASSUME LocalInv, ChannelInv, BufferInv, NEW r \in Rank, Step(r)
  PROVE  BufferInv'
<1> SUFFICES ASSUME NEW q \in Rank, q # r
             PROVE  BuffersOf(q)'
  BY OwnBuffers DEF BufferInv
<1>1. /\ iter'[q] = iter[q] /\ pc'[q] = pc[q] /\ call'[q] = call[q]
      /\ memory'[q] = memory[q]
  BY DEF LocalInv, Step, Synchronize, CopyInput, CopyTranspose, Copy,
         CopySegment, Send, Receive, Return, Advance, TypeOK
<1> QED BY <1>1 DEF BufferInv, BuffersOf, Done

IInv == LocalInv /\ ChannelInv /\ BufferInv

LEMMA InitIInv == Init => IInv
<1> SUFFICES ASSUME Init
             PROVE  IInv
  OBVIOUS
<1>1. ChannelInv
  BY DestSource DEF Init, ChannelInv, ChannelOf, Posted, Received, Started,
                    Done, Index, Tag
<1>2. BufferInv
  BY OriginZero DEF Init, BufferInv, BuffersOf, Done, Index, Tag, Buffer
<1> QED BY InitLocal, <1>1, <1>2 DEF IInv

LEMMA NextIInv ==
  ASSUME BlockingCopy
  PROVE  IInv /\ [Next]_vars => IInv'
<1> SUFFICES ASSUME IInv, [Next]_vars
             PROVE  IInv'
  OBVIOUS
<1>1. CASE \E r \in Rank : Step(r)
  BY <1>1, NextLocal, StepChannel, StepBuffer DEF IInv
<1>2. CASE UNCHANGED vars
  <2>1. LocalInv'
    BY NextLocal DEF IInv
  <2> QED BY <1>2, <2>1 DEF vars, IInv, ChannelInv, ChannelOf, BufferInv,
                            BuffersOf, Posted, Received, Started, Done
<1> QED BY <1>1, <1>2 DEF Next, Terminating

-----------------------------------------------------------------------------
(***************************************************************************)
(* Refinement of the promise of Backend::exchange.                         *)
(***************************************************************************)

\* A rank enters an exchange with the synchronization that starts it.
Entered == [r \in Rank |-> IF pc[r] = "sync_input" THEN iter[r] ELSE iter[r] + 1]

\* What a rank sends next, or is sending.
Halo == [r \in Rank |-> IF pc[r] \in {"sync_input", "copy_input"}
                        THEN memory[r]["hoew"] ELSE memory[r]["hins"]]

\* The source of a message has posted at least what its destination received.
LEMMA ReceivedWasPosted ==
  ASSUME IInv, NEW r \in Rank, NEW t \in Tag
  PROVE  Posted(Source(t, r), t) >= Received(r, t)
<1>1. Source(t, r) \in Rank /\ Dest(t, Source(t, r)) = r
  BY DestSource
<1>2. \/ Posted(Source(t, r), t) = Received(r, t)
      \/ Posted(Source(t, r), t) = Received(r, t) + 1
  BY <1>1 DEF IInv, ChannelInv, ChannelOf
<1>3. Received(r, t) \in Nat
  BY ProgramOrder DEF IInv, LocalInv
<1> QED BY <1>2, <1>3

\* A rank sends east and west only after it has received from the north and
\* the south, and it sends at all only in an exchange it has entered.
LEMMA StagesInOrder ==
  ASSUME IInv, NEW r \in Rank
  PROVE  /\ Posted(r, "9903") <= Received(r, "9901")
         /\ Posted(r, "9903") <= Received(r, "9902")
         /\ Posted(r, "9904") <= Received(r, "9901")
         /\ Posted(r, "9904") <= Received(r, "9902")
         /\ \A t \in Tag : Posted(r, t) <= Entered[r]
         /\ Entered[r] \in Nat
<1>1. /\ iter[r] \in Nat /\ pc[r] \in Location
      /\ call[r] \in {"ready", "posted", "received"}
  BY IterationsAssumption DEF IInv, LocalInv, TypeOK, Location
<1>2. Entered[r] = IF pc[r] = "sync_input" THEN iter[r] ELSE iter[r] + 1
  BY DEF Entered
<1> QED BY <1>1, <1>2 DEF Posted, Received, Started, Done, Index, Tag,
                          Location, Syncs, Copies

\* When a rank is done with its last segment, every rank around it has
\* entered the exchange.
LEMMA AroundEntered ==
  ASSUME IInv, NEW r \in Rank, pc[r] = "9904",
         call[r] = "received" \/ West(r) = r
  PROVE  \A q \in Around(r) : Entered[q] >= iter[r] + 1
<1>1. iter[r] \in Nat /\ Entered[r] = iter[r] + 1
  BY IterationsAssumption DEF IInv, LocalInv, TypeOK, Entered
<1>2. \A t \in Tag \ {"9904"} : Received(r, t) = iter[r] + 1
  BY DEF Received, Done, Index, Tag
<1>3. /\ North(r) \in Rank /\ South(r) \in Rank
      /\ East(r) \in Rank /\ West(r) \in Rank
  BY NeighborType
<1>4. /\ Posted(North(r), "9901") >= iter[r] + 1
      /\ Posted(South(r), "9902") >= iter[r] + 1
      /\ Posted(East(r), "9903") >= iter[r] + 1
  <2>1. \A t \in Tag \ {"9904"} : Posted(Source(t, r), t) >= iter[r] + 1
    BY <1>2, ReceivedWasPosted
  <2> QED BY <2>1 DEF Source, Tag
<1>5. ASSUME NEW q \in Rank, NEW t \in Tag, Posted(q, t) >= iter[r] + 1
      PROVE  Entered[q] >= iter[r] + 1
  <2>1. Posted(q, t) <= Entered[q] /\ Posted(q, t) \in Nat /\ Entered[q] \in Nat
    BY StagesInOrder, ProgramOrder DEF IInv, LocalInv
  <2> QED BY <1>1, <1>5, <2>1
<1>6. ASSUME NEW q \in Rank, NEW t \in {"9903", "9904"},
             Posted(q, t) >= iter[r] + 1
      PROVE  /\ Entered[North(q)] >= iter[r] + 1
             /\ Entered[South(q)] >= iter[r] + 1
  <2>1. /\ Received(q, "9901") >= Posted(q, t)
        /\ Received(q, "9902") >= Posted(q, t)
    BY StagesInOrder
  <2>2. /\ Posted(North(q), "9901") >= Received(q, "9901")
        /\ Posted(South(q), "9902") >= Received(q, "9902")
    <3>1. /\ Source("9901", q) = North(q) /\ Source("9902", q) = South(q)
          /\ "9901" \in Tag /\ "9902" \in Tag
      BY DEF Source, Tag
    <3> QED BY <3>1, ReceivedWasPosted
  <2>3. /\ North(q) \in Rank /\ South(q) \in Rank
        /\ t \in Tag /\ "9901" \in Tag /\ "9902" \in Tag
    BY NeighborType DEF Tag
  <2>4. /\ Posted(q, t) \in Nat
        /\ Received(q, "9901") \in Nat /\ Received(q, "9902") \in Nat
        /\ Posted(North(q), "9901") \in Nat /\ Posted(South(q), "9902") \in Nat
    BY <2>3, ProgramOrder DEF IInv, LocalInv
  <2>5. /\ Posted(North(q), "9901") >= iter[r] + 1
        /\ Posted(South(q), "9902") >= iter[r] + 1
    BY <1>1, <1>6, <2>1, <2>2, <2>4
  <2> QED BY <1>5, <2>3, <2>5
<1>7. /\ Entered[North(r)] >= iter[r] + 1 /\ Entered[South(r)] >= iter[r] + 1
      /\ Entered[East(r)] >= iter[r] + 1
      /\ Entered[North(East(r))] >= iter[r] + 1
      /\ Entered[South(East(r))] >= iter[r] + 1
  BY <1>3, <1>4, <1>5, <1>6 DEF Tag
\* To the west, the rank has received or is its own neighbour.
<1>8. /\ Entered[West(r)] >= iter[r] + 1
      /\ Entered[North(West(r))] >= iter[r] + 1
      /\ Entered[South(West(r))] >= iter[r] + 1
  <2>1. CASE West(r) = r
    BY <1>1, <1>7, <2>1
  <2>2. CASE call[r] = "received"
    <3>1. Received(r, "9904") = iter[r] + 1 /\ "9904" \in Tag
      BY <2>2 DEF Received, Done, Tag
    <3>2. Posted(West(r), "9904") >= iter[r] + 1
      BY <3>1, ReceivedWasPosted DEF Source
    <3> QED BY <1>3, <1>5, <1>6, <3>1, <3>2
  <2> QED BY <2>1, <2>2
<1> QED BY <1>7, <1>8 DEF Around

\* The grid of the contract is the grid of the backend.
LEMMA SameGrid ==
  /\ Contract!Rank = Rank /\ Contract!Segment = Segment
  /\ \A r : Contract!Around(r) = Around(r)
  /\ \A s, i, r : Contract!Origin(s, i, r) = Origin(s, i, r)
BY DEF Contract!Rank, Contract!Segment, Contract!Around, Contract!Origin,
       Contract!North, Contract!South, Contract!East, Contract!West,
       Rank, Segment, Around, Origin, North, South, East, West

\* The first synchronization enters the exchange.
LEMMA SynchronizeEnters ==
  ASSUME IInv, NEW r \in Rank, Synchronize(r), pc[r] = "sync_input"
  PROVE  Contract!Enter(r)
<1>1. /\ pc \in [Rank -> Location] /\ iter \in [Rank -> Nat]
  BY IterationsAssumption DEF IInv, LocalInv, TypeOK, Location
<1>2. /\ pc' = [pc EXCEPT ![r] = "copy_input"] /\ iter' = iter
      /\ memory' = memory /\ iter[r] < Iterations
  BY <1>1 DEF Synchronize, Advance, NextStatement
<1>3. Entered[r] = iter[r]
  BY DEF Entered
<1>4. Entered' = [Entered EXCEPT ![r] = @ + 1]
  BY <1>1, <1>2 DEF Entered
<1>5. Halo' = Halo
  BY <1>1, <1>2 DEF Halo
<1> QED BY <1>2, <1>3, <1>4, <1>5, SameGrid DEF Contract!Enter, Entered, Halo

\* The end of the last call leaves the exchange.
LEMMA LastSegmentLeaves ==
  ASSUME IInv, IInv', NEW r \in Rank,
         CopySegment(r, "9904") \/ Return(r, "9904")
  PROVE  Contract!Leave(r)
<1>1. /\ pc \in [Rank -> Location] /\ iter \in [Rank -> Nat]
      /\ memory \in [Rank -> [Buffer -> [Segment -> Word]]]
      /\ memory' \in [Rank -> [Buffer -> [Segment -> Word]]]
  BY IterationsAssumption DEF IInv, LocalInv, TypeOK, Location
<1>2. /\ pc' = [pc EXCEPT ![r] = "sync_input"]
      /\ iter' = [iter EXCEPT ![r] = @ + 1]
      /\ pc[r] = "9904" /\ (call[r] = "received" \/ West(r) = r)
  BY <1>1 DEF CopySegment, Return, Advance, NextStatement, Local, Source
<1>3. \A q \in Rank \ {r} : memory'[q] = memory[q]
  BY <1>1 DEF CopySegment, Return
<1>4. Entered' = Entered
  BY <1>1, <1>2 DEF Entered
<1>5. Entered[r] = iter[r] + 1 /\ iter[r] \in Nat
  BY <1>1, <1>2 DEF Entered
<1>6. \A q \in Around(r) : Entered[q] >= Entered[r]
  BY <1>2, <1>5, AroundEntered
<1>7. memory'[r]["hoew"] = [s \in Segment |-> Origin(s, iter[r] + 1, r)]
  <2>1. pc'[r] = "sync_input" /\ iter'[r] = iter[r] + 1
    BY <1>1, <1>2
  <2>2. \A s \in Segment : memory'[r]["hoew"][s] = Origin(s, iter'[r], r)
    BY <2>1 DEF IInv, BufferInv, BuffersOf
  <2>3. memory'[r]["hoew"] \in [Segment -> Word]
    BY <1>1 DEF Buffer
  <2> QED BY <2>1, <2>2, <2>3
<1>8. Halo' = [Halo EXCEPT ![r] = memory'[r]["hoew"]]
  BY <1>1, <1>2, <1>3 DEF Halo
<1>9. Halo' = [Halo EXCEPT ![r] =
                 [s \in Segment |-> Origin(s, iter[r] + 1, r)]]
  BY <1>7, <1>8
<1>10. iter[r] < Entered[r]
  BY <1>5
<1> QED BY <1>2, <1>4, <1>6, <1>9, <1>10, SameGrid
        DEF Contract!Leave, Entered, Halo

\* Every other step is invisible to the caller.
LEMMA OtherStepsStutter ==
  ASSUME IInv, NEW r \in Rank,
         \/ Synchronize(r) /\ pc[r] # "sync_input"
         \/ CopyInput(r)
         \/ CopyTranspose(r)
         \/ \E t \in Tag : Send(r, t) \/ Receive(r, t)
         \/ \E t \in Tag \ {"9904"} : CopySegment(r, t) \/ Return(r, t)
  PROVE  UNCHANGED <<Entered, iter, Halo>>
<1>1. /\ pc \in [Rank -> Location] /\ LocalInv
      /\ memory \in [Rank -> [Buffer -> [Segment -> Word]]]
  BY DEF IInv, LocalInv, TypeOK, Location
<1> SUFFICES ASSUME NEW q \in Rank
             PROVE  /\ iter' = iter
                    /\ pc'[q] = "sync_input" <=> pc[q] = "sync_input"
                    /\ Halo'[q] = Halo[q]
  BY DEF Entered, Halo
<1>2. CASE Synchronize(r) /\ pc[r] # "sync_input"
  <2>1. /\ memory' = memory /\ iter' = iter
        /\ pc' = [pc EXCEPT ![r] = NextStatement(pc[r])] /\ pc[r] \in Syncs
    BY <1>1, <1>2 DEF Synchronize, Advance, Syncs
  <2>2. NextStatement(pc[r]) \notin {"sync_input", "copy_input"}
    BY <1>2, <2>1 DEF NextStatement, Syncs
  <2> QED BY <1>1, <1>2, <2>1, <2>2 DEF Halo, Syncs
<1>3. CASE CopyInput(r)
  <2>1. /\ memory' = [memory EXCEPT ![r]["hins"] = memory[r]["hoew"]]
        /\ pc' = [pc EXCEPT ![r] = "9901"] /\ pc[r] = "copy_input" /\ iter' = iter
    BY <1>1, <1>3, CopyReads DEF CopyInput, Copy, Advance, NextStatement
  <2>2. memory'[r]["hins"] = memory[r]["hoew"]
    BY <1>1, <2>1 DEF Buffer
  <2> QED BY <1>1, <2>1, <2>2 DEF Halo
<1>4. CASE CopyTranspose(r)
  <2>1. /\ memory' = [memory EXCEPT ![r]["hiew"] = memory[r]["hons"]]
        /\ pc' = [pc EXCEPT ![r] = "sync_transpose"]
        /\ pc[r] = "copy_transpose" /\ iter' = iter
    BY <1>1, <1>4, CopyReads DEF CopyTranspose, Copy, Advance, NextStatement
  <2>2. memory'[r]["hins"] = memory[r]["hins"]
    BY <1>1, <2>1 DEF Buffer
  <2> QED BY <1>1, <2>1, <2>2 DEF Halo
<1>5. ASSUME NEW t \in Tag, Send(r, t)
      PROVE  /\ iter' = iter
             /\ pc'[q] = "sync_input" <=> pc[q] = "sync_input"
             /\ Halo'[q] = Halo[q]
  BY <1>5 DEF Send, Halo
<1>6. ASSUME NEW t \in Tag,
             Receive(r, t) \/ (t # "9904" /\ (CopySegment(r, t) \/ Return(r, t)))
      PROVE  /\ iter' = iter
             /\ pc'[q] = "sync_input" <=> pc[q] = "sync_input"
             /\ Halo'[q] = Halo[q]
  <2>1. /\ pc[r] = t /\ iter' = iter
        /\ \A p \in Rank \ {r} : pc'[p] = pc[p] /\ memory'[p] = memory[p]
        /\ pc'[r] = pc[r] \/ (t # "9904" /\ pc'[r] = NextStatement(t))
    BY <1>1, <1>6 DEF Receive, CopySegment, Return, Advance
  <2>2. /\ pc[r] \notin {"sync_input", "copy_input"}
        /\ pc'[r] \notin {"sync_input", "copy_input"}
    BY <2>1 DEF NextStatement, Tag
  <2>3. memory'[r]["hins"] = memory[r]["hins"]
    <3>1. CASE memory' = memory
      BY <3>1
    <3>2. CASE memory' # memory
      <4>1. PICK data :
              memory' = [memory EXCEPT ![r][ReceiveBuffer(t)][SegmentOf(t)] = data]
        BY <1>6, <3>2 DEF Receive, CopySegment, Return
      <4> QED BY <1>1, <4>1, Lands DEF LocalInv
    <3> QED BY <3>1, <3>2
  <2> QED BY <2>1, <2>2, <2>3 DEF Halo
<1> QED BY <1>2, <1>3, <1>4, <1>5, <1>6

\* Where hipMemcpy blocks, the MPI-HIP backend implements the promise of
\* Backend::exchange, on every grid and however MPI buffers its messages.
THEOREM Refinement == BlockingCopy => (Spec => ImplementsContract)
<1> SUFFICES ASSUME BlockingCopy
             PROVE  Spec => ImplementsContract
  OBVIOUS
<1>1. Init => Contract!Init
  BY SameGrid DEF Init, Contract!Init, Buffer
<1>2. IInv /\ IInv' /\ [Next]_vars => [Contract!Next]_Contract!vars
  <2> SUFFICES ASSUME IInv, IInv', [Next]_vars
               PROVE  Contract!Next \/ UNCHANGED <<Entered, iter, Halo>>
    BY DEF Contract!vars, Entered, Halo
  <2>1. ASSUME NEW r \in Rank, Step(r)
        PROVE  Contract!Next \/ UNCHANGED <<Entered, iter, Halo>>
    <3>1. CASE Synchronize(r) /\ pc[r] = "sync_input"
      BY <3>1, SynchronizeEnters, SameGrid DEF Contract!Next
    <3>2. CASE CopySegment(r, "9904") \/ Return(r, "9904")
      BY <3>2, LastSegmentLeaves, SameGrid DEF Contract!Next
    <3>3. CASE \/ Synchronize(r) /\ pc[r] # "sync_input"
               \/ CopyInput(r)
               \/ CopyTranspose(r)
               \/ \E t \in Tag : Send(r, t) \/ Receive(r, t)
               \/ \E t \in Tag \ {"9904"} : CopySegment(r, t) \/ Return(r, t)
      BY <3>3, OtherStepsStutter
    <3> QED BY <2>1, <3>1, <3>2, <3>3 DEF Step
  <2>2. CASE UNCHANGED vars
    BY <2>2 DEF vars, Entered, Halo
  <2> QED BY <2>1, <2>2 DEF Next, Terminating
<1>3. Spec => []IInv
  BY InitIInv, NextIInv, PTL DEF Spec
<1> QED BY <1>1, <1>2, <1>3, PTL DEF Spec, ImplementsContract, Contract!Spec

=============================================================================
