------------------------- MODULE HaloExchangeProofs -------------------------
(***************************************************************************)
(* Safety of the MPI exchange for every grid, every number of iterations   *)
(* and every choice of eager tags.                                         *)
(*                                                                         *)
(* The argument counts calls: Posted(r, t) sends and Received(r, t)        *)
(* receives of tag t are behind rank r.  A channel holds exactly the       *)
(* difference between what its source posted and what its destination      *)
(* received, and program order bounds that difference by one, because the  *)
(* two calls of a stage answer each other: the tag that comes back from    *)
(* the destination of t is Answer(t).                                      *)
(***************************************************************************)
EXTENDS HaloExchange, ExchangeTheorems

Index(p) ==
  CASE p = "copy_in" -> 0
    [] p = "9901" -> 1
    [] p = "9902" -> 2
    [] p = "copy_across" -> 3
    [] p = "9903" -> 4
    [] p = "9904" -> 5

\* Calls with tag t whose send rank r has posted.
Posted(r, t) ==
  IF Index(pc[r]) > Index(t) \/ (pc[r] = t /\ call[r] # "ready")
  THEN iter[r] + 1 ELSE iter[r]

\* Calls with tag t in which rank r has received.
Received(r, t) ==
  IF Index(pc[r]) > Index(t) \/ (pc[r] = t /\ call[r] = "received")
  THEN iter[r] + 1 ELSE iter[r]

ControlInv ==
  \A r \in Rank :
    /\ pc[r] \in {"copy_in", "copy_across"} => call[r] = "ready"
    /\ pc[r] # "copy_in" => iter[r] < Iterations

ChannelInv ==
  \A r \in Rank, t \in Tag :
    \/ /\ chan[r][t] = <<>>
       /\ Posted(r, t) = Received(Dest(t, r), t)
    \/ /\ chan[r][t] = <<Payload(t, Received(Dest(t, r), t), r)>>
       /\ Posted(r, t) = Received(Dest(t, r), t) + 1

\* What the buffers of rank r hold at each place in the exchange: every
\* buffer is filled by the time it is read.
BuffersOf(r) ==
  /\ pc[r] = "copy_in" => \A s \in Segment : hoew[r][s] = Origin(s, iter[r], r)
  /\ pc[r] # "copy_in" => \A s \in Segment : hins[r][s] = Origin(s, iter[r], r)
  /\ pc[r] # "copy_in" /\ Received(r, "9901") = iter[r] + 1
       => hons[r]["n"] = Origin("n", iter[r], North(r))
  /\ pc[r] # "copy_in" /\ Received(r, "9902") = iter[r] + 1
       => hons[r]["2n"] = Origin("2n", iter[r], South(r))
  /\ pc[r] \in {"9903", "9904"}
       => /\ hiew[r]["n"] = Origin("n", iter[r], North(r))
          /\ hiew[r]["2n"] = Origin("2n", iter[r], South(r))
  /\ pc[r] # "copy_in" /\ Received(r, "9903") = iter[r] + 1
       => hoew[r]["n"] = Origin("n", iter[r] + 1, r)
  /\ pc[r] # "copy_in" /\ Received(r, "9904") = iter[r] + 1
       => hoew[r]["2n"] = Origin("2n", iter[r] + 1, r)

BufferInv == \A r \in Rank : BuffersOf(r)

IInv == TypeOK /\ ControlInv /\ ChannelInv /\ BufferInv

-----------------------------------------------------------------------------
(***************************************************************************)
(* The counters.                                                           *)
(***************************************************************************)

\* The counters are numbers, a rank receives only in a call it has posted,
\* and within a rank the two calls of a stage come in order.
LEMMA ProgramOrder ==
  ASSUME TypeOK, NEW r \in Rank
  PROVE  /\ \A t \in Tag :
              /\ Posted(r, t) \in Nat /\ Received(r, t) \in Nat
              /\ Received(r, t) >= iter[r]
              /\ Received(r, t) <= Posted(r, t)
              /\ Posted(r, t) <= iter[r] + 1
         /\ Posted(r, "9902") <= Received(r, "9901")
         /\ Posted(r, "9904") <= Received(r, "9903")
         /\ Posted(r, "9901") <= Received(r, "9902") + 1
         /\ Posted(r, "9903") <= Received(r, "9904") + 1
<1>1. iter[r] \in Nat /\ pc[r] \in Location /\ call[r] \in CallState
  BY IterationsAssumption DEF TypeOK
<1> QED BY <1>1 DEF Posted, Received, Index, Tag, Location, CallState

\* When a rank is about to post a send, its previous message with the same
\* tag has been received: its answer could not have arrived otherwise.
LEMMA PreviousReceived ==
  ASSUME TypeOK, ChannelInv, NEW r \in Rank, NEW t \in Tag,
         pc[r] = t, call[r] = "ready"
  PROVE  chan[r][t] = <<>> /\ Posted(r, t) = Received(Dest(t, r), t)
<1> DEFINE d == Dest(t, r)
           u == Answer(t)
<1>1. d \in Rank /\ u \in Tag /\ Dest(u, d) = r
  BY DestSource, AnswerReturns
<1>2. Posted(d, u) >= Received(r, u)
  <2>1. Posted(d, u) = Received(r, u) \/ Posted(d, u) = Received(r, u) + 1
    BY <1>1 DEF ChannelInv
  <2>2. Received(r, u) \in Nat
    BY <1>1, ProgramOrder
  <2> QED BY <2>1, <2>2
<1>3. iter[r] \in Nat /\ Posted(r, t) = iter[r]
  BY IterationsAssumption DEF TypeOK, Posted, Index, Tag
<1>4. Received(d, t) >= iter[r]
  <2> HIDE DEF d
  <2>1. CASE t \in {"9901", "9903"}
    <3>1. Received(r, u) >= iter[r]
      BY <1>1, ProgramOrder
    <3>2. Posted(d, u) <= Received(d, t)
      BY <1>1, <2>1, ProgramOrder DEF Answer
    <3>3. /\ Posted(d, u) \in Nat /\ Received(d, t) \in Nat
          /\ Received(r, u) \in Nat
      BY <1>1, ProgramOrder
    <3> QED BY <1>2, <1>3, <3>1, <3>2, <3>3
  <2>2. CASE t \in {"9902", "9904"}
    <3>1. Received(r, u) = iter[r] + 1
      BY <2>2 DEF Received, Index, Answer
    <3>2. Posted(d, u) <= Received(d, t) + 1
      BY <1>1, <2>2, ProgramOrder DEF Answer
    <3>3. Posted(d, u) \in Nat /\ Received(d, t) \in Nat
      BY <1>1, ProgramOrder
    <3> QED BY <1>2, <1>3, <3>1, <3>2, <3>3
  <2> QED BY <2>1, <2>2 DEF Tag
<1>5. Received(d, t) \in Nat
  BY <1>1, ProgramOrder
<1>6. \/ chan[r][t] = <<>> /\ Posted(r, t) = Received(d, t)
      \/ Posted(r, t) = Received(d, t) + 1
  BY DEF ChannelInv
<1> HIDE DEF d
<1>7. chan[r][t] = <<>> /\ Posted(r, t) = Received(d, t)
  BY <1>3, <1>4, <1>5, <1>6
<1> QED BY <1>7 DEF d

(***************************************************************************)
(* Which step moves which counter.                                         *)
(***************************************************************************)

\* Copies and returns move no counter.
LEMMA QuietSteps ==
  ASSUME TypeOK, ControlInv, NEW r \in Rank,
         \/ CopyIn(r)
         \/ CopyAcross(r)
         \/ \E t \in Tag : Return(r, t),
         NEW q \in Rank, NEW u \in Tag
  PROVE  Posted(q, u)' = Posted(q, u) /\ Received(q, u)' = Received(q, u)
<1>1. /\ iter \in [Rank -> Int] /\ pc \in [Rank -> Location]
      /\ call \in [Rank -> CallState]
      /\ pc[r] \in {"copy_in", "copy_across"} => call[r] = "ready"
  BY IterationsAssumption DEF TypeOK, ControlInv
<1>2. CASE CopyIn(r)
  BY <1>1, <1>2 DEF CopyIn, Posted, Received, Index, Tag, Location, CallState
<1>3. CASE CopyAcross(r)
  BY <1>1, <1>3 DEF CopyAcross, Posted, Received, Index, Tag, Location, CallState
<1>4. ASSUME NEW t \in Tag, Return(r, t)
      PROVE  Posted(q, u)' = Posted(q, u) /\ Received(q, u)' = Received(q, u)
  <2>1. CASE q = r
    BY <1>1, <1>4, <2>1 DEF Return, MayReturn, After, Posted, Received, Index, Tag
  <2>2. CASE q # r
    BY <1>1, <1>4, <2>2 DEF Return, MayReturn, Posted, Received
  <2> QED BY <2>1, <2>2
<1> QED BY <1>2, <1>3, <1>4

\* Posting a send counts one send.
LEMMA SendCounts ==
  ASSUME TypeOK, NEW r \in Rank, NEW t \in Tag, Send(r, t),
         NEW q \in Rank, NEW u \in Tag
  PROVE  /\ Received(q, u)' = Received(q, u)
         /\ q = r /\ u = t => Posted(q, u)' = Posted(q, u) + 1
         /\ ~(q = r /\ u = t) => Posted(q, u)' = Posted(q, u)
<1>1. /\ iter \in [Rank -> Int] /\ pc \in [Rank -> Location]
      /\ call \in [Rank -> CallState]
  BY IterationsAssumption DEF TypeOK
<1>2. CASE q = r
  BY <1>1, <1>2 DEF Send, Posted, Received, Index, Tag
<1>3. CASE q # r
  BY <1>1, <1>3 DEF Send, Posted, Received
<1> QED BY <1>2, <1>3

\* Matching a receive counts one receive.
LEMMA ReceiveCounts ==
  ASSUME TypeOK, NEW r \in Rank, NEW t \in Tag, Receive(r, t),
         NEW q \in Rank, NEW u \in Tag
  PROVE  /\ Posted(q, u)' = Posted(q, u)
         /\ q = r /\ u = t => Received(q, u)' = Received(q, u) + 1
         /\ ~(q = r /\ u = t) => Received(q, u)' = Received(q, u)
<1>1. /\ iter \in [Rank -> Int] /\ pc \in [Rank -> Location]
      /\ call \in [Rank -> CallState]
  BY IterationsAssumption DEF TypeOK
<1>2. CASE q = r
  BY <1>1, <1>2 DEF Receive, MayReceive, Posted, Received, Index, Tag
<1>3. CASE q # r
  BY <1>1, <1>3 DEF Receive, MayReceive, Posted, Received
<1> QED BY <1>2, <1>3

-----------------------------------------------------------------------------
(***************************************************************************)
(* Type correctness.                                                       *)
(***************************************************************************)

\* Every step of a rank preserves the types of all variables.
LEMMA StepType ==
  ASSUME TypeOK, ControlInv, NEW r \in Rank, Step(r)
  PROVE  TypeOK'
<1> USE DEF TypeOK
<1>1. CASE CopyIn(r)
  BY <1>1 DEF CopyIn, Location, Tag
<1>2. CASE CopyAcross(r)
  BY <1>2 DEF CopyAcross, Location, Tag
<1>3. ASSUME NEW t \in Tag, Send(r, t)
      PROVE  TypeOK'
  <2>1. SendBuffer(t, r)[SegmentOf(t)] \in Rank \cup {Zero}
    BY DEF SendBuffer, SegmentOf, Segment, Buffer
  <2>2. chan' \in [Rank -> [Tag -> Seq(Rank \cup {Zero})]]
    BY <1>3, <2>1 DEF Send
  <2> QED BY <1>3, <2>2 DEF Send, CallState
<1>4. ASSUME NEW t \in Tag, Receive(r, t)
      PROVE  TypeOK'
  <2> DEFINE c == chan[Source(t, r)][t]
             data == Head(c)
  <2>1. Source(t, r) \in Rank
    BY DestSource
  <2>2. c \in Seq(Rank \cup {Zero}) /\ c # <<>>
    BY <1>4, <2>1 DEF Receive, MayReceive
  <2>3. data \in Rank \cup {Zero} /\ Tail(c) \in Seq(Rank \cup {Zero})
    <3> HIDE DEF c
    <3> QED BY <2>2
  <2>4. chan' \in [Rank -> [Tag -> Seq(Rank \cup {Zero})]]
    BY <1>4, <2>1, <2>3 DEF Receive, MayReceive
  <2>5. SegmentOf(t) \in Segment
    BY DEF SegmentOf, Segment
  <2>6. hons' \in [Rank -> Buffer] /\ hoew' \in [Rank -> Buffer]
    <3> HIDE DEF data
    <3>1. CASE NorthSouth(t)
      <4>1. hons' = [hons EXCEPT ![r][SegmentOf(t)] = data] /\ hoew' = hoew
        BY <1>4, <3>1 DEF Receive, MayReceive, data
      <4> QED BY <4>1, <2>3, <2>5 DEF Buffer
    <3>2. CASE ~NorthSouth(t)
      <4>1. hoew' = [hoew EXCEPT ![r][SegmentOf(t)] = data] /\ hons' = hons
        BY <1>4, <3>2 DEF Receive, MayReceive, data
      <4> QED BY <4>1, <2>3, <2>5 DEF Buffer
    <3> QED BY <3>1, <3>2
  <2> QED BY <1>4, <2>4, <2>6 DEF Receive, MayReceive, CallState
<1>5. ASSUME NEW t \in Tag, Return(r, t)
      PROVE  TypeOK'
  <2>1. After(t) \in Location
    BY DEF After, Tag, Location
  <2>2. iter' \in [Rank -> 0 .. Iterations]
    <3>1. iter[r] < Iterations /\ iter[r] \in 0 .. Iterations
      BY <1>5 DEF Return, MayReturn, ControlInv, Tag
    <3>2. iter[r] + 1 \in 0 .. Iterations
      BY <3>1, IterationsAssumption
    <3> QED BY <1>5, <3>2 DEF Return, MayReturn
  <2> QED BY <1>5, <2>1, <2>2 DEF Return, MayReturn, CallState
<1> QED BY <1>1, <1>2, <1>3, <1>4, <1>5 DEF Step

\* Every step of a rank leaves each rank inside an exchange it may perform,
\* and no call in progress outside the four calls.
LEMMA StepControl ==
  ASSUME TypeOK, ControlInv, NEW r \in Rank, Step(r)
  PROVE  ControlInv'
<1> SUFFICES ASSUME NEW q \in Rank
             PROVE  /\ (pc[q] \in {"copy_in", "copy_across"} => call[q] = "ready")'
                    /\ (pc[q] # "copy_in" => iter[q] < Iterations)'
  BY DEF ControlInv
<1> USE DEF TypeOK, ControlInv
<1>1. CASE CopyIn(r)
  BY <1>1 DEF CopyIn
<1>2. CASE CopyAcross(r)
  BY <1>2 DEF CopyAcross
<1>3. ASSUME NEW t \in Tag, Send(r, t)
      PROVE  /\ (pc[q] \in {"copy_in", "copy_across"} => call[q] = "ready")'
             /\ (pc[q] # "copy_in" => iter[q] < Iterations)'
  BY <1>3 DEF Send, Tag
<1>4. ASSUME NEW t \in Tag, Receive(r, t)
      PROVE  /\ (pc[q] \in {"copy_in", "copy_across"} => call[q] = "ready")'
             /\ (pc[q] # "copy_in" => iter[q] < Iterations)'
  BY <1>4 DEF Receive, MayReceive, Tag
<1>5. ASSUME NEW t \in Tag, Return(r, t)
      PROVE  /\ (pc[q] \in {"copy_in", "copy_across"} => call[q] = "ready")'
             /\ (pc[q] # "copy_in" => iter[q] < Iterations)'
  BY <1>5 DEF Return, MayReturn, After, Tag
<1> QED BY <1>1, <1>2, <1>3, <1>4, <1>5 DEF Step

\* The initial state is of the right type.
LEMMA InitType == Init => TypeOK /\ ControlInv
BY IterationsAssumption DEF Init, TypeOK, ControlInv, Location, CallState, Buffer

\* Every variable has its type in every reachable state, for every grid,
\* number of exchanges and set of eager tags.
THEOREM TypeCorrect == Spec => [](TypeOK /\ ControlInv)
<1>1. TypeOK /\ ControlInv /\ [Next]_vars => (TypeOK /\ ControlInv)'
  <2> SUFFICES ASSUME TypeOK, ControlInv, [Next]_vars
               PROVE  (TypeOK /\ ControlInv)'
    OBVIOUS
  <2>1. CASE \E r \in Rank : Step(r)
    BY <2>1, StepType, StepControl
  <2>2. CASE UNCHANGED vars
    BY <2>2 DEF vars, TypeOK, ControlInv
  <2> QED BY <2>1, <2>2 DEF Next, Terminating
<1> QED BY InitType, <1>1, PTL DEF Spec

-----------------------------------------------------------------------------
(***************************************************************************)
(* Channels.                                                               *)
(***************************************************************************)

\* What a channel holds, as one formula for the proofs below.
ChannelOf(r, t) ==
  \/ /\ chan[r][t] = <<>>
     /\ Posted(r, t) = Received(Dest(t, r), t)
  \/ /\ chan[r][t] = <<Payload(t, Received(Dest(t, r), t), r)>>
     /\ Posted(r, t) = Received(Dest(t, r), t) + 1

\* The segment a rank is about to send is the one its neighbour expects.
LEMMA SentData ==
  ASSUME TypeOK, BufferInv, NEW r \in Rank, NEW t \in Tag, pc[r] = t
  PROVE  SendBuffer(t, r)[SegmentOf(t)] = Payload(t, iter[r], r)
BY DEF BufferInv, BuffersOf, SendBuffer, SegmentOf, NorthSouth, Payload,
       Segment, Tag

\* The segment a rank is about to receive is the one its partner sent in the
\* same exchange.
LEMMA ReceivedData ==
  ASSUME TypeOK, ChannelInv, NEW r \in Rank, NEW t \in Tag, Receive(r, t)
  PROVE  /\ chan[Source(t, r)][t] = <<Payload(t, iter[r], Source(t, r))>>
         /\ Received(r, t) = iter[r]
         /\ Posted(Source(t, r), t) = Received(r, t) + 1
<1>1. Source(t, r) \in Rank /\ Dest(t, Source(t, r)) = r
  BY DestSource
<1>2. Received(r, t) = iter[r]
  BY DEF Receive, MayReceive, Received, Index, Tag
<1>3. chan[Source(t, r)][t] # <<>>
  BY DEF Receive, MayReceive
<1> QED BY <1>1, <1>2, <1>3 DEF ChannelInv

LEMMA StepChannel ==
  ASSUME TypeOK, ControlInv, ChannelInv, BufferInv, NEW r \in Rank, Step(r)
  PROVE  ChannelInv'
<1> SUFFICES ASSUME NEW q \in Rank, NEW u \in Tag
             PROVE  ChannelOf(q, u)'
  BY DEF ChannelInv, ChannelOf
<1> DEFINE d == Dest(u, q)
<1>1. d \in Rank /\ Source(u, d) = q
  BY DestSource
<1>2. ChannelOf(q, u)
  BY DEF ChannelInv, ChannelOf
<1>3. CASE \/ CopyIn(r)
           \/ CopyAcross(r)
           \/ \E t \in Tag : Return(r, t)
  <2>1. chan' = chan
    BY <1>3 DEF CopyIn, CopyAcross, Return, MayReturn
  <2>2. Posted(q, u)' = Posted(q, u) /\ Received(d, u)' = Received(d, u)
    BY <1>1, <1>3, QuietSteps
  <2> QED BY <1>2, <2>1, <2>2 DEF ChannelOf
<1>4. ASSUME NEW t \in Tag, Send(r, t)
      PROVE  ChannelOf(q, u)'
  <2>1. Received(d, u)' = Received(d, u)
    BY <1>1, <1>4, SendCounts
  <2>2. CASE q = r /\ u = t
    <3>1. chan[r][t] = <<>> /\ Posted(r, t) = Received(d, t)
      BY <1>4, <2>2, PreviousReceived DEF Send
    <3>2. Posted(r, t) = iter[r]
      BY <1>4 DEF Send, Posted, Index, Tag
    <3>3. chan'[r][t] = Append(chan[r][t], SendBuffer(t, r)[SegmentOf(t)])
      BY <1>4 DEF Send, TypeOK
    <3>4. chan'[r][t] = <<Payload(t, iter[r], r)>>
      BY <1>4, <3>1, <3>3, SentData DEF Send
    <3>5. Posted(r, t)' = Posted(r, t) + 1
      BY <1>4, SendCounts
    <3> QED BY <2>1, <2>2, <3>1, <3>2, <3>4, <3>5 DEF ChannelOf
  <2>3. CASE ~(q = r /\ u = t)
    <3>1. chan'[q][u] = chan[q][u]
      BY <1>4, <2>3 DEF Send, TypeOK
    <3>2. Posted(q, u)' = Posted(q, u)
      BY <1>4, <2>3, SendCounts
    <3> QED BY <1>2, <2>1, <3>1, <3>2 DEF ChannelOf
  <2> QED BY <2>2, <2>3
<1>5. ASSUME NEW t \in Tag, Receive(r, t)
      PROVE  ChannelOf(q, u)'
  <2>1. Posted(q, u)' = Posted(q, u)
    BY <1>5, ReceiveCounts
  <2>2. CASE d = r /\ u = t
    <3>1. q = Source(t, r)
      BY <1>1, <2>2
    <3>2. /\ chan[q][t] = <<Payload(t, iter[r], q)>>
          /\ Posted(q, t) = Received(r, t) + 1
      BY <1>5, <3>1, ReceivedData
    <3>3. chan'[q][t] = <<>>
      BY <1>5, <3>1, <3>2 DEF Receive, MayReceive, TypeOK
    <3>4. Received(r, t)' = Received(r, t) + 1
      BY <1>5, ReceiveCounts
    <3> QED BY <2>1, <2>2, <3>2, <3>3, <3>4 DEF ChannelOf
  <2>3. CASE ~(d = r /\ u = t)
    <3>1. ~(q = Source(t, r) /\ u = t)
      BY <2>3, DestSource
    <3>2. chan'[q][u] = chan[q][u]
      BY <1>5, <3>1, DestSource DEF Receive, MayReceive, TypeOK
    <3>3. Received(d, u)' = Received(d, u)
      BY <1>1, <1>5, <2>3, ReceiveCounts
    <3> QED BY <1>2, <2>1, <3>2, <3>3 DEF ChannelOf
  <2> QED BY <2>2, <2>3
<1> QED BY <1>3, <1>4, <1>5 DEF Step

-----------------------------------------------------------------------------
(***************************************************************************)
(* Buffers.                                                                *)
(***************************************************************************)

LEMMA StepBuffer ==
  ASSUME TypeOK, ControlInv, ChannelInv, BufferInv, NEW r \in Rank, Step(r)
  PROVE  BufferInv'
<1> SUFFICES ASSUME NEW q \in Rank
             PROVE  BuffersOf(q)'
  BY DEF BufferInv
<1>1. BuffersOf(q)
  BY DEF BufferInv
<1>2. CASE q # r
  <2>1. /\ iter'[q] = iter[q] /\ pc'[q] = pc[q] /\ call'[q] = call[q]
        /\ hins'[q] = hins[q] /\ hons'[q] = hons[q]
        /\ hiew'[q] = hiew[q] /\ hoew'[q] = hoew[q]
    BY <1>2 DEF Step, CopyIn, CopyAcross, Send, Receive, MayReceive, Return, MayReturn, TypeOK
  <2> QED BY <1>1, <2>1 DEF BuffersOf, Received
<1>3. CASE q = r
  <2> USE <1>3
  <2>1. CASE CopyIn(r)
    <3>1. /\ pc'[r] = "9901" /\ iter'[r] = iter[r] /\ iter[r] \in Nat
          /\ hins'[r] = hoew[r] /\ pc[r] = "copy_in"
      BY <2>1, IterationsAssumption DEF CopyIn, TypeOK
    <3>2. \A v \in Tag : Received(r, v)' = iter[r]
      <4>1. \A v \in Tag : Received(r, v)' = Received(r, v)
        BY <2>1, QuietSteps
      <4> QED BY <3>1, <4>1 DEF Received, Index, Tag
    <3> QED BY <1>1, <3>1, <3>2 DEF BuffersOf, Tag
  <2>2. CASE CopyAcross(r)
    <3>1. /\ pc'[r] = "9903" /\ iter'[r] = iter[r] /\ iter[r] \in Nat
          /\ hiew'[r] = hons[r] /\ pc[r] = "copy_across"
          /\ hins'[r] = hins[r] /\ hons'[r] = hons[r] /\ hoew'[r] = hoew[r]
      BY <2>2, IterationsAssumption DEF CopyAcross, TypeOK
    <3>2. /\ hons[r]["n"] = Origin("n", iter[r], North(r))
          /\ hons[r]["2n"] = Origin("2n", iter[r], South(r))
      BY <1>1, <3>1 DEF BuffersOf, Received, Index
    <3>3. \A v \in Tag : Received(r, v)' = Received(r, v)
      BY <2>2, QuietSteps
    <3>4. Received(r, "9903") = iter[r] /\ Received(r, "9904") = iter[r]
      BY <3>1 DEF Received, Index
    <3> QED BY <1>1, <3>1, <3>2, <3>3, <3>4 DEF BuffersOf, Tag
  <2>3. ASSUME NEW t \in Tag, Send(r, t)
        PROVE  BuffersOf(r)'
    <3>1. \A v \in Tag : Received(r, v)' = Received(r, v)
      BY <2>3, SendCounts
    <3> QED BY <1>1, <2>3, <3>1 DEF Send, BuffersOf, Tag
  <2>4. ASSUME NEW t \in Tag, Receive(r, t)
        PROVE  BuffersOf(r)'
    <3> DEFINE data == Payload(t, iter[r], Source(t, r))
    <3>1. Head(chan[Source(t, r)][t]) = data
      BY <2>4, ReceivedData
    <3>2. iter[r] \in Nat /\ iter'[r] = iter[r] /\ pc'[r] = t /\ pc[r] = t
      BY <2>4, IterationsAssumption DEF Receive, MayReceive, TypeOK
    <3>3. /\ hins'[r] = hins[r] /\ hiew'[r] = hiew[r]
      BY <2>4 DEF Receive, MayReceive
    <3>4. \A v \in Tag \ {t} : Received(r, v)' = Received(r, v)
      BY <2>4, ReceiveCounts
    <3>5. CASE NorthSouth(t)
      <4>1. /\ hoew'[r] = hoew[r]
            /\ hons'[r] = [hons[r] EXCEPT ![SegmentOf(t)] = data]
        BY <2>4, <3>1, <3>5 DEF Receive, MayReceive, TypeOK
      <4>2. /\ t = "9901" => data = Origin("n", iter[r], North(r))
            /\ t = "9902" => data = Origin("2n", iter[r], South(r))
        BY DEF Payload, Source
      <4>3. hons[r] \in [Segment -> Rank \cup {Zero}]
        BY DEF TypeOK, Buffer
      <4> HIDE DEF data
      <4>4. CASE t = "9901"
        <5>1. /\ hons'[r]["n"] = Origin("n", iter[r], North(r))
              /\ Received(r, "9902") = iter[r]
              /\ Received(r, "9903") = iter[r] /\ Received(r, "9904") = iter[r]
          BY <3>2, <4>1, <4>2, <4>3, <4>4
             DEF SegmentOf, Segment, Received, Index
        <5> QED BY <1>1, <3>2, <3>3, <3>4, <4>1, <4>4, <5>1 DEF BuffersOf, Tag
      <4>5. CASE t = "9902"
        <5>1. /\ hons'[r]["2n"] = Origin("2n", iter[r], South(r))
              /\ hons'[r]["n"] = hons[r]["n"]
              /\ Received(r, "9903") = iter[r] /\ Received(r, "9904") = iter[r]
          BY <3>2, <4>1, <4>2, <4>3, <4>5
             DEF SegmentOf, Segment, Received, Index
        <5> QED BY <1>1, <3>2, <3>3, <3>4, <4>1, <4>5, <5>1 DEF BuffersOf, Tag
      <4> QED BY <3>5, <4>4, <4>5 DEF NorthSouth
    <3>6. CASE ~NorthSouth(t)
      <4>1. /\ hons'[r] = hons[r]
            /\ hoew'[r] = [hoew[r] EXCEPT ![SegmentOf(t)] = data]
        BY <2>4, <3>1, <3>6 DEF Receive, MayReceive, TypeOK
      <4>2. /\ t = "9903" => data = Origin("n", iter[r], North(East(r)))
            /\ t = "9904" => data = Origin("2n", iter[r], South(West(r)))
        BY DEF Payload, Source
      <4>3. /\ t = "9903" => data = Origin("n", iter[r] + 1, r)
            /\ t = "9904" => data = Origin("2n", iter[r] + 1, r)
        BY <3>2, <4>2, OriginStep
      <4>4. hoew[r] \in [Segment -> Rank \cup {Zero}]
        BY DEF TypeOK, Buffer
      <4> HIDE DEF data
      <4>5. CASE t = "9903"
        <5>1. /\ hoew'[r]["n"] = Origin("n", iter[r] + 1, r)
              /\ Received(r, "9904") = iter[r]
          BY <3>2, <4>1, <4>3, <4>4, <4>5
             DEF SegmentOf, Segment, Received, Index
        <5> QED BY <1>1, <3>2, <3>3, <3>4, <4>1, <4>5, <5>1 DEF BuffersOf, Tag
      <4>6. CASE t = "9904"
        <5>1. /\ hoew'[r]["2n"] = Origin("2n", iter[r] + 1, r)
              /\ hoew'[r]["n"] = hoew[r]["n"]
          BY <3>2, <4>1, <4>3, <4>4, <4>6 DEF SegmentOf, Segment
        <5> QED BY <1>1, <3>2, <3>3, <3>4, <4>1, <4>6, <5>1 DEF BuffersOf, Tag
      <4> QED BY <3>6, <4>5, <4>6 DEF NorthSouth, Tag
    <3> QED BY <3>5, <3>6
  <2>5. ASSUME NEW t \in Tag, Return(r, t)
        PROVE  BuffersOf(r)'
    <3>1. \A v \in Tag : Received(r, v)' = Received(r, v)
      BY <2>5, QuietSteps
    <3>2. iter[r] \in Nat /\ pc[r] = t /\ call[r] = "received"
      BY <2>5, IterationsAssumption DEF Return, MayReturn, TypeOK
    <3>3. pc'[r] = After(t)
      BY <2>5 DEF Return, MayReturn, TypeOK
    <3>4. /\ hins'[r] = hins[r] /\ hons'[r] = hons[r]
          /\ hiew'[r] = hiew[r] /\ hoew'[r] = hoew[r]
      BY <2>5 DEF Return, MayReturn
    <3>5. CASE t = "9904"
      <4>1. pc'[r] = "copy_in" /\ iter'[r] = iter[r] + 1
        BY <2>5, <3>3, <3>5 DEF Return, MayReturn, After, TypeOK
      <4>2. /\ hoew[r]["n"] = Origin("n", iter[r] + 1, r)
            /\ hoew[r]["2n"] = Origin("2n", iter[r] + 1, r)
        BY <1>1, <3>2, <3>5 DEF BuffersOf, Received, Index
      <4> QED BY <3>4, <4>1, <4>2 DEF BuffersOf, Segment
    <3>6. CASE t # "9904"
      <4>1. iter'[r] = iter[r]
        BY <2>5, <3>6 DEF Return, MayReturn
      <4>2. /\ pc'[r] # "copy_in"
            /\ pc'[r] \in {"9903", "9904"} => pc[r] \in {"9903", "9904"}
        BY <3>2, <3>3, <3>6 DEF After, Tag
      <4> QED BY <1>1, <3>1, <3>2, <3>4, <4>1, <4>2 DEF BuffersOf, Tag
    <3> QED BY <3>5, <3>6
  <2> QED BY <2>1, <2>2, <2>3, <2>4, <2>5 DEF Step
<1> QED BY <1>2, <1>3

-----------------------------------------------------------------------------
(***************************************************************************)
(* The inductive invariant and what it implies.                            *)
(***************************************************************************)

LEMMA InitIInv == Init => IInv
<1> SUFFICES ASSUME Init
             PROVE  IInv
  OBVIOUS
<1>1. TypeOK /\ ControlInv
  BY InitType
<1>2. ChannelInv
  BY DestSource DEF Init, ChannelInv, Posted, Received, Index, Tag
<1>3. BufferInv
  BY OriginZero DEF Init, BufferInv, BuffersOf
<1> QED BY <1>1, <1>2, <1>3 DEF IInv

LEMMA NextIInv == IInv /\ [Next]_vars => IInv'
<1> SUFFICES ASSUME IInv, [Next]_vars
             PROVE  IInv'
  OBVIOUS
<1>1. CASE \E r \in Rank : Step(r)
  BY <1>1, StepType, StepControl, StepChannel, StepBuffer DEF IInv
<1>2. CASE UNCHANGED vars
  BY <1>2 DEF vars, IInv, TypeOK, ControlInv, ChannelInv, BufferInv,
              BuffersOf, Posted, Received
<1> QED BY <1>1, <1>2 DEF Next, Terminating

LEMMA Invariant == Spec => []IInv
BY InitIInv, NextIInv, PTL DEF Spec

\* After every exchange each rank holds exactly the data the exchange
\* promises, although no barrier separates the exchanges.
THEOREM HaloIsTransported == Spec => []HaloTransported
<1>1. IInv => HaloTransported
  BY DEF IInv, BufferInv, BuffersOf, HaloTransported
<1> QED BY Invariant, <1>1, PTL

\* No channel ever holds two messages: a receive cannot match the message of
\* an earlier or later exchange.
THEOREM AtMostOneMessage == Spec => []OneMessagePerTag
<1>1. IInv => OneMessagePerTag
  <2> SUFFICES ASSUME IInv, NEW r \in Rank, NEW t \in Tag
               PROVE  Len(chan[r][t]) <= 1
    BY DEF OneMessagePerTag
  <2>1. chan[r][t] = <<>> \/ chan[r][t] = <<Payload(t, Received(Dest(t, r), t), r)>>
    BY DEF IInv, ChannelInv
  <2>2. CASE chan[r][t] = <<>>
    BY <2>2
  <2>3. CASE chan[r][t] = <<Payload(t, Received(Dest(t, r), t), r)>>
    <3> DEFINE m == Payload(t, Received(Dest(t, r), t), r)
    <3> HIDE DEF m
    <3>1. Len(<<m>>) = 1
      OBVIOUS
    <3> QED BY <2>3, <3>1 DEF m
  <2> QED BY <2>1, <2>2, <2>3
<1> QED BY Invariant, <1>1, PTL

\* Nothing is in flight once every rank has completed its exchanges.
THEOREM ChannelsDrained == Spec => []NothingInFlight
<1>1. IInv => NothingInFlight
  <2> SUFFICES ASSUME IInv, Finished, NEW r \in Rank, NEW t \in Tag
               PROVE  chan[r][t] = <<>>
    BY DEF NothingInFlight
  <2>1. \A q \in Rank : Posted(q, t) = Iterations /\ Received(q, t) = Iterations
    <3> SUFFICES ASSUME NEW q \in Rank
                 PROVE  Posted(q, t) = Iterations /\ Received(q, t) = Iterations
      OBVIOUS
    <3>1. iter[q] = Iterations /\ pc[q] = "copy_in"
      BY IterationsAssumption DEF IInv, ControlInv, Finished
    <3> QED BY <3>1 DEF Posted, Received, Index, Tag
  <2>2. Iterations # Iterations + 1
    BY IterationsAssumption
  <2> QED BY <2>1, <2>2, DestSource DEF IInv, ChannelInv
<1> QED BY Invariant, <1>1, PTL

-----------------------------------------------------------------------------
(***************************************************************************)
(* Refinement of the promise of Backend::exchange.                         *)
(***************************************************************************)

\* A rank enters an exchange when it copies its input.
Entered == [r \in Rank |-> IF pc[r] = "copy_in" THEN iter[r] ELSE iter[r] + 1]

\* What a rank sends next, or is sending.
Halo == [r \in Rank |-> IF pc[r] = "copy_in" THEN hoew[r] ELSE hins[r]]

\* The source of a message has posted at least what its destination received.
LEMMA ReceivedWasPosted ==
  ASSUME IInv, NEW r \in Rank, NEW t \in Tag
  PROVE  Posted(Source(t, r), t) >= Received(r, t)
<1>1. Source(t, r) \in Rank /\ Dest(t, Source(t, r)) = r
  BY DestSource
<1>2. \/ Posted(Source(t, r), t) = Received(r, t)
      \/ Posted(Source(t, r), t) = Received(r, t) + 1
  BY <1>1 DEF IInv, ChannelInv
<1>3. Received(r, t) \in Nat
  BY ProgramOrder DEF IInv
<1> QED BY <1>2, <1>3

\* A rank sends east and west only after it has received from the north and
\* the south, and it sends at all only in an exchange it has entered.
LEMMA StagesInOrder ==
  ASSUME IInv, NEW r \in Rank
  PROVE  /\ Posted(r, "9903") <= Received(r, "9901")
         /\ Posted(r, "9903") <= Received(r, "9902")
         /\ Posted(r, "9904") <= Received(r, "9901")
         /\ Posted(r, "9904") <= Received(r, "9902")
         /\ \A t \in Tag : Posted(r, t) <= Entered[r]
         /\ Entered[r] \in Nat
<1>1. iter[r] \in Nat /\ pc[r] \in Location /\ call[r] \in CallState
  BY IterationsAssumption DEF IInv, TypeOK
<1>2. pc[r] = "copy_in" => call[r] = "ready"
  BY DEF IInv, ControlInv
<1>3. Entered[r] = IF pc[r] = "copy_in" THEN iter[r] ELSE iter[r] + 1
  BY DEF Entered
<1> QED BY <1>1, <1>2, <1>3 DEF Posted, Received, Index, Tag, Location

\* When a rank returns from its last call, every rank around it has entered
\* the exchange: the four neighbours directly, the diagonal ones because
\* the neighbours could not have sent east or west without them.
LEMMA AroundEntered ==
  ASSUME IInv, NEW r \in Rank, pc[r] = "9904", call[r] = "received"
  PROVE  \A q \in Around(r) : Entered[q] >= iter[r] + 1
<1>1. iter[r] \in Nat
  BY IterationsAssumption DEF IInv, TypeOK
<1>2. \A t \in Tag : Received(r, t) = iter[r] + 1
  BY DEF Received, Index, Tag
<1>3. /\ North(r) \in Rank /\ South(r) \in Rank
      /\ East(r) \in Rank /\ West(r) \in Rank
  BY NeighborType
<1>4. /\ Posted(North(r), "9901") >= iter[r] + 1
      /\ Posted(South(r), "9902") >= iter[r] + 1
      /\ Posted(East(r), "9903") >= iter[r] + 1
      /\ Posted(West(r), "9904") >= iter[r] + 1
  <2>1. \A t \in Tag : Posted(Source(t, r), t) >= iter[r] + 1
    BY <1>2, ReceivedWasPosted
  <2> QED BY <2>1 DEF Source, Tag
<1>5. ASSUME NEW q \in Rank, NEW t \in Tag, Posted(q, t) >= iter[r] + 1
      PROVE  Entered[q] >= iter[r] + 1
  <2>1. Posted(q, t) <= Entered[q] /\ Posted(q, t) \in Nat /\ Entered[q] \in Nat
    BY StagesInOrder, ProgramOrder DEF IInv
  <2> QED BY <1>1, <1>5, <2>1
<1>6. ASSUME NEW q \in Rank, NEW t \in {"9903", "9904"},
             Posted(q, t) >= iter[r] + 1
      PROVE  /\ Entered[North(q)] >= iter[r] + 1
             /\ Entered[South(q)] >= iter[r] + 1
  <2>1. /\ Received(q, "9901") >= Posted(q, t)
        /\ Received(q, "9902") >= Posted(q, t)
    BY StagesInOrder
  <2>2. /\ Posted(North(q), "9901") >= Received(q, "9901")
        /\ Posted(South(q), "9902") >= Received(q, "9902")
    <3>1. /\ Source("9901", q) = North(q) /\ Source("9902", q) = South(q)
          /\ "9901" \in Tag /\ "9902" \in Tag
      BY DEF Source, Tag
    <3> QED BY <3>1, ReceivedWasPosted
  <2>3. /\ North(q) \in Rank /\ South(q) \in Rank
        /\ t \in Tag /\ "9901" \in Tag /\ "9902" \in Tag
    BY NeighborType DEF Tag
  <2>4. /\ Posted(q, t) \in Nat
        /\ Received(q, "9901") \in Nat /\ Received(q, "9902") \in Nat
        /\ Posted(North(q), "9901") \in Nat /\ Posted(South(q), "9902") \in Nat
    BY <2>3, ProgramOrder DEF IInv
  <2>5. /\ Posted(North(q), "9901") >= iter[r] + 1
        /\ Posted(South(q), "9902") >= iter[r] + 1
    BY <1>1, <1>6, <2>1, <2>2, <2>4
  <2> QED BY <1>5, <2>3, <2>5
<1>7. /\ Entered[North(r)] >= iter[r] + 1 /\ Entered[South(r)] >= iter[r] + 1
      /\ Entered[East(r)] >= iter[r] + 1 /\ Entered[West(r)] >= iter[r] + 1
  BY <1>3, <1>4, <1>5 DEF Tag
<1>8. /\ Entered[North(East(r))] >= iter[r] + 1
      /\ Entered[South(East(r))] >= iter[r] + 1
      /\ Entered[North(West(r))] >= iter[r] + 1
      /\ Entered[South(West(r))] >= iter[r] + 1
  BY <1>3, <1>4, <1>6
<1> QED BY <1>7, <1>8 DEF Around

\* The grid of the contract is the grid of the backend.
LEMMA SameGrid ==
  /\ Contract!Rank = Rank /\ Contract!Segment = Segment
  /\ \A r : Contract!Around(r) = Around(r)
  /\ \A s, i, r : Contract!Origin(s, i, r) = Origin(s, i, r)
BY DEF Contract!Rank, Contract!Segment, Contract!Around, Contract!Origin,
       Contract!North, Contract!South, Contract!East, Contract!West,
       Rank, Segment, Around, Origin, North, South, East, West

\* CopyIn enters the exchange.
LEMMA CopyInEnters ==
  ASSUME IInv, NEW r \in Rank, CopyIn(r)
  PROVE  Contract!Enter(r)
<1>1. /\ pc' = [pc EXCEPT ![r] = "9901"] /\ iter' = iter /\ hoew' = hoew
      /\ hins' = [hins EXCEPT ![r] = hoew[r]]
      /\ pc[r] = "copy_in" /\ iter[r] < Iterations
  BY DEF CopyIn
<1>2. pc \in [Rank -> Location] /\ hins \in [Rank -> Buffer]
  BY DEF IInv, TypeOK
<1>3. Entered[r] = iter[r]
  BY <1>1 DEF Entered
<1>4. Entered' = [Entered EXCEPT ![r] = @ + 1]
  BY <1>1, <1>2 DEF Entered
<1>5. Halo' = Halo
  BY <1>1, <1>2 DEF Halo
<1> QED BY <1>1, <1>3, <1>4, <1>5, SameGrid DEF Contract!Enter, Entered, Halo

\* The return of the last call leaves the exchange.
LEMMA LastReturnLeaves ==
  ASSUME IInv, IInv', NEW r \in Rank, Return(r, "9904")
  PROVE  Contract!Leave(r)
<1>1. /\ pc' = [pc EXCEPT ![r] = "copy_in"]
      /\ iter' = [iter EXCEPT ![r] = @ + 1]
      /\ hoew' = hoew /\ hins' = hins
      /\ pc[r] = "9904" /\ call[r] = "received"
  BY DEF Return, MayReturn, After
<1>2. /\ pc \in [Rank -> Location] /\ iter \in [Rank -> Nat]
      /\ hoew \in [Rank -> Buffer]
  BY IterationsAssumption DEF IInv, TypeOK
<1>3. Entered' = Entered
  BY <1>1, <1>2 DEF Entered
<1>4. Entered[r] = iter[r] + 1 /\ iter[r] \in Nat
  BY <1>1, <1>2 DEF Entered
<1>5. \A q \in Around(r) : Entered[q] >= Entered[r]
  BY <1>1, <1>4, AroundEntered
<1>6. hoew[r] = [s \in Segment |-> Origin(s, iter[r] + 1, r)]
  <2>1. pc'[r] = "copy_in" /\ iter'[r] = iter[r] + 1
    BY <1>1, <1>2
  <2>2. \A s \in Segment : hoew'[r][s] = Origin(s, iter'[r], r)
    BY <2>1 DEF IInv, BufferInv, BuffersOf
  <2>3. hoew[r] \in [Segment -> Rank \cup {Zero}]
    BY <1>2 DEF Buffer
  <2> QED BY <1>1, <2>1, <2>2, <2>3
<1>7. Halo' = [Halo EXCEPT ![r] = hoew[r]]
  BY <1>1, <1>2 DEF Halo
<1>8. Halo' = [Halo EXCEPT ![r] =
                 [s \in Segment |-> Origin(s, iter[r] + 1, r)]]
  BY <1>6, <1>7
<1>9. iter[r] < Entered[r]
  BY <1>4
<1> QED BY <1>1, <1>3, <1>5, <1>8, <1>9, SameGrid
        DEF Contract!Leave, Entered, Halo

\* Every other step is invisible to the caller.
LEMMA OtherStepsStutter ==
  ASSUME IInv, NEW r \in Rank,
         \/ CopyAcross(r)
         \/ \E t \in Tag : Send(r, t) \/ Receive(r, t)
         \/ \E t \in Tag \ {"9904"} : Return(r, t)
  PROVE  UNCHANGED <<Entered, iter, Halo>>
<1>1. pc \in [Rank -> Location] /\ hoew \in [Rank -> Buffer]
  BY DEF IInv, TypeOK
<1>2. iter' = iter /\ hins' = hins
  BY DEF CopyAcross, Send, Receive, MayReceive, Return, MayReturn
<1>3. \A q \in Rank : pc'[q] = "copy_in" <=> pc[q] = "copy_in"
  BY <1>1 DEF CopyAcross, Send, Receive, MayReceive, Return, MayReturn, After, Tag
<1>4. \A q \in Rank : pc[q] = "copy_in" => hoew'[q] = hoew[q]
  BY <1>1 DEF CopyAcross, Send, Receive, MayReceive, Return, MayReturn, Tag
<1> QED BY <1>2, <1>3, <1>4 DEF Entered, Halo

\* The MPI backend implements the promise of Backend::exchange, on every
\* grid and however MPI buffers its messages.
THEOREM Refinement == Spec => ImplementsContract
<1>1. Init => Contract!Init
  BY SameGrid DEF Init, Contract!Init
<1>2. IInv /\ IInv' /\ [Next]_vars => [Contract!Next]_Contract!vars
  <2> SUFFICES ASSUME IInv, IInv', [Next]_vars
               PROVE  Contract!Next \/ UNCHANGED <<Entered, iter, Halo>>
    BY DEF Contract!vars, Entered, Halo
  <2>1. ASSUME NEW r \in Rank, Step(r)
        PROVE  Contract!Next \/ UNCHANGED <<Entered, iter, Halo>>
    <3>1. CASE CopyIn(r)
      BY <3>1, CopyInEnters, SameGrid DEF Contract!Next
    <3>2. CASE Return(r, "9904")
      BY <3>2, LastReturnLeaves, SameGrid DEF Contract!Next
    <3>3. CASE \/ CopyAcross(r)
               \/ \E t \in Tag : Send(r, t) \/ Receive(r, t)
               \/ \E t \in Tag \ {"9904"} : Return(r, t)
      BY <3>3, OtherStepsStutter
    <3> QED BY <2>1, <3>1, <3>2, <3>3 DEF Step
  <2>2. CASE UNCHANGED vars
    BY <2>2 DEF vars, Entered, Halo
  <2> QED BY <2>1, <2>2 DEF Next, Terminating
<1> QED BY Invariant, <1>1, <1>2, PTL DEF Spec, ImplementsContract, Contract!Spec

=============================================================================
