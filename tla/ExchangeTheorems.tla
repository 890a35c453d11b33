-------------------------- MODULE ExchangeTheorems --------------------------
(***************************************************************************)
(* Facts about the periodic grid and about the four transfers of an        *)
(* exchange, for every number of rows and columns.  They rest on a few     *)
(* facts about \div and % that the provers do not have.                    *)
(***************************************************************************)
EXTENDS SendrecvCalls, TLAPS

(***************************************************************************)
(* Division with remainder.                                                *)
(***************************************************************************)

\* The quotient and the remainder that \div and % denote.
LEMMA DivMod ==
  ASSUME NEW a \in Int, NEW m \in Nat \ {0}
  PROVE  /\ a \div m \in Int
         /\ a % m \in 0 .. (m - 1)
         /\ a = m * (a \div m) + (a % m)
OBVIOUS

\* The only multiple of m strictly between -m and m is 0.
LEMMA NoSmallMultiple ==
  ASSUME NEW m \in Nat \ {0}, NEW k \in Int, NEW d \in Int,
         d = m * k, d < m, -m < d
  PROVE  k = 0
<1>1. CASE k >= 1
  <2>1. m * k >= m * 1
    BY <1>1
  <2> QED BY <2>1
<1>2. CASE k <= -1
  <2>1. m * k <= m * (-1)
    BY <1>2
  <2> QED BY <2>1
<1> QED BY <1>1, <1>2

\* A remainder is unique: any way to write a as m*q + r with r in range
\* has r = a % m.
LEMMA ModUnique ==
  ASSUME NEW a \in Int, NEW m \in Nat \ {0}, NEW q \in Int,
         NEW r \in 0 .. (m - 1), a = m * q + r
  PROVE  a % m = r
<1>1. /\ a \div m \in Int
      /\ a % m \in 0 .. (m - 1)
      /\ a = m * (a \div m) + (a % m)
  BY DivMod
<1>2. m * (q - (a \div m)) = (a % m) - r
  BY <1>1
<1>3. q - (a \div m) = 0
  BY <1>1, <1>2, NoSmallMultiple
<1> QED BY <1>1, <1>2, <1>3

\* Reducing one operand first does not change a sum modulo m.
LEMMA ModAdd ==
  ASSUME NEW a \in Int, NEW b \in Int, NEW m \in Nat \ {0}
  PROVE  ((a % m) + b) % m = (a + b) % m
<1> DEFINE s == (a % m) + b
           q == (a \div m) + (s \div m)
<1>1. /\ a \div m \in Int
      /\ a % m \in 0 .. (m - 1)
      /\ a = m * (a \div m) + (a % m)
  BY DivMod
<1>2. s \in Int
  BY <1>1
<1>3. /\ s \div m \in Int
      /\ s % m \in 0 .. (m - 1)
      /\ s = m * (s \div m) + (s % m)
  BY <1>2, DivMod
<1>4. q \in Int /\ a + b \in Int /\ a + b = m * q + (s % m)
  BY <1>1, <1>3
<1> HIDE DEF q
<1>5. (a + b) % m = s % m
  BY <1>3, <1>4, ModUnique
<1> QED BY <1>5

\* A number that is in range is its own remainder, and adding m changes
\* nothing.
LEMMA ModRange ==
  ASSUME NEW m \in Nat \ {0}, NEW a \in 0 .. (m - 1)
  PROVE  a % m = a /\ (a + m) % m = a
<1>1. a = m * 0 + a /\ a + m = m * 1 + a
  OBVIOUS
<1> QED BY <1>1, ModUnique

(***************************************************************************)
(* Neighbours.                                                             *)
(***************************************************************************)

\* The neighbours of a rank are ranks: no call names MPI_PROC_NULL.
LEMMA NeighborType ==
  ASSUME NEW r \in Rank
  PROVE  /\ North(r) \in Rank /\ South(r) \in Rank
         /\ East(r) \in Rank /\ West(r) \in Rank
<1>1. /\ r[1] + 1 \in Int /\ r[1] + Rows - 1 \in Int
      /\ r[2] + 1 \in Int /\ r[2] + Cols - 1 \in Int
      /\ r[1] \in 0 .. Rows - 1 /\ r[2] \in 0 .. Cols - 1
  BY GridAssumption DEF Rank
<1>2. /\ (r[1] + 1) % Rows \in 0 .. (Rows - 1)
      /\ (r[1] + Rows - 1) % Rows \in 0 .. (Rows - 1)
      /\ (r[2] + 1) % Cols \in 0 .. (Cols - 1)
      /\ (r[2] + Cols - 1) % Cols \in 0 .. (Cols - 1)
  BY <1>1, GridAssumption, DivMod
<1> QED BY <1>1, <1>2 DEF Rank, North, South, East, West

\* One step forth and one back on a ring of m places.
LEMMA RingInverse ==
  ASSUME NEW m \in Nat \ {0}, NEW a \in 0 .. (m - 1)
  PROVE  /\ (((a + 1) % m) + m - 1) % m = a
         /\ (((a + m - 1) % m) + 1) % m = a
<1>1. /\ a + 1 \in Int /\ a + m - 1 \in Int /\ m - 1 \in Int /\ 1 \in Int
      /\ (a + 1) % m \in Int
      /\ ((a + 1) % m) + m - 1 = ((a + 1) % m) + (m - 1)
  BY DivMod
<1>2. (((a + 1) % m) + (m - 1)) % m = ((a + 1) + (m - 1)) % m
  BY <1>1, ModAdd
<1>3. (((a + m - 1) % m) + 1) % m = ((a + m - 1) + 1) % m
  BY <1>1, ModAdd
<1>4. (a + 1) + (m - 1) = a + m /\ (a + m - 1) + 1 = a + m
  OBVIOUS
<1> QED BY <1>1, <1>2, <1>3, <1>4, ModRange

\* North and south, and east and west, undo each other: the rank a message
\* is sent to is the one that receives from the sender.
LEMMA NeighborInverse ==
  ASSUME NEW r \in Rank
  PROVE  /\ South(North(r)) = r /\ North(South(r)) = r
         /\ West(East(r)) = r /\ East(West(r)) = r
<1>1. /\ r[1] \in 0 .. (Rows - 1) /\ r[2] \in 0 .. (Cols - 1)
      /\ r = <<r[1], r[2]>>
  BY DEF Rank
<1>2. /\ (((r[1] + 1) % Rows) + Rows - 1) % Rows = r[1]
      /\ (((r[1] + Rows - 1) % Rows) + 1) % Rows = r[1]
      /\ (((r[2] + 1) % Cols) + Cols - 1) % Cols = r[2]
      /\ (((r[2] + Cols - 1) % Cols) + 1) % Cols = r[2]
  BY <1>1, GridAssumption, RingInverse
<1> QED BY <1>1, <1>2 DEF North, South, East, West

(***************************************************************************)
(* Where the data come from.                                               *)
(***************************************************************************)

\* Origin names a rank.
LEMMA OriginType ==
  ASSUME NEW s \in Segment, NEW i \in Nat, NEW r \in Rank
  PROVE  Origin(s, i, r) \in Rank
<1>1. /\ r[1] \in Int /\ r[2] \in Int
      /\ r[1] + i \in Int /\ r[2] + i \in Int
      /\ r[1] - i \in Int /\ r[2] - i \in Int
  BY GridAssumption DEF Rank
<1>2. /\ (r[1] + i) % Rows \in 0 .. (Rows - 1)
      /\ (r[2] + i) % Cols \in 0 .. (Cols - 1)
      /\ (r[1] - i) % Rows \in 0 .. (Rows - 1)
      /\ (r[2] - i) % Cols \in 0 .. (Cols - 1)
  BY <1>1, GridAssumption, DivMod
<1> QED BY <1>2 DEF Rank, Origin

\* Before the first exchange every rank holds its own data.
LEMMA OriginZero ==
  ASSUME NEW s \in Segment, NEW r \in Rank
  PROVE  Origin(s, 0, r) = r
<1>1. /\ r[1] \in 0 .. (Rows - 1) /\ r[2] \in 0 .. (Cols - 1)
      /\ r = <<r[1], r[2]>>
      /\ r[1] + 0 = r[1] /\ r[2] + 0 = r[2]
      /\ r[1] - 0 = r[1] /\ r[2] - 0 = r[2]
  BY GridAssumption DEF Rank
<1>2. r[1] % Rows = r[1] /\ r[2] % Cols = r[2]
  BY <1>1, GridAssumption, ModRange
<1> QED BY <1>1, <1>2 DEF Origin

\* i further steps on the ring of m places, from one step ahead or behind.
LEMMA RingStep ==
  ASSUME NEW m \in Nat \ {0}, NEW a \in 0 .. (m - 1), NEW i \in Nat
  PROVE  /\ (((a + 1) % m) + i) % m = (a + (i + 1)) % m
         /\ (((a + m - 1) % m) - i) % m = (a - (i + 1)) % m
<1>1. (((a + 1) % m) + i) % m = (a + (i + 1)) % m
  <2>1. a + 1 \in Int /\ i \in Int /\ (a + 1) + i = a + (i + 1)
    OBVIOUS
  <2>2. (((a + 1) % m) + i) % m = ((a + 1) + i) % m
    BY <2>1, ModAdd
  <2> QED BY <2>1, <2>2
<1>2. (((a + m - 1) % m) - i) % m = (a - (i + 1)) % m
  <2> DEFINE c == a - (i + 1)
  <2>0. c \in Int /\ a + m - 1 \in Int /\ -i \in Int
    OBVIOUS
  <2>1. (a + m - 1) % m \in Int
    BY <2>0, DivMod
  <2>2. ((a + m - 1) % m) - i = ((a + m - 1) % m) + (-i)
    BY <2>1
  <2>3. (((a + m - 1) % m) + (-i)) % m = ((a + m - 1) + (-i)) % m
    BY <2>0, ModAdd
  <2>4. (a + m - 1) + (-i) = c + m
    OBVIOUS
  <2>5. (c + m) % m = c % m
    <3>1. /\ c \div m \in Int /\ c % m \in 0 .. (m - 1)
          /\ c = m * (c \div m) + (c % m)
      BY <2>0, DivMod
    <3>2. /\ (c \div m) + 1 \in Int /\ c + m \in Int
          /\ c + m = m * ((c \div m) + 1) + (c % m)
      BY <3>1
    <3> HIDE DEF c
    <3> QED BY <2>0, <3>1, <3>2, ModUnique
  <2> QED BY <2>2, <2>3, <2>4, <2>5
<1> QED BY <1>1, <1>2

\* One exchange moves the "n" segment from the north of the east neighbour
\* and the "2n" segment from the south of the west neighbour.
LEMMA OriginStep ==
  ASSUME NEW i \in Nat, NEW r \in Rank
  PROVE  /\ Origin("n", i, North(East(r))) = Origin("n", i + 1, r)
         /\ Origin("2n", i, South(West(r))) = Origin("2n", i + 1, r)
<1>1. r[1] \in 0 .. (Rows - 1) /\ r[2] \in 0 .. (Cols - 1)
  BY DEF Rank
<1>2. /\ (((r[1] + 1) % Rows) + i) % Rows = (r[1] + (i + 1)) % Rows
      /\ (((r[1] + Rows - 1) % Rows) - i) % Rows = (r[1] - (i + 1)) % Rows
      /\ (((r[2] + 1) % Cols) + i) % Cols = (r[2] + (i + 1)) % Cols
      /\ (((r[2] + Cols - 1) % Cols) - i) % Cols = (r[2] - (i + 1)) % Cols
  BY <1>1, GridAssumption, RingStep
<1> QED BY <1>2 DEF Origin, North, South, East, West

(***************************************************************************)
(* The four transfers.  The MPI backends tell them apart by tag, the RCCL  *)
(* backend by the group and the segment: they move the same data.          *)
(***************************************************************************)

\* What rank r sends with tag t in exchange i, counted from 0.
Payload(t, i, r) ==
  CASE t = "9901" -> Origin("n", i, r)
    [] t = "9902" -> Origin("2n", i, r)
    [] t = "9903" -> Origin("n", i, North(r))
    [] t = "9904" -> Origin("2n", i, South(r))

\* Destination and source of a tag are ranks and undo each other: the rank a
\* message is addressed to receives it from its sender.
LEMMA DestSource ==
  ASSUME NEW r \in Rank, NEW t \in Tag
  PROVE  /\ Dest(t, r) \in Rank /\ Source(t, r) \in Rank
         /\ Source(t, Dest(t, r)) = r /\ Dest(t, Source(t, r)) = r
BY NeighborType, NeighborInverse DEF Tag, Dest, Source

\* The tag with which the destination of t sends back.
Answer(t) ==
  CASE t = "9901" -> "9902"
    [] t = "9902" -> "9901"
    [] t = "9903" -> "9904"
    [] t = "9904" -> "9903"

\* A rank receives the answer from the rank it sent to.
LEMMA AnswerReturns ==
  ASSUME NEW r \in Rank, NEW t \in Tag
  PROVE  /\ Answer(t) \in Tag
         /\ Dest(Answer(t), Dest(t, r)) = r
BY NeighborInverse DEF Tag, Dest, Answer

=============================================================================
