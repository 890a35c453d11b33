------------------------- MODULE RcclExchangeProofs -------------------------
(***************************************************************************)
(* Safety of the RCCL exchange for every grid, every number of iterations, *)
(* both synchronization modes and whatever RCCL does with a send.          *)
(*                                                                         *)
(* RCCL has no tags, so a message is named here by the tag that the MPI    *)
(* backends give to the same transfer, and by its exchange.  The argument  *)
(* counts calls: Posted(r, t) sends and Received(r, t) receives of         *)
(* transfer t have progressed at rank r.  The messages from one rank to    *)
(* another belong to one to four transfers, and what is on the wire is     *)
(* what was posted and not received, in the order of the exchanges and,    *)
(* within an exchange, of the transfers: both ends progress their calls    *)
(* to one peer in this order, which is all that pairs them.                *)
(***************************************************************************)
EXTENDS RcclExchange, ExchangeTheorems, FiniteSetTheorems

-----------------------------------------------------------------------------
(***************************************************************************)
(* What one wire holds, as a function of how many messages of each         *)
(* transfer in ts have been sent and received.                             *)
(***************************************************************************)

\* The order of the transfers within an exchange.
Number(t) ==
  IF t = "9901" THEN 1 ELSE
  IF t = "9902" THEN 2 ELSE
  IF t = "9903" THEN 3 ELSE 4

\* Of the messages up to exchange n of transfer u, those not yet received.
Unreceived(received, ts, u, n) == IF u \in ts THEN n - received[u] ELSE 0

InFlight(posted, received, ts) ==
  Unreceived(received, ts, "9901", posted["9901"])
  + Unreceived(received, ts, "9902", posted["9902"])
  + Unreceived(received, ts, "9903", posted["9903"])
  + Unreceived(received, ts, "9904", posted["9904"])

\* The messages of transfer u that were sent no later than message e of t.
UpTo(u, t, e) == IF Number(u) <= Number(t) THEN e + 1 ELSE e

\* The place on the wire of message e of transfer t.
Place(received, ts, t, e) ==
  Unreceived(received, ts, "9901", UpTo("9901", t, e))
  + Unreceived(received, ts, "9902", UpTo("9902", t, e))
  + Unreceived(received, ts, "9903", UpTo("9903", t, e))
  + Unreceived(received, ts, "9904", UpTo("9904", t, e))

\* Message e of transfer t, as rank p sends it.
Message(t, e, p) == <<SegmentOf(t), Payload(t, e, p)>>

Holds(w, posted, received, ts, p) ==
  /\ Len(w) = InFlight(posted, received, ts)
  /\ \A t \in ts :
       /\ received[t] <= posted[t]
       /\ \A e \in received[t] .. (posted[t] - 1) :
            w[Place(received, ts, t, e)] = Message(t, e, p)

\* The counters of transfers in order: an earlier one is ahead by at most 1.
Stairs(count, ts) ==
  \A u, t \in ts :
    Number(u) < Number(t) => count[u] = count[t] \/ count[u] = count[t] + 1

\* Transfer t is the one whose counter moves next.
ComesNext(count, ts, t) ==
  \A u \in ts \ {t} :
    count[u] = IF Number(u) < Number(t) THEN count[t] + 1 ELSE count[t]

\* A message that has been sent and not received has a place on the wire.
LEMMA PlaceOnWire ==
  ASSUME NEW posted \in [Tag -> Nat], NEW received \in [Tag -> Nat],
         NEW ts \in SUBSET Tag, NEW t \in ts,
         NEW e \in received[t] .. (posted[t] - 1),
         Stairs(posted, ts), Stairs(received, ts)
  PROVE  Place(received, ts, t, e) \in 1 .. InFlight(posted, received, ts)
<1>1. t \in Tag /\ e \in Nat /\ received[t] \in Nat /\ posted[t] \in Nat
      /\ received[t] <= e /\ e + 1 <= posted[t]
  OBVIOUS
<1>2. ASSUME NEW u \in Tag
      PROVE  /\ Unreceived(received, ts, u, UpTo(u, t, e)) \in Nat
             /\ Unreceived(received, ts, u, posted[u]) \in Nat
             /\ Unreceived(received, ts, u, UpTo(u, t, e))
                  <= Unreceived(received, ts, u, posted[u])
             /\ u = t => Unreceived(received, ts, u, UpTo(u, t, e)) >= 1
  <2>1. posted[u] \in Nat /\ received[u] \in Nat
    OBVIOUS
  <2>2. Number(u) \in Nat /\ Number(t) \in Nat
    BY DEF Number
  <2>3. Number(u) = Number(t) => u = t
    BY <1>1 DEF Number, Tag
  <2>4. CASE u \in ts /\ u = t
    BY <1>1, <2>1, <2>2, <2>4 DEF Unreceived, UpTo
  <2>5. CASE u \in ts /\ Number(u) < Number(t)
    <3>1. /\ posted[u] >= posted[t] /\ received[u] <= received[t] + 1
      BY <1>1, <2>1, <2>5 DEF Stairs
    <3> QED BY <1>1, <2>1, <2>2, <2>5, <3>1 DEF Unreceived, UpTo
  <2>6. CASE u \in ts /\ Number(u) > Number(t)
    <3>1. /\ posted[t] <= posted[u] + 1 /\ received[u] <= received[t]
      BY <1>1, <2>1, <2>6 DEF Stairs
    <3> QED BY <1>1, <2>1, <2>2, <2>6, <3>1 DEF Unreceived, UpTo
  <2>7. CASE u \notin ts
    BY <2>7 DEF Unreceived
  <2> QED BY <2>2, <2>3, <2>4, <2>5, <2>6, <2>7
<1>3. /\ "9901" \in Tag /\ "9902" \in Tag /\ "9903" \in Tag /\ "9904" \in Tag
      /\ t \in {"9901", "9902", "9903", "9904"}
  BY <1>1 DEF Tag
<1>4. Place(received, ts, t, e) >= 1
  BY <1>2, <1>3 DEF Place
<1>5. Place(received, ts, t, e) <= InFlight(posted, received, ts)
  BY <1>2, <1>3 DEF Place, InFlight
<1>6. /\ Place(received, ts, t, e) \in Int
      /\ InFlight(posted, received, ts) \in Int
  BY <1>2, <1>3 DEF Place, InFlight
<1> QED BY <1>4, <1>5, <1>6

\* Two sums over the transfers that differ by one in one summand.
LEMMA SumsDiffer ==
  ASSUME NEW a, NEW b, NEW t \in Tag,
         \A u \in Tag : a[u] \in Int
                        /\ b[u] = IF u = t THEN a[u] + 1 ELSE a[u]
  PROVE  /\ a["9901"] + a["9902"] + a["9903"] + a["9904"] \in Int
         /\ b["9901"] + b["9902"] + b["9903"] + b["9904"]
              = a["9901"] + a["9902"] + a["9903"] + a["9904"] + 1
BY DEF Tag

\* Sending the next message puts it behind all the others.
LEMMA HoldsAppend ==
  ASSUME NEW posted \in [Tag -> Nat], NEW received \in [Tag -> Nat],
         NEW ts \in SUBSET Tag, NEW p, NEW w \in Seq(Word), NEW t \in ts,
         Message(t, posted[t], p) \in Word,
         Holds(w, posted, received, ts, p),
         Stairs(posted, ts), Stairs(received, ts), ComesNext(posted, ts, t)
  PROVE  Holds(Append(w, Message(t, posted[t], p)),
               [posted EXCEPT ![t] = @ + 1], received, ts, p)
<1> DEFINE after == [posted EXCEPT ![t] = @ + 1]
           m == Message(t, posted[t], p)
<1>1. /\ t \in Tag /\ after \in [Tag -> Nat] /\ after[t] = posted[t] + 1
      /\ \A u \in Tag \ {t} : after[u] = posted[u]
      /\ posted[t] \in Nat
  OBVIOUS
<1>2. /\ "9901" \in Tag /\ "9902" \in Tag /\ "9903" \in Tag /\ "9904" \in Tag
      /\ t \in {"9901", "9902", "9903", "9904"}
  BY DEF Tag
<1>3. ASSUME NEW u \in Tag
      PROVE  /\ Unreceived(received, ts, u, posted[u]) \in Int
             /\ Unreceived(received, ts, u, after[u]) \in Int
             /\ Unreceived(received, ts, u, after[u])
                  = IF u = t THEN Unreceived(received, ts, u, posted[u]) + 1
                             ELSE Unreceived(received, ts, u, posted[u])
             /\ Unreceived(received, ts, u, UpTo(u, t, posted[t]))
                  = Unreceived(received, ts, u, after[u])
  <2>1. posted[u] \in Nat /\ received[u] \in Nat /\ after[u] \in Nat
    BY <1>1
  <2>2. CASE u = t
    <3>1. UpTo(t, t, posted[t]) = posted[t] + 1
      BY DEF UpTo, Number
    <3>2. /\ Unreceived(received, ts, t, posted[t]) = posted[t] - received[t]
          /\ Unreceived(received, ts, t, after[t]) = after[t] - received[t]
          /\ Unreceived(received, ts, t, UpTo(t, t, posted[t]))
               = after[t] - received[t]
      BY <1>1, <3>1 DEF Unreceived
    <3>3. after[t] = posted[t] + 1
      BY <1>1
    <3> HIDE DEF after
    <3> QED BY <2>1, <2>2, <3>2, <3>3
  <2>3. CASE u # t /\ u \in ts
    <3>1. UpTo(u, t, posted[t]) = posted[u]
      BY <1>1, <1>2, <2>3 DEF UpTo, ComesNext, Number, Tag
    <3> QED BY <1>1, <2>1, <2>3, <3>1 DEF Unreceived
  <2>4. CASE u # t /\ u \notin ts
    BY <1>1, <2>1, <2>4 DEF Unreceived
  <2> QED BY <2>2, <2>3, <2>4
<1> HIDE DEF after
<1>4. /\ InFlight(after, received, ts) = InFlight(posted, received, ts) + 1
      /\ Place(received, ts, t, posted[t]) = InFlight(after, received, ts)
      /\ InFlight(posted, received, ts) \in Int
  <2>1. /\ InFlight(posted, received, ts) \in Int
        /\ InFlight(after, received, ts) = InFlight(posted, received, ts) + 1
    <3> DEFINE a == [u \in Tag |-> Unreceived(received, ts, u, posted[u])]
               b == [u \in Tag |-> Unreceived(received, ts, u, after[u])]
    <3>1. \A u \in Tag : a[u] \in Int
                          /\ b[u] = IF u = t THEN a[u] + 1 ELSE a[u]
      BY <1>3
    <3> HIDE DEF a, b
    <3>2. /\ a["9901"] + a["9902"] + a["9903"] + a["9904"] \in Int
          /\ b["9901"] + b["9902"] + b["9903"] + b["9904"]
               = a["9901"] + a["9902"] + a["9903"] + a["9904"] + 1
      BY <1>1, <3>1, SumsDiffer
    <3> QED BY <1>2, <3>2 DEF a, b, InFlight
  <2>2. Place(received, ts, t, posted[t]) = InFlight(after, received, ts)
    BY <1>2, <1>3 DEF InFlight, Place
  <2> QED BY <2>1, <2>2
<1>5. /\ Len(Append(w, m)) = Len(w) + 1
      /\ Append(w, m)[Len(w) + 1] = m
      /\ \A k \in 1 .. Len(w) : Append(w, m)[k] = w[k]
  <2> HIDE DEF m
  <2> QED BY DEF m
<1>6. Len(w) = InFlight(posted, received, ts)
  BY DEF Holds
<1>7. ASSUME NEW u \in ts, NEW e \in received[u] .. (after[u] - 1)
      PROVE  Append(w, m)[Place(received, ts, u, e)] = Message(u, e, p)
  <2>1. u \in Tag /\ received[u] \in Nat /\ posted[u] \in Nat
    OBVIOUS
  <2>2. CASE u = t /\ e = posted[t]
    BY <1>4, <1>5, <1>6, <2>2
  <2>3. CASE ~(u = t /\ e = posted[t])
    <3>1. e \in received[u] .. (posted[u] - 1)
      BY <1>1, <1>7, <2>1, <2>3
    <3>2. Place(received, ts, u, e) \in 1 .. InFlight(posted, received, ts)
      BY <3>1, PlaceOnWire
    <3>3. w[Place(received, ts, u, e)] = Message(u, e, p)
      BY <3>1 DEF Holds
    <3> QED BY <1>5, <1>6, <3>2, <3>3
  <2> QED BY <2>2, <2>3
<1>8. \A u \in ts : received[u] <= after[u]
  <2> SUFFICES ASSUME NEW u \in ts
               PROVE  received[u] <= after[u]
    OBVIOUS
  <2>1. received[u] <= posted[u] /\ posted[u] \in Nat /\ received[u] \in Nat
    BY DEF Holds
  <2> QED BY <1>1, <2>1, SMTT(30)
<1>9. Len(Append(w, m)) = InFlight(after, received, ts)
  BY <1>4, <1>5, <1>6
<1>10. Holds(Append(w, m), after, received, ts, p)
  BY <1>7, <1>8, <1>9 DEF Holds
<1> QED BY <1>10 DEF after, m

\* The oldest message on a wire that is not empty is the next message of the
\* transfer whose receive comes next.
LEMMA HoldsHead ==
  ASSUME NEW posted \in [Tag -> Nat], NEW received \in [Tag -> Nat],
         NEW ts \in SUBSET Tag, NEW p, NEW w \in Seq(Word), NEW t \in ts,
         Holds(w, posted, received, ts, p), w # <<>>,
         Stairs(posted, ts), ComesNext(received, ts, t)
  PROVE  /\ received[t] < posted[t]
         /\ Head(w) = Message(t, received[t], p)
<1>1. /\ "9901" \in Tag /\ "9902" \in Tag /\ "9903" \in Tag /\ "9904" \in Tag
      /\ t \in {"9901", "9902", "9903", "9904"} /\ t \in Tag
  BY DEF Tag
<1>2. received[t] < posted[t]
  <2> SUFFICES ASSUME ~(received[t] < posted[t])
               PROVE  FALSE
    OBVIOUS
  <2>1. ASSUME NEW u \in Tag
        PROVE  /\ Unreceived(received, ts, u, posted[u]) \in Int
               /\ Unreceived(received, ts, u, posted[u]) <= 0
    <3>1. /\ posted[u] \in Nat /\ received[u] \in Nat
          /\ posted[t] \in Nat /\ received[t] \in Nat
      BY <1>1
    <3>2. CASE u \in ts /\ u # t /\ Number(u) < Number(t)
      <4>1. received[u] = received[t] + 1
        BY <3>2 DEF ComesNext
      <4>2. posted[u] <= posted[t] + 1
        BY <3>1, <3>2 DEF Stairs
      <4> QED BY <3>1, <4>1, <4>2 DEF Unreceived
    <3>3. CASE u \in ts /\ u # t /\ ~(Number(u) < Number(t))
      <4>1. received[u] = received[t]
        BY <3>3 DEF ComesNext
      <4>2. Number(t) < Number(u)
        BY <1>1, <3>3 DEF Number, Tag
      <4>3. posted[u] <= posted[t]
        BY <3>1, <3>3, <4>2 DEF Stairs
      <4> QED BY <3>1, <4>1, <4>3 DEF Unreceived
    <3>4. CASE u = t
      BY <3>1, <3>4 DEF Unreceived
    <3>5. CASE u \notin ts
      BY <3>5 DEF Unreceived
    <3> QED BY <3>2, <3>3, <3>4, <3>5
  <2>2. InFlight(posted, received, ts) <= 0
    BY <1>1, <2>1, SMTT(30) DEF InFlight
  <2>3. Len(w) = InFlight(posted, received, ts)
    BY DEF Holds
  <2>4. Len(w) >= 1
    OBVIOUS
  <2> QED BY <2>2, <2>3, <2>4
<1>3. ASSUME NEW u \in Tag
      PROVE  Unreceived(received, ts, u, UpTo(u, t, received[t]))
               = IF u = t THEN 1 ELSE 0
  <2>1. received[u] \in Nat /\ received[t] \in Nat
    BY <1>1
  <2>2. CASE u = t
    <3>1. UpTo(t, t, received[t]) = received[t] + 1
      BY DEF UpTo, Number
    <3> QED BY <2>1, <2>2, <3>1 DEF Unreceived
  <2>3. CASE u # t /\ u \in ts
    <3>1. UpTo(u, t, received[t]) = received[u]
      BY <1>1, <2>3 DEF UpTo, ComesNext, Number, Tag
    <3> QED BY <2>1, <2>3, <3>1 DEF Unreceived
  <2>4. CASE u # t /\ u \notin ts
    BY <2>4 DEF Unreceived
  <2> QED BY <2>2, <2>3, <2>4
<1>4. Place(received, ts, t, received[t]) = 1
  BY <1>1, <1>3 DEF Place
<1>5. received[t] \in received[t] .. (posted[t] - 1)
  BY <1>1, <1>2
<1>6. w[1] = Message(t, received[t], p)
  BY <1>4, <1>5 DEF Holds
<1> QED BY <1>2, <1>6

\* Receiving it leaves the others in their order.
LEMMA HoldsTail ==
  ASSUME NEW posted \in [Tag -> Nat], NEW received \in [Tag -> Nat],
         NEW ts \in SUBSET Tag, NEW p, NEW w \in Seq(Word), NEW t \in ts,
         Holds(w, posted, received, ts, p), w # <<>>,
         Stairs(posted, ts), ComesNext(received, ts, t),
         Stairs([received EXCEPT ![t] = @ + 1], ts)
  PROVE  Holds(Tail(w), posted, [received EXCEPT ![t] = @ + 1], ts, p)
<1> DEFINE after == [received EXCEPT ![t] = @ + 1]
<1>1. /\ t \in Tag /\ after \in [Tag -> Nat] /\ after[t] = received[t] + 1
      /\ \A u \in Tag \ {t} : after[u] = received[u]
  OBVIOUS
<1>2. /\ "9901" \in Tag /\ "9902" \in Tag /\ "9903" \in Tag /\ "9904" \in Tag
      /\ t \in {"9901", "9902", "9903", "9904"}
  BY DEF Tag
<1>3. ASSUME NEW u \in Tag, NEW n \in Int
      PROVE  /\ Unreceived(received, ts, u, n) \in Int
             /\ Unreceived(after, ts, u, n) \in Int
             /\ Unreceived(received, ts, u, n)
                  = IF u = t THEN Unreceived(after, ts, u, n) + 1
                             ELSE Unreceived(after, ts, u, n)
  <2>1. received[u] \in Nat
    OBVIOUS
  <2>2. CASE u = t
    BY <1>1, <2>1, <2>2 DEF Unreceived
  <2>3. CASE u # t
    BY <1>1, <2>1, <2>3 DEF Unreceived
  <2> QED BY <2>2, <2>3
<1> HIDE DEF after
<1>4. /\ InFlight(posted, after, ts) = InFlight(posted, received, ts) - 1
      /\ InFlight(posted, received, ts) \in Int
  <2> DEFINE a == [u \in Tag |-> Unreceived(after, ts, u, posted[u])]
             b == [u \in Tag |-> Unreceived(received, ts, u, posted[u])]
  <2>1. ASSUME NEW u \in Tag
        PROVE  a[u] \in Int /\ b[u] = IF u = t THEN a[u] + 1 ELSE a[u]
    <3>1. posted[u] \in Int
      OBVIOUS
    <3> QED BY <1>3, <3>1
  <2> HIDE DEF a, b
  <2>2. /\ a["9901"] + a["9902"] + a["9903"] + a["9904"] \in Int
        /\ b["9901"] + b["9902"] + b["9903"] + b["9904"]
             = a["9901"] + a["9902"] + a["9903"] + a["9904"] + 1
    BY <1>1, <2>1, SumsDiffer
  <2>3. /\ InFlight(posted, after, ts) \in Int
        /\ InFlight(posted, received, ts) = InFlight(posted, after, ts) + 1
    BY <1>2, <2>2 DEF a, b, InFlight
  <2> QED BY <2>3
<1>5. ASSUME NEW v \in Tag, NEW e \in Nat
      PROVE  Place(received, ts, v, e) = Place(after, ts, v, e) + 1
  <2> DEFINE a == [u \in Tag |-> Unreceived(after, ts, u, UpTo(u, v, e))]
             b == [u \in Tag |-> Unreceived(received, ts, u, UpTo(u, v, e))]
  <2>1. ASSUME NEW u \in Tag
        PROVE  a[u] \in Int /\ b[u] = IF u = t THEN a[u] + 1 ELSE a[u]
    <3>1. UpTo(u, v, e) \in Int
      BY DEF UpTo
    <3> QED BY <1>3, <3>1
  <2> HIDE DEF a, b
  <2>2. /\ a["9901"] + a["9902"] + a["9903"] + a["9904"] \in Int
        /\ b["9901"] + b["9902"] + b["9903"] + b["9904"]
             = a["9901"] + a["9902"] + a["9903"] + a["9904"] + 1
    BY <1>1, <2>1, SumsDiffer
  <2> QED BY <1>2, <2>2 DEF a, b, Place
<1>6. /\ Tail(w) \in Seq(Word) /\ Len(Tail(w)) = Len(w) - 1
      /\ \A k \in 1 .. (Len(w) - 1) : Tail(w)[k] = w[k + 1]
  OBVIOUS
<1>7. Len(w) = InFlight(posted, received, ts)
  BY DEF Holds
<1>8. ASSUME NEW u \in ts
      PROVE  /\ after[u] <= posted[u]
             /\ \A e \in after[u] .. (posted[u] - 1) :
                  Tail(w)[Place(after, ts, u, e)] = Message(u, e, p)
  <2>1. /\ u \in Tag /\ received[u] \in Nat /\ posted[u] \in Nat
        /\ after[u] \in Nat /\ received[u] <= posted[u]
    BY <1>1 DEF Holds
  <2>2. received[t] < posted[t]
    BY HoldsHead
  <2>3. after[u] <= posted[u] /\ received[u] <= after[u]
    BY <1>1, <2>1, <2>2, SMTT(30)
  <2> SUFFICES ASSUME NEW e \in after[u] .. (posted[u] - 1)
               PROVE  Tail(w)[Place(after, ts, u, e)] = Message(u, e, p)
    BY <2>3
  <2>4. e \in Nat /\ e \in received[u] .. (posted[u] - 1)
    BY <2>1, <2>3
  <2>5. Place(after, ts, u, e) \in 1 .. InFlight(posted, after, ts)
    <3>1. Stairs(after, ts)
      BY DEF after
    <3> QED BY <1>1, <3>1, PlaceOnWire
  <2>6. w[Place(received, ts, u, e)] = Message(u, e, p)
    BY <2>4 DEF Holds
  <2>7. Place(received, ts, u, e) = Place(after, ts, u, e) + 1
    BY <1>5, <2>1, <2>4
  <2>8. Place(after, ts, u, e) \in 1 .. (Len(w) - 1)
    BY <1>4, <1>7, <2>5
  <2> QED BY <1>6, <2>6, <2>7, <2>8
<1>9. Len(Tail(w)) = InFlight(posted, after, ts)
  BY <1>4, <1>6, <1>7
<1>10. Holds(Tail(w), posted, after, ts, p)
  BY <1>8, <1>9 DEF Holds
<1> QED BY <1>10 DEF after

\* On an empty wire everything sent has been received.
LEMMA HoldsNothing ==
  ASSUME NEW posted \in [Tag -> Nat], NEW received \in [Tag -> Nat],
         NEW ts \in SUBSET Tag, NEW p, NEW t \in ts,
         Holds(<<>>, posted, received, ts, p)
  PROVE  posted[t] = received[t]
<1>1. /\ "9901" \in Tag /\ "9902" \in Tag /\ "9903" \in Tag /\ "9904" \in Tag
      /\ t \in {"9901", "9902", "9903", "9904"} /\ t \in Tag
  BY DEF Tag
<1>2. \A u \in Tag : Unreceived(received, ts, u, posted[u]) \in Nat
  <2> SUFFICES ASSUME NEW u \in Tag
               PROVE  Unreceived(received, ts, u, posted[u]) \in Nat
    OBVIOUS
  <2>1. posted[u] \in Nat /\ received[u] \in Nat
        /\ (u \in ts => received[u] <= posted[u])
    BY DEF Holds
  <2> QED BY <2>1 DEF Unreceived
<1>3. InFlight(posted, received, ts) = 0
  BY DEF Holds
<1>4. Unreceived(received, ts, t, posted[t]) = 0
  BY <1>1, <1>2, <1>3, SMTT(30) DEF InFlight
<1> QED BY <1>1, <1>4 DEF Unreceived

-----------------------------------------------------------------------------
(***************************************************************************)
(* The inductive invariant.                                                *)
(***************************************************************************)

\* What a device does in an exchange, in both modes.
Operations == <<"copy_in", "north_south", "copy_across", "east_west">>

\* Operations enqueued when the host's next statement is its a-th.
EnqueuedAt(a) ==
  IF syncMode # "conservative" THEN a - 1 ELSE
  IF a = 1 THEN 0 ELSE
  IF a \in {2, 3} THEN 1 ELSE
  IF a \in {4, 5} THEN 2 ELSE
  IF a \in {6, 7} THEN 3 ELSE 4

\* Operations of its current exchange that rank r's device has completed.
Done(r) == EnqueuedAt(at[r]) - Len(stream[r])

\* The operation and the calls that move transfer t.
GroupOf(t) == IF NorthSouth(t) THEN 2 ELSE 4
SendCall(t) == IF SegmentOf(t) = "n" THEN 1 ELSE 3
ReceiveCall(t) == IF SegmentOf(t) = "n" THEN 2 ELSE 4

\* Call i of operation g has progressed in the current exchange of rank r.
Progressed(r, g, i) ==
  \/ Done(r) >= g
  \/ (Done(r) = g - 1 /\ running[r] /\ i \notin pending[r])

\* Sends of transfer t by rank r, and receives of it, since the start.
Posted(r, t) ==
  IF Progressed(r, GroupOf(t), SendCall(t)) THEN iter[r] + 1 ELSE iter[r]

Received(r, t) ==
  IF Progressed(r, GroupOf(t), ReceiveCall(t)) THEN iter[r] + 1 ELSE iter[r]

\* The host is inside an exchange it may perform, and the device's stream is
\* what remains of it.
ControlInv ==
  \A r \in Rank :
    /\ at[r] = 1 => stream[r] = <<>>
    /\ at[r] # 1 => iter[r] < Iterations
    /\ Done(r) >= 0
    /\ \A k \in 1 .. Len(stream[r]) : stream[r][k] = Operations[Done(r) + k]
    /\ running[r] => stream[r] # <<>> /\ Done(r) \in {1, 3}
    /\ ~running[r] => pending[r] = {}

\* In a group whose two peers are one rank the calls of a kind progress in
\* issue order.
OrderInv ==
  \A r \in Rank :
    /\ running[r]
    /\ (Done(r) = 1 /\ North(r) = South(r)) \/ (Done(r) = 3 /\ East(r) = West(r))
    => (1 \in pending[r] => 3 \in pending[r]) /\ (2 \in pending[r] => 4 \in pending[r])

PostedBy(p) == [t \in Tag |-> Posted(p, t)]

ReceivedBy(r) == [t \in Tag |-> Received(r, t)]

\* The transfers that go from p to r.
Between(p, r) == {t \in Tag : Dest(t, p) = r}

WireInv ==
  \A p, r \in Rank :
    Holds(wire[p][r], PostedBy(p), ReceivedBy(r), Between(p, r), p)

\* Without buffering a rank has nothing on the wires but the messages of the
\* group it is in.
HeldBackInv ==
  ~buffered =>
    \A p \in Rank, t \in Tag :
      \/ Posted(p, t) = Received(Dest(t, p), t)
      \/ /\ Posted(p, t) = Received(Dest(t, p), t) + 1
         /\ running[p] /\ Done(p) = GroupOf(t) - 1
         /\ SendCall(t) \notin pending[p]

\* What the buffers of rank r hold at each place in the exchange.
BuffersOf(r) ==
  /\ Done(r) = 0 => \A s \in Segment : hoew[r][s] = <<s, Origin(s, iter[r], r)>>
  /\ Done(r) >= 1 => \A s \in Segment : hins[r][s] = <<s, Origin(s, iter[r], r)>>
  /\ Received(r, "9901") = iter[r] + 1
       => hons[r]["n"] = <<"n", Origin("n", iter[r], North(r))>>
  /\ Received(r, "9902") = iter[r] + 1
       => hons[r]["2n"] = <<"2n", Origin("2n", iter[r], South(r))>>
  /\ Done(r) >= 3
       => /\ hiew[r]["n"] = <<"n", Origin("n", iter[r], North(r))>>
          /\ hiew[r]["2n"] = <<"2n", Origin("2n", iter[r], South(r))>>
  /\ Received(r, "9903") = iter[r] + 1
       => hoew[r]["n"] = <<"n", Origin("n", iter[r] + 1, r)>>
  /\ Received(r, "9904") = iter[r] + 1
       => hoew[r]["2n"] = <<"2n", Origin("2n", iter[r] + 1, r)>>

BufferInv == \A r \in Rank : BuffersOf(r)

IInv == TypeOK /\ ControlInv /\ OrderInv /\ WireInv /\ HeldBackInv /\ BufferInv

-----------------------------------------------------------------------------
(***************************************************************************)
(* The host's program and the device's position in it.                     *)
(***************************************************************************)

\* The two programs enqueue the same operations in the same order, and end
\* with a synchronisation.
LEMMA ProgramOrder ==
  ASSUME NEW a \in 1 .. Len(Program)
  PROVE  /\ EnqueuedAt(a) \in 0 .. 4
         /\ Program[a] # "sync"
              => /\ a + 1 \in 1 .. Len(Program)
                 /\ EnqueuedAt(a) \in 0 .. 3
                 /\ EnqueuedAt(a + 1) = EnqueuedAt(a) + 1
                 /\ Program[a] = Operations[EnqueuedAt(a) + 1]
         /\ Program[a] = "sync"
              => /\ a # 1
                 /\ (a % Len(Program)) + 1 \in 1 .. Len(Program)
                 /\ a = Len(Program)
                      => /\ EnqueuedAt(a) = 4
                         /\ (a % Len(Program)) + 1 = 1
                 /\ a # Len(Program)
                      => /\ (a % Len(Program)) + 1 # 1
                         /\ EnqueuedAt((a % Len(Program)) + 1) = EnqueuedAt(a)
         /\ EnqueuedAt(1) = 0
<1>1. CASE syncMode = "conservative"
  <2>1. /\ Len(Program) = 8
        /\ Program = <<"copy_in", "sync", "north_south", "sync",
                       "copy_across", "sync", "east_west", "sync">>
    BY <1>1 DEF Program
  <2>2. a \in {1, 2, 3, 4, 5, 6, 7, 8}
    BY <2>1
  <2>3. /\ 8 % 8 = 0 /\ a \in 1 .. 7 => a % 8 = a
    BY <2>2
  <2> QED BY <1>1, <2>1, <2>2, <2>3 DEF EnqueuedAt, Operations
<1>2. CASE syncMode # "conservative"
  <2>1. /\ Len(Program) = 5
        /\ Program = <<"copy_in", "north_south", "copy_across", "east_west",
                       "sync">>
    BY <1>2 DEF Program
  <2>2. a \in {1, 2, 3, 4, 5}
    BY <2>1
  <2>3. /\ 5 % 5 = 0 /\ a \in 1 .. 4 => a % 5 = a
    BY <2>2
  <2> QED BY <1>2, <2>1, <2>2, <2>3 DEF EnqueuedAt, Operations
<1> QED BY <1>1, <1>2

\* Where a device is in its exchange.
LEMMA Position ==
  ASSUME TypeOK, ControlInv, NEW r \in Rank
  PROVE  /\ iter[r] \in Nat /\ at[r] \in 1 .. Len(Program)
         /\ stream[r] \in Seq(Copies \cup Groups)
         /\ Done(r) \in 0 .. 4
         /\ at[r] = 1 => Done(r) = 0
         /\ stream[r] = <<>> => Done(r) = EnqueuedAt(at[r])
         /\ stream[r] # <<>>
              => /\ Done(r) \in 0 .. 3
                 /\ Head(stream[r]) = Operations[Done(r) + 1]
<1>1. /\ iter[r] \in Nat /\ at[r] \in 1 .. Len(Program)
      /\ stream[r] \in Seq(Copies \cup Groups)
  BY IterationsAssumption DEF TypeOK
<1>2. EnqueuedAt(at[r]) \in 0 .. 4 /\ EnqueuedAt(1) = 0
  BY <1>1, ProgramOrder
<1>3. Len(stream[r]) \in Nat /\ (stream[r] = <<>> => Len(stream[r]) = 0)
  BY <1>1
<1>4. Done(r) = EnqueuedAt(at[r]) - Len(stream[r]) /\ Done(r) >= 0
  BY DEF Done, ControlInv
<1>5. Done(r) \in 0 .. 4
  BY <1>2, <1>3, <1>4
<1>6. at[r] = 1 => Done(r) = 0
  BY <1>2, <1>3, <1>4 DEF ControlInv
<1>7. stream[r] = <<>> => Done(r) = EnqueuedAt(at[r])
  BY <1>2, <1>3, <1>4
<1>8. ASSUME stream[r] # <<>>
      PROVE  /\ Done(r) \in 0 .. 3
             /\ Head(stream[r]) = Operations[Done(r) + 1]
  <2>1. Len(stream[r]) >= 1 /\ Head(stream[r]) = stream[r][1]
    BY <1>1, <1>8
  <2>2. stream[r][1] = Operations[Done(r) + 1]
    BY <1>3, <2>1 DEF ControlInv
  <2>3. Done(r) \in 0 .. 3
    BY <1>2, <1>3, <1>4, <2>1
  <2> QED BY <2>1, <2>2, <2>3
<1> QED BY <1>1, <1>5, <1>6, <1>7, <1>8

-----------------------------------------------------------------------------
(***************************************************************************)
(* What each step does to a stream and to the device's position.           *)
(***************************************************************************)

Step(r) == Host(r) \/ Device(r)

\* A rank's step changes nothing of another rank but the wires between them.
LEMMA Elsewhere ==
  ASSUME TypeOK, NEW r \in Rank, Step(r), NEW q \in Rank \ {r}
  PROVE  /\ iter'[q] = iter[q] /\ at'[q] = at[q] /\ stream'[q] = stream[q]
         /\ running'[q] = running[q] /\ pending'[q] = pending[q]
         /\ hins'[q] = hins[q] /\ hons'[q] = hons[q]
         /\ hiew'[q] = hiew[q] /\ hoew'[q] = hoew[q]
         /\ setting' = setting
         /\ Done(q)' = Done(q)
         /\ \A t \in Tag : /\ Posted(q, t)' = Posted(q, t)
                           /\ Received(q, t)' = Received(q, t)
<1>1. /\ iter'[q] = iter[q] /\ at'[q] = at[q] /\ stream'[q] = stream[q]
      /\ running'[q] = running[q] /\ pending'[q] = pending[q]
      /\ hins'[q] = hins[q] /\ hons'[q] = hons[q]
      /\ hiew'[q] = hiew[q] /\ hoew'[q] = hoew[q]
      /\ setting' = setting
  <2> USE DEF TypeOK
  <2>1. CASE Enqueue(r)
    BY <2>1 DEF Enqueue
  <2>2. CASE Synchronize(r)
    BY <2>2 DEF Synchronize
  <2>3. CASE Copy(r)
    BY <2>3 DEF Copy
  <2>4. CASE Launch(r)
    BY <2>4 DEF Launch
  <2>5. ASSUME NEW i \in 1 .. 4, Transmit(r, i)
        PROVE  /\ iter' = iter /\ at' = at /\ stream' = stream
               /\ running' = running /\ pending'[q] = pending[q]
               /\ hins' = hins /\ hons' = hons /\ hiew' = hiew /\ hoew' = hoew
               /\ setting' = setting
    BY <2>5 DEF Transmit
  <2>6. ASSUME NEW i \in 1 .. 4, Deliver(r, i)
        PROVE  /\ iter' = iter /\ at' = at /\ stream' = stream
               /\ running' = running /\ pending'[q] = pending[q]
               /\ hins' = hins /\ hons'[q] = hons[q]
               /\ hiew' = hiew /\ hoew'[q] = hoew[q]
               /\ setting' = setting
    BY <2>6 DEF Deliver
  <2>7. CASE Complete(r)
    BY <2>7 DEF Complete
  <2> QED BY <2>1, <2>2, <2>3, <2>4, <2>5, <2>6, <2>7 DEF Step, Host, Device
<1>2. syncMode' = syncMode
  BY <1>1 DEF setting
<1>3. Done(q)' = Done(q)
  BY <1>1, <1>2 DEF Done, EnqueuedAt
<1>4. \A t \in Tag : /\ Posted(q, t)' = Posted(q, t)
                     /\ Received(q, t)' = Received(q, t)
  BY <1>1, <1>3 DEF Posted, Received, Progressed
<1> QED BY <1>1, <1>3, <1>4

\* The host enqueues the operation that comes next.
LEMMA EnqueueStep ==
  ASSUME TypeOK, ControlInv, NEW r \in Rank, Enqueue(r)
  PROVE  /\ at'[r] \in 1 .. Len(Program) /\ at'[r] # 1
         /\ iter[r] < Iterations
         /\ Done(r)' = Done(r)
         /\ stream'[r] \in Seq(Copies \cup Groups)
         /\ \A k \in 1 .. Len(stream'[r]) :
              stream'[r][k] = Operations[Done(r) + k]
         /\ stream'[r] # <<>>
<1> DEFINE op == Program[at[r]]
<1>1. /\ op # "sync" /\ at'[r] = at[r] + 1
      /\ stream'[r] = Append(stream[r], op) /\ syncMode' = syncMode
      /\ at[r] = 1 => iter[r] < Iterations
  BY DEF Enqueue, TypeOK, setting
<1>2. /\ at[r] \in 1 .. Len(Program)
      /\ stream[r] \in Seq(Copies \cup Groups)
      /\ Done(r) \in 0 .. 4
  BY Position
<1>3. /\ at[r] + 1 \in 1 .. Len(Program)
      /\ EnqueuedAt(at[r]) \in 0 .. 3
      /\ EnqueuedAt(at[r] + 1) = EnqueuedAt(at[r]) + 1
      /\ op = Operations[EnqueuedAt(at[r]) + 1]
  BY <1>1, <1>2, ProgramOrder
<1>4. op \in Copies \cup Groups
  BY <1>3 DEF Operations, Copies, Groups
<1> HIDE DEF op
<1>5. /\ Append(stream[r], op) \in Seq(Copies \cup Groups)
      /\ Len(Append(stream[r], op)) = Len(stream[r]) + 1
      /\ \A k \in 1 .. Len(stream[r]) : Append(stream[r], op)[k] = stream[r][k]
      /\ Append(stream[r], op)[Len(stream[r]) + 1] = op
      /\ Append(stream[r], op) # <<>>
  BY <1>2, <1>4
<1>6. Done(r)' = Done(r)
  <2>1. EnqueuedAt(at[r])' = EnqueuedAt(at[r] + 1)
    BY <1>1 DEF EnqueuedAt
  <2>2. Len(stream[r]) \in Nat
    BY <1>2
  <2> QED BY <1>1, <1>3, <1>5, <2>1, <2>2 DEF Done
<1>7. \A k \in 1 .. Len(stream'[r]) : stream'[r][k] = Operations[Done(r) + k]
  <2> SUFFICES ASSUME NEW k \in 1 .. (Len(stream[r]) + 1)
               PROVE  Append(stream[r], op)[k] = Operations[Done(r) + k]
    BY <1>1, <1>5
  <2>1. CASE k \in 1 .. Len(stream[r])
    BY <1>5, <2>1 DEF ControlInv
  <2>2. CASE k = Len(stream[r]) + 1
    <3>1. Done(r) + k = EnqueuedAt(at[r]) + 1
      BY <1>2, <1>3, <2>2 DEF Done
    <3> QED BY <1>3, <1>5, <2>2, <3>1
  <2> QED BY <1>2, <2>1, <2>2
<1>8. iter[r] < Iterations
  BY <1>1 DEF ControlInv
<1> QED BY <1>1, <1>2, <1>3, <1>5, <1>6, <1>7, <1>8

\* The host goes on when the stream is empty, the last time out of the
\* exchange.
LEMMA SynchronizeStep ==
  ASSUME TypeOK, ControlInv, NEW r \in Rank, Synchronize(r)
  PROVE  /\ stream[r] = <<>> /\ stream' = stream
         /\ ~running[r] /\ iter[r] < Iterations
         /\ at'[r] \in 1 .. Len(Program) /\ iter'[r] \in 0 .. Iterations
         /\ at[r] = Len(Program)
              => /\ at'[r] = 1 /\ iter'[r] = iter[r] + 1
                 /\ Done(r) = 4 /\ Done(r)' = 0
         /\ at[r] # Len(Program)
              => /\ at[r] # 1 /\ at'[r] # 1 /\ iter' = iter
                 /\ Done(r)' = Done(r)
<1>1. /\ Program[at[r]] = "sync" /\ stream[r] = <<>> /\ stream' = stream
      /\ at'[r] = (at[r] % Len(Program)) + 1 /\ syncMode' = syncMode
      /\ iter' = IF at[r] = Len(Program) THEN [iter EXCEPT ![r] = @ + 1]
                                         ELSE iter
  BY DEF Synchronize, Drained, TypeOK, setting
<1>2. at[r] \in 1 .. Len(Program) /\ iter[r] \in 0 .. Iterations
  BY DEF TypeOK
<1>3. /\ at[r] # 1
      /\ (at[r] % Len(Program)) + 1 \in 1 .. Len(Program)
      /\ at[r] = Len(Program)
           => /\ EnqueuedAt(at[r]) = 4
              /\ (at[r] % Len(Program)) + 1 = 1
      /\ at[r] # Len(Program)
           => /\ (at[r] % Len(Program)) + 1 # 1
              /\ EnqueuedAt((at[r] % Len(Program)) + 1) = EnqueuedAt(at[r])
      /\ EnqueuedAt(1) = 0
      /\ EnqueuedAt(at[r]) \in 0 .. 4
  BY <1>1, <1>2, ProgramOrder
<1>4. /\ Done(r) = EnqueuedAt(at[r])
      /\ Done(r)' = EnqueuedAt((at[r] % Len(Program)) + 1)
  <2>1. EnqueuedAt(at[r])' = EnqueuedAt((at[r] % Len(Program)) + 1)
    BY <1>1 DEF EnqueuedAt
  <2>2. EnqueuedAt((at[r] % Len(Program)) + 1) \in 0 .. 4
    BY <1>3, ProgramOrder
  <2>3. Len(stream[r]) = 0 /\ Len(stream'[r]) = 0
    BY <1>1
  <2> QED BY <1>3, <2>1, <2>2, <2>3 DEF Done
<1>5. ~running[r] /\ iter[r] < Iterations
  BY <1>1, <1>3 DEF ControlInv
<1>6. iter'[r] \in 0 .. Iterations
  <2>1. iter[r] + 1 \in 0 .. Iterations
    BY <1>2, <1>5, IterationsAssumption
  <2> QED BY <1>1, <1>2, <2>1 DEF TypeOK
<1>7. at[r] = Len(Program) => iter'[r] = iter[r] + 1
  BY <1>1 DEF TypeOK
<1> QED BY <1>1, <1>3, <1>4, <1>5, <1>6, <1>7

\* The device takes an operation off the stream when it is complete.
LEMMA PopStep ==
  ASSUME TypeOK, ControlInv, NEW r \in Rank, Copy(r) \/ Complete(r)
  PROVE  /\ at' = at /\ iter' = iter /\ at[r] # 1
         /\ ~running'[r] /\ pending'[r] = {}
         /\ Done(r) \in 0 .. 3 /\ Done(r)' = Done(r) + 1
         /\ Head(stream[r]) = Operations[Done(r) + 1]
         /\ stream'[r] \in Seq(Copies \cup Groups)
         /\ \A k \in 1 .. Len(stream'[r]) :
              stream'[r][k] = Operations[Done(r) + 1 + k]
<1>1. running[r] \in BOOLEAN /\ running \in [Rank -> BOOLEAN]
  BY DEF TypeOK
<1>2. /\ stream[r] # <<>> /\ at' = at /\ iter' = iter
      /\ stream'[r] = Tail(stream[r]) /\ syncMode' = syncMode
  <2>1. CASE Copy(r)
    BY <2>1 DEF Copy, AtHead, TypeOK, setting
  <2>2. CASE Complete(r)
    BY <2>2 DEF Complete, ControlInv, TypeOK, setting
  <2> QED BY <2>1, <2>2
<1>3. /\ stream[r] \in Seq(Copies \cup Groups)
      /\ Done(r) \in 0 .. 3
      /\ Head(stream[r]) = Operations[Done(r) + 1]
  BY <1>2, Position
<1>4. at[r] # 1
  BY <1>2 DEF ControlInv
<1>5. /\ Tail(stream[r]) \in Seq(Copies \cup Groups)
      /\ Len(Tail(stream[r])) = Len(stream[r]) - 1
      /\ \A k \in 1 .. (Len(stream[r]) - 1) : Tail(stream[r])[k] = stream[r][k + 1]
      /\ Len(stream[r]) \in Nat /\ Len(stream[r]) >= 1
  BY <1>2, <1>3
<1>6. EnqueuedAt(at[r])' = EnqueuedAt(at[r]) /\ EnqueuedAt(at[r]) \in 0 .. 4
  BY <1>2, Position, ProgramOrder DEF EnqueuedAt
<1>7. Done(r)' = Done(r) + 1
  BY <1>2, <1>5, <1>6 DEF Done
<1>8. \A k \in 1 .. Len(stream'[r]) :
        stream'[r][k] = Operations[Done(r) + 1 + k]
  <2> SUFFICES ASSUME NEW k \in 1 .. (Len(stream[r]) - 1)
               PROVE  Tail(stream[r])[k] = Operations[Done(r) + 1 + k]
    BY <1>2, <1>5
  <2>1. k + 1 \in 1 .. Len(stream[r]) /\ Done(r) + (k + 1) = Done(r) + 1 + k
    BY <1>3, <1>5
  <2> QED BY <1>5, <2>1 DEF ControlInv
<1>9. ~running'[r] /\ pending'[r] = {}
  <2>1. CASE Copy(r)
    <3>1. Head(stream[r]) \in Copies /\ running' = running /\ pending' = pending
      BY <2>1 DEF Copy, AtHead
    <3>2. Done(r) \notin {1, 3}
      BY <1>3, <3>1 DEF Copies, Operations
    <3> QED BY <3>1, <3>2 DEF ControlInv
  <2>2. CASE Complete(r)
    BY <1>1, <2>2 DEF Complete
  <2> QED BY <2>1, <2>2
<1> QED BY <1>2, <1>3, <1>4, <1>5, <1>7, <1>8, <1>9

\* A group is launched when it is at the head of the stream; its calls
\* progress while it is.
LEMMA GroupStep ==
  ASSUME TypeOK, ControlInv, NEW r \in Rank,
         Launch(r) \/ \E i \in 1 .. 4 : Transmit(r, i) \/ Deliver(r, i)
  PROVE  /\ at' = at /\ iter' = iter /\ stream' = stream
         /\ stream[r] # <<>> /\ running'[r]
         /\ Done(r) \in {1, 3} /\ Done(r)' = Done(r)
         /\ Head(stream[r]) = IF Done(r) = 1 THEN "north_south" ELSE "east_west"
<1>1. /\ at' = at /\ iter' = iter /\ stream' = stream /\ syncMode' = syncMode
  BY DEF Launch, Transmit, Deliver, setting
<1>2. stream[r] # <<>> /\ running'[r] /\ Done(r) \in {1, 3}
  <2>1. CASE Launch(r)
    <3>1. stream[r] # <<>> /\ Head(stream[r]) \in Groups /\ running'[r]
      BY <2>1 DEF Launch, AtHead, TypeOK
    <3>2. Done(r) \in 0 .. 3 /\ Head(stream[r]) = Operations[Done(r) + 1]
      BY <3>1, Position
    <3> QED BY <3>1, <3>2 DEF Groups, Operations
  <2>2. CASE \E i \in 1 .. 4 : Transmit(r, i) \/ Deliver(r, i)
    <3>1. running[r] /\ running' = running
      BY <2>2 DEF Transmit, Deliver
    <3> QED BY <3>1 DEF ControlInv
  <2> QED BY <2>1, <2>2
<1>3. Done(r)' = Done(r)
  BY <1>1 DEF Done, EnqueuedAt
<1>4. Head(stream[r]) = IF Done(r) = 1 THEN "north_south" ELSE "east_west"
  BY <1>2, Position DEF Operations
<1> QED BY <1>1, <1>2, <1>3, <1>4

\* Every step keeps the host inside its program and the stream the rest of it.
LEMMA StepControl ==
  ASSUME TypeOK, ControlInv, NEW r \in Rank, Step(r)
  PROVE  ControlInv'
<1> SUFFICES ASSUME NEW q \in Rank
             PROVE  /\ (at[q] = 1 => stream[q] = <<>>)'
                    /\ (at[q] # 1 => iter[q] < Iterations)'
                    /\ (Done(q) >= 0)'
                    /\ (\A k \in 1 .. Len(stream[q]) :
                          stream[q][k] = Operations[Done(q) + k])'
                    /\ (running[q] => stream[q] # <<>> /\ Done(q) \in {1, 3})'
                    /\ (~running[q] => pending[q] = {})'
  BY DEF ControlInv
<1>1. /\ at[q] = 1 => stream[q] = <<>>
      /\ at[q] # 1 => iter[q] < Iterations
      /\ Done(q) >= 0
      /\ \A k \in 1 .. Len(stream[q]) : stream[q][k] = Operations[Done(q) + k]
      /\ running[q] => stream[q] # <<>> /\ Done(q) \in {1, 3}
      /\ ~running[q] => pending[q] = {}
  BY DEF ControlInv
<1>2. CASE q # r
  <2>1. /\ iter'[q] = iter[q] /\ at'[q] = at[q] /\ stream'[q] = stream[q]
        /\ running'[q] = running[q] /\ pending'[q] = pending[q]
        /\ Done(q)' = Done(q)
    BY <1>2, Elsewhere
  <2> QED BY <1>1, <2>1
<1>3. CASE q = r
  <2>1. CASE Enqueue(r)
    <3>1. iter' = iter /\ running' = running /\ pending' = pending
      BY <2>1 DEF Enqueue
    <3> QED BY <1>1, <1>3, <2>1, <3>1, EnqueueStep
  <2>2. CASE Synchronize(r)
    <3>1. running' = running /\ pending' = pending
      BY <2>2 DEF Synchronize
    <3>2. Done(r)' >= 0
      BY <1>1, <1>3, <2>2, SynchronizeStep
    <3>3. \A k \in 1 .. Len(stream'[r]) : stream'[r][k] = Operations[Done(r)' + k]
      <4>1. stream'[r] = <<>>
        BY <2>2, SynchronizeStep
      <4> QED BY <4>1
    <3> QED BY <1>1, <1>3, <2>2, <3>1, <3>2, <3>3, SynchronizeStep
  <2>3. CASE Copy(r) \/ Complete(r)
    <3>1. /\ at' = at /\ iter' = iter /\ at[r] # 1
          /\ ~running'[r] /\ pending'[r] = {}
          /\ Done(r) \in 0 .. 3 /\ Done(r)' = Done(r) + 1
          /\ \A k \in 1 .. Len(stream'[r]) :
               stream'[r][k] = Operations[Done(r) + 1 + k]
      BY <2>3, PopStep
    <3> QED BY <1>1, <1>3, <3>1
  <2>4. CASE Launch(r) \/ \E i \in 1 .. 4 : Transmit(r, i) \/ Deliver(r, i)
    <3>1. /\ at' = at /\ iter' = iter /\ stream' = stream
          /\ stream[r] # <<>> /\ running'[r]
          /\ Done(r) \in {1, 3} /\ Done(r)' = Done(r)
      BY <2>4, GroupStep
    <3> QED BY <1>1, <1>3, <3>1
  <2> QED BY <2>1, <2>2, <2>3, <2>4 DEF Step, Host, Device
<1> QED BY <1>2, <1>3

-----------------------------------------------------------------------------
(***************************************************************************)
(* The calls of a group and the transfers they are.                        *)
(***************************************************************************)

\* The transfer that call i of the running group is a part of.
TagOf(r, i) ==
  IF Done(r) = 1 THEN IF i <= 2 THEN "9901" ELSE "9902"
                 ELSE IF i <= 2 THEN "9903" ELSE "9904"

LEMMA CallOf ==
  ASSUME NEW r \in Rank, NEW i \in 1 .. 4, Done(r) \in {1, 3},
         Head(stream[r]) = IF Done(r) = 1 THEN "north_south" ELSE "east_west"
  PROVE  /\ TagOf(r, i) \in Tag
         /\ GroupOf(TagOf(r, i)) = Done(r) + 1
         /\ NorthSouth(TagOf(r, i)) <=> Done(r) = 1
         /\ Calls(Head(stream[r]), r)[i].seg = SegmentOf(TagOf(r, i))
         /\ i \in {1, 3}
              => /\ Calls(Head(stream[r]), r)[i].kind = "send"
                 /\ Calls(Head(stream[r]), r)[i].peer = Dest(TagOf(r, i), r)
                 /\ SendCall(TagOf(r, i)) = i
         /\ i \in {2, 4}
              => /\ Calls(Head(stream[r]), r)[i].kind = "recv"
                 /\ Calls(Head(stream[r]), r)[i].peer = Source(TagOf(r, i), r)
                 /\ ReceiveCall(TagOf(r, i)) = i
<1>1. i \in {1, 2, 3, 4}
  OBVIOUS
<1>2. CASE Done(r) = 1
  <2>1. Calls(Head(stream[r]), r) =
          <<[kind |-> "send", seg |-> "n",  peer |-> South(r)],
            [kind |-> "recv", seg |-> "n",  peer |-> North(r)],
            [kind |-> "send", seg |-> "2n", peer |-> North(r)],
            [kind |-> "recv", seg |-> "2n", peer |-> South(r)]>>
    BY <1>2 DEF Calls
  <2> HIDE DEF Calls
  <2>2. /\ Dest("9901", r) = South(r) /\ Dest("9902", r) = North(r)
        /\ Source("9901", r) = North(r) /\ Source("9902", r) = South(r)
    BY DEF Dest, Source
  <2> QED BY <1>1, <1>2, <2>1, <2>2 DEF TagOf, Tag, GroupOf, NorthSouth, SegmentOf, SendCall, ReceiveCall
<1>3. CASE Done(r) = 3
  <2>1. Calls(Head(stream[r]), r) =
          <<[kind |-> "send", seg |-> "n",  peer |-> West(r)],
            [kind |-> "recv", seg |-> "n",  peer |-> East(r)],
            [kind |-> "send", seg |-> "2n", peer |-> East(r)],
            [kind |-> "recv", seg |-> "2n", peer |-> West(r)]>>
    BY <1>3 DEF Calls
  <2>2. /\ Dest("9903", r) = West(r) /\ Dest("9904", r) = East(r)
        /\ Source("9903", r) = East(r) /\ Source("9904", r) = West(r)
    BY DEF Dest, Source
  <2> QED BY <1>1, <1>3, <2>1, <2>2 DEF TagOf, Tag, GroupOf, NorthSouth, SegmentOf, SendCall, ReceiveCall
<1> QED BY <1>2, <1>3

\* A send that progresses puts a segment on the wire to the destination of
\* its transfer.
LEMMA TransmitStep ==
  ASSUME TypeOK, ControlInv, NEW r \in Rank, NEW i \in 1 .. 4, Transmit(r, i)
  PROVE  LET t == TagOf(r, i)
         IN  /\ i \in {1, 3} /\ i \in pending[r] /\ Ready(r, i)
             /\ t \in Tag /\ GroupOf(t) = Done(r) + 1 /\ SendCall(t) = i
             /\ running[r] /\ running' = running
             /\ pending' = [pending EXCEPT ![r] = @ \ {i}]
             /\ wire' = [wire EXCEPT ![r][Dest(t, r)] =
                           Append(@, <<SegmentOf(t),
                                       SendFrom(r)[SegmentOf(t)][2]>>)]
<1> DEFINE t == TagOf(r, i)
           c == Calls(Head(stream[r]), r)[i]
<1>1. /\ Done(r) \in {1, 3}
      /\ Head(stream[r]) = IF Done(r) = 1 THEN "north_south" ELSE "east_west"
  BY GroupStep
<1>2. /\ t \in Tag /\ GroupOf(t) = Done(r) + 1 /\ c.seg = SegmentOf(t)
      /\ i \in {1, 3} => c.peer = Dest(t, r) /\ SendCall(t) = i
      /\ i \in {2, 4} => c.kind = "recv"
  BY <1>1, CallOf
<1>3. /\ c.kind = "send" /\ Ready(r, i) /\ i \in pending[r]
      /\ running[r] /\ running' = running
      /\ pending' = [pending EXCEPT ![r] = @ \ {i}]
      /\ wire' = [wire EXCEPT ![r][c.peer] =
                    Append(@, <<c.seg, SendFrom(r)[c.seg][2]>>)]
  BY DEF Transmit, Ready
<1> HIDE DEF c
<1>4. i \in {1, 3}
  BY <1>2, <1>3
<1> QED BY <1>2, <1>3, <1>4

\* A receive that progresses takes the oldest message from the source of its
\* transfer.
LEMMA DeliverStep ==
  ASSUME TypeOK, ControlInv, NEW r \in Rank, NEW i \in 1 .. 4, Deliver(r, i)
  PROVE  LET t == TagOf(r, i)
             m == Head(wire[Source(t, r)][r])
         IN  /\ i \in {2, 4} /\ i \in pending[r] /\ Ready(r, i)
             /\ t \in Tag /\ GroupOf(t) = Done(r) + 1 /\ ReceiveCall(t) = i
             /\ running[r] /\ running' = running
             /\ pending' = [pending EXCEPT ![r] = @ \ {i}]
             /\ wire[Source(t, r)][r] # <<>>
             /\ wire' = [wire EXCEPT ![Source(t, r)][r] = Tail(@)]
             /\ IF NorthSouth(t)
                THEN hons' = [hons EXCEPT ![r][SegmentOf(t)] = m] /\ hoew' = hoew
                ELSE hoew' = [hoew EXCEPT ![r][SegmentOf(t)] = m] /\ hons' = hons
<1> DEFINE t == TagOf(r, i)
           c == Calls(Head(stream[r]), r)[i]
<1>1. /\ Done(r) \in {1, 3}
      /\ Head(stream[r]) = IF Done(r) = 1 THEN "north_south" ELSE "east_west"
  BY GroupStep
<1>2. /\ t \in Tag /\ GroupOf(t) = Done(r) + 1 /\ c.seg = SegmentOf(t)
      /\ NorthSouth(t) <=> Done(r) = 1
      /\ i \in {1, 3} => c.kind = "send"
      /\ i \in {2, 4} => c.peer = Source(t, r) /\ ReceiveCall(t) = i
  BY <1>1, CallOf
<1>3. /\ c.kind = "recv" /\ Ready(r, i) /\ i \in pending[r]
      /\ running[r] /\ running' = running
      /\ pending' = [pending EXCEPT ![r] = @ \ {i}]
      /\ wire[c.peer][r] # <<>>
      /\ wire' = [wire EXCEPT ![c.peer][r] = Tail(@)]
      /\ IF Head(stream[r]) = "north_south"
         THEN hons' = [hons EXCEPT ![r][c.seg] = Head(wire[c.peer][r])]
              /\ hoew' = hoew
         ELSE hoew' = [hoew EXCEPT ![r][c.seg] = Head(wire[c.peer][r])]
              /\ hons' = hons
  BY DEF Deliver, Ready
<1>4. Head(stream[r]) = "north_south" <=> NorthSouth(t)
  BY <1>1, <1>2
<1> HIDE DEF c
<1>5. i \in {2, 4}
  BY <1>2, <1>3
<1>6. c.peer = Source(t, r) /\ c.seg = SegmentOf(t)
  BY <1>2, <1>5
<1> HIDE DEF t
<1>7. IF NorthSouth(t)
      THEN /\ hons' = [hons EXCEPT ![r][SegmentOf(t)] =
                         Head(wire[Source(t, r)][r])]
           /\ hoew' = hoew
      ELSE /\ hoew' = [hoew EXCEPT ![r][SegmentOf(t)] =
                         Head(wire[Source(t, r)][r])]
           /\ hons' = hons
  BY <1>3, <1>4, <1>6
<1> QED BY <1>2, <1>3, <1>5, <1>6, <1>7 DEF t

-----------------------------------------------------------------------------
(***************************************************************************)
(* The counters: which step moves which.                                   *)
(***************************************************************************)

\* The counters are numbers, and a rank is at most one message of each
\* transfer further than the exchanges it has completed.
LEMMA CountersTyped ==
  ASSUME TypeOK, NEW r \in Rank
  PROVE  /\ \A t \in Tag : /\ Posted(r, t) \in {iter[r], iter[r] + 1}
                           /\ Received(r, t) \in {iter[r], iter[r] + 1}
                           /\ Posted(r, t) \in Nat /\ Received(r, t) \in Nat
         /\ PostedBy(r) \in [Tag -> Nat] /\ ReceivedBy(r) \in [Tag -> Nat]
<1>1. iter[r] \in Nat
  BY IterationsAssumption DEF TypeOK
<1> QED BY <1>1 DEF Posted, Received, PostedBy, ReceivedBy

\* The numbers of the calls and of their operations.
LEMMA CallNumbers ==
  ASSUME NEW t \in Tag
  PROVE  /\ GroupOf(t) \in {2, 4}
         /\ SendCall(t) \in {1, 3} /\ ReceiveCall(t) \in {2, 4}
BY DEF GroupOf, SendCall, ReceiveCall

\* The steps of the host, the copies, and the first and the last step of a
\* group move no counter.
LEMMA QuietSteps ==
  ASSUME TypeOK, ControlInv, NEW r \in Rank,
         Host(r) \/ Copy(r) \/ Launch(r) \/ Complete(r),
         NEW q \in Rank, NEW t \in Tag
  PROVE  Posted(q, t)' = Posted(q, t) /\ Received(q, t)' = Received(q, t)
<1> DEFINE g == GroupOf(t)
<1>1. CASE q # r
  BY <1>1, Elsewhere DEF Step, Device
<1>2. CASE q = r
  <2>0. /\ g \in {2, 4} /\ SendCall(t) \in 1 .. 4 /\ ReceiveCall(t) \in 1 .. 4
        /\ iter[r] \in Nat /\ Done(r) \in 0 .. 4
    BY CallNumbers, Position
  <2>1. ASSUME NEW i \in 1 .. 4
        PROVE  IF iter' = iter
               THEN Progressed(r, g, i)' <=> Progressed(r, g, i)
               ELSE /\ iter'[r] = iter[r] + 1
                    /\ Progressed(r, g, i) /\ ~Progressed(r, g, i)'
    <3> HIDE DEF g
    <3>1. CASE Enqueue(r)
      <4>1. /\ iter' = iter /\ running' = running /\ pending' = pending
            /\ Done(r)' = Done(r)
        BY <3>1, EnqueueStep DEF Enqueue
      <4> QED BY <4>1 DEF Progressed
    <3>2. CASE Synchronize(r) /\ at[r] # Len(Program)
      <4>1. /\ iter' = iter /\ running' = running /\ pending' = pending
            /\ Done(r)' = Done(r)
        BY <3>2, SynchronizeStep DEF Synchronize
      <4> QED BY <4>1 DEF Progressed
    <3>3. CASE Synchronize(r) /\ at[r] = Len(Program)
      <4>1. /\ iter'[r] = iter[r] + 1 /\ Done(r) = 4 /\ Done(r)' = 0
            /\ running' = running /\ ~running[r]
        BY <3>3, SynchronizeStep DEF Synchronize
      <4> QED BY <2>0, <4>1 DEF Progressed
    <3>4. CASE Copy(r)
      <4>1. /\ iter' = iter /\ ~running'[r] /\ running' = running
            /\ Done(r)' = Done(r) + 1 /\ Head(stream[r]) = Operations[Done(r) + 1]
            /\ Done(r) \in 0 .. 3 /\ Head(stream[r]) \in Copies
        BY <3>4, PopStep DEF Copy, AtHead
      <4>2. Done(r) \in {0, 2}
        BY <4>1 DEF Copies, Operations
      <4> QED BY <2>0, <4>1, <4>2 DEF Progressed
    <3>5. CASE Complete(r)
      <4>1. /\ iter' = iter /\ ~running'[r] /\ running[r] /\ pending[r] = {}
            /\ Done(r)' = Done(r) + 1 /\ Done(r) \in 0 .. 3
        BY <3>5, PopStep DEF Complete
      <4> QED BY <2>0, <4>1 DEF Progressed
    <3>6. CASE Launch(r)
      <4>1. /\ iter' = iter /\ ~running[r] /\ Done(r)' = Done(r)
            /\ pending'[r] = DOMAIN Calls(Head(stream[r]), r)
        BY <3>6, GroupStep DEF Launch, TypeOK
      <4>2. DOMAIN Calls(Head(stream[r]), r) = 1 .. 4
        BY DEF Calls
      <4> QED BY <2>0, <4>1, <4>2 DEF Progressed
    <3> QED BY <1>2, <3>1, <3>2, <3>3, <3>4, <3>5, <3>6 DEF Host
  <2>2. /\ IF iter' = iter
           THEN Progressed(r, g, SendCall(t))' <=> Progressed(r, g, SendCall(t))
           ELSE /\ iter'[r] = iter[r] + 1
                /\ Progressed(r, g, SendCall(t)) /\ ~Progressed(r, g, SendCall(t))'
        /\ IF iter' = iter
           THEN Progressed(r, g, ReceiveCall(t))' <=> Progressed(r, g, ReceiveCall(t))
           ELSE /\ iter'[r] = iter[r] + 1
                /\ Progressed(r, g, ReceiveCall(t))
                /\ ~Progressed(r, g, ReceiveCall(t))'
    <3> HIDE DEF g
    <3> QED BY <2>0, <2>1
  <2>3. Posted(r, t)' = Posted(r, t)
    BY <2>2 DEF Posted
  <2>4. Received(r, t)' = Received(r, t)
    BY <2>2 DEF Received
  <2> QED BY <1>2, <2>3, <2>4
<1> QED BY <1>1, <1>2

\* A call that progresses moves the counter of its transfer and no other.
LEMMA CallCounts ==
  ASSUME TypeOK, ControlInv, NEW r \in Rank, NEW i \in 1 .. 4,
         Transmit(r, i) \/ Deliver(r, i), NEW t \in Tag
  PROVE  /\ IF Transmit(r, i) /\ t = TagOf(r, i)
            THEN Posted(r, t) = iter[r] /\ Posted(r, t)' = iter[r] + 1
            ELSE Posted(r, t)' = Posted(r, t)
         /\ IF Deliver(r, i) /\ t = TagOf(r, i)
            THEN Received(r, t) = iter[r] /\ Received(r, t)' = iter[r] + 1
            ELSE Received(r, t)' = Received(r, t)
<1> DEFINE u == TagOf(r, i)
<1>1. /\ iter' = iter /\ Done(r)' = Done(r) /\ Done(r) \in {1, 3}
      /\ Head(stream[r]) = IF Done(r) = 1 THEN "north_south" ELSE "east_west"
  BY GroupStep
<1>2. /\ running[r] /\ running' = running /\ i \in pending[r]
      /\ pending' = [pending EXCEPT ![r] = @ \ {i}]
      /\ u \in Tag /\ GroupOf(u) = Done(r) + 1
      /\ Transmit(r, i) => i \in {1, 3} /\ SendCall(u) = i
      /\ Deliver(r, i) => i \in {2, 4} /\ ReceiveCall(u) = i
  BY TransmitStep, DeliverStep
<1>3. pending'[r] = pending[r] \ {i}
  BY <1>2 DEF TypeOK
<1>4. /\ GroupOf(t) \in {2, 4} /\ SendCall(t) \in {1, 3}
      /\ ReceiveCall(t) \in {2, 4} /\ iter[r] \in Nat
  BY CallNumbers, Position
<1>5. /\ GroupOf(t) = GroupOf(u) /\ SendCall(t) = SendCall(u) => t = u
      /\ GroupOf(t) = GroupOf(u) /\ ReceiveCall(t) = ReceiveCall(u) => t = u
  BY <1>2 DEF GroupOf, NorthSouth, SendCall, ReceiveCall, SegmentOf, Tag
<1> HIDE DEF u
<1>6. ASSUME NEW j \in 1 .. 4, ~(GroupOf(t) = Done(r) + 1 /\ j = i)
      PROVE  Progressed(r, GroupOf(t), j)' <=> Progressed(r, GroupOf(t), j)
  BY <1>1, <1>2, <1>3, <1>4, <1>6 DEF Progressed
<1>7. ~Progressed(r, Done(r) + 1, i) /\ Progressed(r, Done(r) + 1, i)'
  BY <1>1, <1>2, <1>3 DEF Progressed
<1>8. CASE Transmit(r, i)
  <2>1. /\ SendCall(u) = i /\ i \in {1, 3} /\ ReceiveCall(t) # i
        /\ Deliver(r, i) => FALSE
    BY <1>2, <1>4, <1>8
  <2>2. Received(r, t)' = Received(r, t)
    BY <1>1, <1>4, <1>6, <2>1 DEF Received
  <2>3. CASE t = u
    <3>1. ~Progressed(r, GroupOf(t), SendCall(t))
      BY <1>2, <1>7, <2>1, <2>3
    <3>2. Progressed(r, GroupOf(t), SendCall(t))'
      BY <1>1, <1>2, <1>7, <2>1, <2>3
    <3> QED BY <1>1, <1>8, <2>1, <2>2, <2>3, <3>1, <3>2 DEF Posted, u
  <2>4. CASE t # u
    <3>1. ~(GroupOf(t) = Done(r) + 1 /\ SendCall(t) = i)
      BY <1>2, <1>5, <2>1, <2>4
    <3>2. Posted(r, t)' = Posted(r, t)
      BY <1>1, <1>4, <1>6, <3>1 DEF Posted
    <3> QED BY <2>1, <2>2, <2>4, <3>2 DEF u
  <2> QED BY <2>3, <2>4
<1>9. CASE Deliver(r, i)
  <2>1. /\ ReceiveCall(u) = i /\ i \in {2, 4} /\ SendCall(t) # i
        /\ Transmit(r, i) => FALSE
    BY <1>2, <1>4, <1>9
  <2>2. Posted(r, t)' = Posted(r, t)
    BY <1>1, <1>4, <1>6, <2>1 DEF Posted
  <2>3. CASE t = u
    <3>1. ~Progressed(r, GroupOf(t), ReceiveCall(t))
      BY <1>2, <1>7, <2>1, <2>3
    <3>2. Progressed(r, GroupOf(t), ReceiveCall(t))'
      BY <1>1, <1>2, <1>7, <2>1, <2>3
    <3> QED BY <1>1, <1>9, <2>1, <2>2, <2>3, <3>1, <3>2 DEF Received, u
  <2>4. CASE t # u
    <3>1. ~(GroupOf(t) = Done(r) + 1 /\ ReceiveCall(t) = i)
      BY <1>2, <1>5, <2>1, <2>4
    <3>2. Received(r, t)' = Received(r, t)
      BY <1>1, <1>4, <1>6, <3>1 DEF Received
    <3> QED BY <2>1, <2>2, <2>4, <3>2 DEF u
  <2> QED BY <2>3, <2>4
<1> QED BY <1>8, <1>9

-----------------------------------------------------------------------------
(***************************************************************************)
(* The order in which the calls to one peer progress.                      *)
(***************************************************************************)

\* The two peers of the running group are one rank.
OnePeer(r) ==
  (Done(r) = 1 /\ North(r) = South(r)) \/ (Done(r) = 3 /\ East(r) = West(r))

\* The second call of a kind to that rank waits for the first.
LEMMA SecondWaits ==
  ASSUME NEW r \in Rank, NEW i \in {3, 4}, Ready(r, i), OnePeer(r),
         Head(stream[r]) = IF Done(r) = 1 THEN "north_south" ELSE "east_west"
  PROVE  i - 2 \notin pending[r]
<1> DEFINE calls == Calls(Head(stream[r]), r)
<1>1. calls[i - 2].peer = calls[i].peer /\ calls[i - 2].kind = calls[i].kind
  <2>1. CASE Done(r) = 1
    <3>1. calls = <<[kind |-> "send", seg |-> "n",  peer |-> South(r)],
                    [kind |-> "recv", seg |-> "n",  peer |-> North(r)],
                    [kind |-> "send", seg |-> "2n", peer |-> North(r)],
                    [kind |-> "recv", seg |-> "2n", peer |-> South(r)]>>
      BY <2>1 DEF Calls
    <3>2. North(r) = South(r)
      BY <2>1 DEF OnePeer
    <3> HIDE DEF calls
    <3> QED BY <3>1, <3>2
  <2>2. CASE Done(r) = 3
    <3>1. calls = <<[kind |-> "send", seg |-> "n",  peer |-> West(r)],
                    [kind |-> "recv", seg |-> "n",  peer |-> East(r)],
                    [kind |-> "send", seg |-> "2n", peer |-> East(r)],
                    [kind |-> "recv", seg |-> "2n", peer |-> West(r)]>>
      BY <2>2 DEF Calls
    <3>2. East(r) = West(r)
      BY <2>2 DEF OnePeer
    <3> HIDE DEF calls
    <3> QED BY <3>1, <3>2
  <2> QED BY <2>1, <2>2 DEF OnePeer
<1>2. \A j \in pending[r] : j < i => \/ calls[j].peer # calls[i].peer
                                     \/ calls[j].kind # calls[i].kind
  BY DEF Ready
<1> HIDE DEF calls
<1> QED BY <1>1, <1>2

LEMMA StepOrder ==
  ASSUME TypeOK, ControlInv, OrderInv, NEW r \in Rank, Step(r)
  PROVE  OrderInv'
<1> SUFFICES ASSUME NEW q \in Rank, running'[q], OnePeer(q)'
             PROVE  /\ 1 \in pending'[q] => 3 \in pending'[q]
                    /\ 2 \in pending'[q] => 4 \in pending'[q]
  BY DEF OrderInv, OnePeer
<1>1. running[q] /\ OnePeer(q)
      => (1 \in pending[q] => 3 \in pending[q]) /\ (2 \in pending[q] => 4 \in pending[q])
  BY DEF OrderInv, OnePeer
<1>2. CASE q # r
  <2>1. running'[q] = running[q] /\ pending'[q] = pending[q] /\ Done(q)' = Done(q)
    BY <1>2, Elsewhere
  <2>2. OnePeer(q)
    BY <2>1 DEF OnePeer
  <2> QED BY <1>1, <2>1, <2>2
<1>3. CASE q = r
  <2>1. CASE Host(r)
    <3>1. running' = running /\ pending' = pending
      BY <2>1 DEF Host, Enqueue, Synchronize
    <3>2. Done(r)' = Done(r)
      BY <1>3, <2>1, <3>1, EnqueueStep, SynchronizeStep DEF Host
    <3>3. OnePeer(r)
      BY <1>3, <3>2 DEF OnePeer
    <3> QED BY <1>1, <1>3, <3>1, <3>3
  <2>2. CASE Copy(r) \/ Complete(r)
    BY <1>3, <2>2, PopStep
  <2>3. CASE Launch(r)
    <3>1. pending'[r] = DOMAIN Calls(Head(stream[r]), r)
      BY <2>3 DEF Launch, TypeOK
    <3>2. DOMAIN Calls(Head(stream[r]), r) = 1 .. 4
      BY DEF Calls
    <3> QED BY <1>3, <3>1, <3>2
  <2>4. ASSUME NEW i \in 1 .. 4, Transmit(r, i) \/ Deliver(r, i)
        PROVE  /\ 1 \in pending'[r] => 3 \in pending'[r]
               /\ 2 \in pending'[r] => 4 \in pending'[r]
    <3>1. /\ Done(r)' = Done(r)
          /\ Head(stream[r]) = IF Done(r) = 1 THEN "north_south" ELSE "east_west"
      BY <2>4, GroupStep
    <3>2. running[r] /\ Ready(r, i) /\ pending'[r] = pending[r] \ {i}
      <4>1. /\ running[r] /\ Ready(r, i)
            /\ pending' = [pending EXCEPT ![r] = @ \ {i}]
        BY <2>4, TransmitStep, DeliverStep
      <4> QED BY <4>1 DEF TypeOK
    <3>3. OnePeer(r)
      BY <1>3, <3>1 DEF OnePeer
    <3>4. /\ i = 3 => 1 \notin pending[r]
          /\ i = 4 => 2 \notin pending[r]
      <4>1. i \in {3, 4} => i - 2 \notin pending[r]
        BY <3>1, <3>2, <3>3, SecondWaits
      <4> QED BY <4>1
    <3> QED BY <1>1, <1>3, <3>2, <3>3, <3>4
  <2> QED BY <1>3, <2>1, <2>2, <2>3, <2>4 DEF Step, Device
<1> QED BY <1>2, <1>3

\* Two transfers of one rank to, or from, one peer: either they are of
\* different groups or the two peers of their group are one rank.
LEMMA OrderOfTransfers ==
  ASSUME NEW r \in Rank, NEW u \in Tag, NEW t \in Tag, Number(u) < Number(t),
         Dest(u, r) = Dest(t, r) \/ Source(u, r) = Source(t, r)
  PROVE  \/ GroupOf(u) = 2 /\ GroupOf(t) = 4
         \/ /\ GroupOf(u) = GroupOf(t)
            /\ SendCall(u) = 1 /\ SendCall(t) = 3
            /\ ReceiveCall(u) = 2 /\ ReceiveCall(t) = 4
            /\ GroupOf(u) = 2 => North(r) = South(r)
            /\ GroupOf(u) = 4 => East(r) = West(r)
<1>1. \/ u \in {"9901", "9902"} /\ t \in {"9903", "9904"}
      \/ u = "9901" /\ t = "9902"
      \/ u = "9903" /\ t = "9904"
  BY DEF Number, Tag
<1>2. CASE u \in {"9901", "9902"} /\ t \in {"9903", "9904"}
  BY <1>2 DEF GroupOf, NorthSouth
<1>3. CASE u = "9901" /\ t = "9902"
  BY <1>3 DEF GroupOf, NorthSouth, SendCall, ReceiveCall, SegmentOf, Dest, Source
<1>4. CASE u = "9903" /\ t = "9904"
  BY <1>4 DEF GroupOf, NorthSouth, SendCall, ReceiveCall, SegmentOf, Dest, Source
<1> QED BY <1>1, <1>2, <1>3, <1>4

\* The counters of the transfers from p to q are in order, at both ends.
LEMMA CountersInOrder ==
  ASSUME TypeOK, ControlInv, OrderInv, NEW p \in Rank, NEW q \in Rank
  PROVE  /\ Stairs(PostedBy(p), Between(p, q))
         /\ Stairs(ReceivedBy(q), Between(p, q))
<1> SUFFICES ASSUME NEW u \in Between(p, q), NEW t \in Between(p, q),
                    Number(u) < Number(t)
             PROVE  /\ \/ Posted(p, u) = Posted(p, t)
                       \/ Posted(p, u) = Posted(p, t) + 1
                    /\ \/ Received(q, u) = Received(q, t)
                       \/ Received(q, u) = Received(q, t) + 1
  BY DEF Stairs, PostedBy, ReceivedBy, Between
<1>1. /\ u \in Tag /\ t \in Tag
      /\ Dest(u, p) = Dest(t, p) /\ Source(u, q) = Source(t, q)
  BY DestSource DEF Between
<1>2. ASSUME NEW r \in Rank, NEW i \in {1, 2}, NEW g \in {2, 4},
             g = 2 => North(r) = South(r), g = 4 => East(r) = West(r),
             Progressed(r, g, i + 2)
      PROVE  Progressed(r, g, i)
  <2>1. Done(r) \in 0 .. 4
    BY Position
  <2>2. CASE Done(r) >= g
    BY <2>2 DEF Progressed
  <2>3. CASE ~(Done(r) >= g)
    <3>1. Done(r) = g - 1 /\ running[r] /\ i + 2 \notin pending[r]
      BY <1>2, <2>3 DEF Progressed
    <3>2. OnePeer(r)
      BY <1>2, <3>1 DEF OnePeer
    <3>3. i \notin pending[r]
      BY <3>1, <3>2 DEF OrderInv, OnePeer
    <3> QED BY <3>1, <3>3 DEF Progressed
  <2> QED BY <2>2, <2>3
<1>3. ASSUME NEW r \in Rank, NEW i \in 1 .. 4, NEW j \in 1 .. 4,
             Progressed(r, 4, i)
      PROVE  Progressed(r, 2, j)
  <2>1. Done(r) \in 0 .. 4
    BY Position
  <2> QED BY <1>3, <2>1 DEF Progressed
<1>4. /\ iter[p] \in Nat /\ iter[q] \in Nat
      /\ SendCall(u) \in 1 .. 4 /\ SendCall(t) \in 1 .. 4
      /\ ReceiveCall(u) \in 1 .. 4 /\ ReceiveCall(t) \in 1 .. 4
      /\ GroupOf(u) \in {2, 4}
  BY <1>1, Position, CallNumbers
<1>5. /\ Progressed(p, GroupOf(t), SendCall(t))
           => Progressed(p, GroupOf(u), SendCall(u))
  <2>1. \/ GroupOf(u) = 2 /\ GroupOf(t) = 4
        \/ /\ GroupOf(u) = GroupOf(t) /\ SendCall(u) = 1 /\ SendCall(t) = 1 + 2
           /\ GroupOf(u) = 2 => North(p) = South(p)
           /\ GroupOf(u) = 4 => East(p) = West(p)
    BY <1>1, OrderOfTransfers
  <2> QED BY <1>2, <1>3, <1>4, <2>1
<1>6. /\ Progressed(q, GroupOf(t), ReceiveCall(t))
           => Progressed(q, GroupOf(u), ReceiveCall(u))
  <2>1. \/ GroupOf(u) = 2 /\ GroupOf(t) = 4
        \/ /\ GroupOf(u) = GroupOf(t) /\ ReceiveCall(u) = 2 /\ ReceiveCall(t) = 2 + 2
           /\ GroupOf(u) = 2 => North(q) = South(q)
           /\ GroupOf(u) = 4 => East(q) = West(q)
    BY <1>1, OrderOfTransfers
  <2> QED BY <1>2, <1>3, <1>4, <2>1
<1>7. /\ \/ Posted(p, u) = Posted(p, t)
         \/ Posted(p, u) = Posted(p, t) + 1
  BY <1>4, <1>5 DEF Posted
<1>8. /\ \/ Received(q, u) = Received(q, t)
         \/ Received(q, u) = Received(q, t) + 1
  BY <1>4, <1>6 DEF Received
<1> QED BY <1>7, <1>8

\* A call that may progress is the next one of those to its peer.
LEMMA CallsInOrder ==
  ASSUME TypeOK, ControlInv, OrderInv, NEW r \in Rank, NEW i \in 1 .. 4
  PROVE  /\ Transmit(r, i)
              => ComesNext(PostedBy(r), Between(r, Dest(TagOf(r, i), r)),
                           TagOf(r, i))
         /\ Deliver(r, i)
              => ComesNext(ReceivedBy(r), Between(Source(TagOf(r, i), r), r),
                           TagOf(r, i))
<1> DEFINE t == TagOf(r, i)
<1>0. iter[r] \in Nat
  BY Position
<1>1. ASSUME NEW u \in Tag, NEW j \in 1 .. 4, NEW k \in 1 .. 4, t \in Tag,
             i \in pending[r], running[r], Ready(r, i), GroupOf(t) = Done(r) + 1,
             Done(r) \in {1, 3},
             Head(stream[r]) = IF Done(r) = 1 THEN "north_south" ELSE "east_west",
             u # t, Dest(u, r) = Dest(t, r) \/ Source(u, r) = Source(t, r),
             \/ i = SendCall(t) /\ j = SendCall(u)
             \/ i = ReceiveCall(t) /\ j = ReceiveCall(u)
      PROVE  Progressed(r, GroupOf(u), j) <=> Number(u) < Number(t)
  <2>1. Number(u) < Number(t) \/ Number(t) < Number(u)
    BY <1>1 DEF Number, Tag
  <2>2. Number(u) \in Nat /\ Number(t) \in Nat /\ GroupOf(u) \in {2, 4}
    BY DEF Number, GroupOf
  <2> HIDE DEF t
  <2>3. CASE Number(u) < Number(t)
    <3>1. \/ GroupOf(u) = 2 /\ GroupOf(t) = 4
          \/ /\ GroupOf(u) = GroupOf(t) /\ i \in {3, 4} /\ j = i - 2
             /\ GroupOf(u) = 2 => North(r) = South(r)
             /\ GroupOf(u) = 4 => East(r) = West(r)
      BY <1>1, <2>3, OrderOfTransfers
    <3>2. CASE GroupOf(u) = 2 /\ GroupOf(t) = 4
      BY <1>1, <2>3, <3>2 DEF Progressed
    <3>3. CASE /\ GroupOf(u) = GroupOf(t) /\ i \in {3, 4} /\ j = i - 2
               /\ GroupOf(u) = 2 => North(r) = South(r)
               /\ GroupOf(u) = 4 => East(r) = West(r)
      <4>1. OnePeer(r)
        BY <1>1, <3>3 DEF OnePeer
      <4>2. j \notin pending[r]
        BY <1>1, <3>3, <4>1, SecondWaits
      <4> QED BY <1>1, <2>3, <3>3, <4>2 DEF Progressed
    <3> QED BY <3>1, <3>2, <3>3
  <2>4. CASE Number(t) < Number(u)
    <3>1. \/ GroupOf(u) = 4 /\ GroupOf(t) = 2
          \/ /\ GroupOf(u) = GroupOf(t) /\ i \in {1, 2} /\ j = i + 2
             /\ GroupOf(u) = 2 => North(r) = South(r)
             /\ GroupOf(u) = 4 => East(r) = West(r)
      BY <1>1, <2>4, OrderOfTransfers
    <3>2. CASE GroupOf(u) = 4 /\ GroupOf(t) = 2
      BY <1>1, <2>2, <2>4, <3>2 DEF Progressed
    <3>3. CASE /\ GroupOf(u) = GroupOf(t) /\ i \in {1, 2} /\ j = i + 2
               /\ GroupOf(u) = 2 => North(r) = South(r)
               /\ GroupOf(u) = 4 => East(r) = West(r)
      <4>1. OnePeer(r)
        BY <1>1, <3>3 DEF OnePeer
      <4>2. j \in pending[r]
        BY <1>1, <3>3, <4>1 DEF OrderInv, OnePeer
      <4> QED BY <1>1, <2>2, <2>4, <3>3, <4>2 DEF Progressed
    <3> QED BY <3>1, <3>2, <3>3
  <2> QED BY <2>1, <2>3, <2>4
<1>2. ASSUME Transmit(r, i)
      PROVE  ComesNext(PostedBy(r), Between(r, Dest(t, r)), t)
  <2>1. /\ i \in pending[r] /\ running[r] /\ Ready(r, i) /\ t \in Tag
        /\ GroupOf(t) = Done(r) + 1 /\ SendCall(t) = i
    BY <1>2, TransmitStep
  <2>2. /\ Done(r) \in {1, 3}
        /\ Head(stream[r]) = IF Done(r) = 1 THEN "north_south" ELSE "east_west"
    BY <1>2, GroupStep
  <2>3. Posted(r, t) = iter[r]
    BY <1>2, <2>1, CallCounts
  <2> HIDE DEF t
  <2> SUFFICES ASSUME NEW u \in Tag, u # t, Dest(u, r) = Dest(t, r)
               PROVE  Posted(r, u) = IF Number(u) < Number(t)
                                     THEN Posted(r, t) + 1 ELSE Posted(r, t)
    BY <2>1 DEF ComesNext, PostedBy, Between
  <2>4. SendCall(u) \in 1 .. 4
    BY CallNumbers
  <2>5. Progressed(r, GroupOf(u), SendCall(u)) <=> Number(u) < Number(t)
    BY <1>1, <2>1, <2>2, <2>4
  <2> QED BY <1>0, <2>3, <2>5 DEF Posted
<1>3. ASSUME Deliver(r, i)
      PROVE  ComesNext(ReceivedBy(r), Between(Source(t, r), r), t)
  <2>1. /\ i \in pending[r] /\ running[r] /\ Ready(r, i) /\ t \in Tag
        /\ GroupOf(t) = Done(r) + 1 /\ ReceiveCall(t) = i
    BY <1>3, DeliverStep
  <2>2. /\ Done(r) \in {1, 3}
        /\ Head(stream[r]) = IF Done(r) = 1 THEN "north_south" ELSE "east_west"
    BY <1>3, GroupStep
  <2>3. Received(r, t) = iter[r]
    BY <1>3, <2>1, CallCounts
  <2> HIDE DEF t
  <2> SUFFICES ASSUME NEW u \in Tag, u # t, Dest(u, Source(t, r)) = r
               PROVE  Received(r, u) = IF Number(u) < Number(t)
                                       THEN Received(r, t) + 1 ELSE Received(r, t)
    BY <2>1 DEF ComesNext, ReceivedBy, Between
  <2>4. ReceiveCall(u) \in 1 .. 4 /\ Source(u, r) = Source(t, r)
    BY <2>1, CallNumbers, DestSource
  <2>5. Progressed(r, GroupOf(u), ReceiveCall(u)) <=> Number(u) < Number(t)
    BY <1>1, <2>1, <2>2, <2>4
  <2> QED BY <1>0, <2>3, <2>5 DEF Received
<1> QED BY <1>2, <1>3

-----------------------------------------------------------------------------
(***************************************************************************)
(* The wires.                                                              *)
(***************************************************************************)

\* A message is a word that has been filled.
LEMMA MessageType ==
  ASSUME NEW t \in Tag, NEW e \in Nat, NEW p \in Rank
  PROVE  Message(t, e, p) \in Word /\ Message(t, e, p)[2] = Payload(t, e, p)
<1>1. Payload(t, e, p) \in Rank
  <2>1. North(p) \in Rank /\ South(p) \in Rank /\ "n" \in Segment /\ "2n" \in Segment
    BY NeighborType DEF Segment
  <2> QED BY <2>1, OriginType DEF Payload, Tag
<1>2. SegmentOf(t) \in Segment
  BY DEF SegmentOf, Segment
<1> QED BY <1>1, <1>2 DEF Message, Word

\* The segment a rank sends is the one its neighbour expects.
LEMMA SentData ==
  ASSUME TypeOK, ControlInv, BufferInv, NEW r \in Rank, NEW i \in 1 .. 4,
         Transmit(r, i)
  PROVE  <<SegmentOf(TagOf(r, i)), SendFrom(r)[SegmentOf(TagOf(r, i))][2]>>
           = Message(TagOf(r, i), iter[r], r)
<1> DEFINE t == TagOf(r, i)
<1>1. /\ t \in Tag /\ GroupOf(t) = Done(r) + 1
  BY TransmitStep
<1>2. /\ Done(r) \in {1, 3}
      /\ Head(stream[r]) = IF Done(r) = 1 THEN "north_south" ELSE "east_west"
  BY GroupStep
<1> HIDE DEF t
<1>3. SendFrom(r)[SegmentOf(t)][2] = Payload(t, iter[r], r)
  <2>1. CASE Done(r) = 1
    <3>1. SendFrom(r) = hins[r] /\ t \in {"9901", "9902"}
      BY <1>1, <1>2, <2>1 DEF SendFrom, GroupOf, NorthSouth
    <3>2. \A s \in Segment : hins[r][s] = <<s, Origin(s, iter[r], r)>>
      BY <2>1 DEF BufferInv, BuffersOf
    <3>3. \A s \in Segment : hins[r][s][2] = Origin(s, iter[r], r)
      BY <3>2
    <3> QED BY <3>1, <3>3 DEF SegmentOf, Segment, Payload
  <2>2. CASE Done(r) = 3
    <3>1. SendFrom(r) = hiew[r] /\ t \in {"9903", "9904"}
      BY <1>1, <1>2, <2>2 DEF SendFrom, GroupOf, NorthSouth, Tag
    <3>2. /\ hiew[r]["n"][2] = Origin("n", iter[r], North(r))
          /\ hiew[r]["2n"][2] = Origin("2n", iter[r], South(r))
      BY <2>2 DEF BufferInv, BuffersOf
    <3> QED BY <3>1, <3>2 DEF SegmentOf, Payload
  <2> QED BY <1>2, <2>1, <2>2
<1> QED BY <1>3 DEF Message, t

\* The segment a rank receives is the one its peer sent for this receive, in
\* the same exchange.
LEMMA ReceivedData ==
  ASSUME TypeOK, ControlInv, OrderInv, WireInv, NEW r \in Rank,
         NEW i \in 1 .. 4, Deliver(r, i)
  PROVE  LET t == TagOf(r, i)
             s == Source(t, r)
         IN  /\ Head(wire[s][r]) = Message(t, iter[r], s)
             /\ Received(r, t) < Posted(s, t)
<1> DEFINE t == TagOf(r, i)
           s == Source(t, r)
<1>1. t \in Tag /\ wire[s][r] # <<>>
  BY DeliverStep
<1>2. s \in Rank /\ t \in Between(s, r)
  BY <1>1, DestSource DEF Between
<1>3. ComesNext(ReceivedBy(r), Between(s, r), t)
  BY CallsInOrder
<1>4. Received(r, t) = iter[r]
  BY <1>1, CallCounts
<1> HIDE DEF t, s
<1>5. Stairs(PostedBy(s), Between(s, r))
  BY <1>2, CountersInOrder
<1>6. /\ PostedBy(s) \in [Tag -> Nat] /\ ReceivedBy(r) \in [Tag -> Nat]
      /\ Between(s, r) \in SUBSET Tag /\ wire[s][r] \in Seq(Word)
  BY <1>2, CountersTyped DEF Between, TypeOK
<1>7. Holds(wire[s][r], PostedBy(s), ReceivedBy(r), Between(s, r), s)
  BY <1>2 DEF WireInv
<1>8. /\ ReceivedBy(r)[t] < PostedBy(s)[t]
      /\ Head(wire[s][r]) = Message(t, ReceivedBy(r)[t], s)
  BY <1>1, <1>2, <1>3, <1>5, <1>6, <1>7, HoldsHead
<1>9. ReceivedBy(r)[t] = iter[r] /\ PostedBy(s)[t] = Posted(s, t)
  BY <1>1, <1>4 DEF PostedBy, ReceivedBy
<1> QED BY <1>4, <1>8, <1>9 DEF t, s

\* Moving the next counter keeps the counters in order.
LEMMA NextInOrder ==
  ASSUME NEW count \in [Tag -> Nat], NEW ts \in SUBSET Tag, NEW t \in ts,
         ComesNext(count, ts, t)
  PROVE  Stairs([count EXCEPT ![t] = @ + 1], ts)
<1> DEFINE after == [count EXCEPT ![t] = @ + 1]
<1> SUFFICES ASSUME NEW u \in ts, NEW v \in ts, Number(u) < Number(v)
             PROVE  after[u] = after[v] \/ after[u] = after[v] + 1
  BY DEF Stairs
<1>1. /\ count[t] \in Nat /\ after[t] = count[t] + 1
      /\ \A w \in ts \ {t} :
           after[w] = IF Number(w) < Number(t) THEN count[t] + 1 ELSE count[t]
  BY DEF ComesNext
<1>2. Number(u) \in Nat /\ Number(v) \in Nat /\ Number(t) \in Nat
  BY DEF Number
<1> HIDE DEF after
<1>3. CASE u = t
  BY <1>1, <1>2, <1>3
<1>4. CASE v = t
  BY <1>1, <1>2, <1>4
<1>5. CASE u # t /\ v # t
  BY <1>1, <1>2, <1>5
<1> QED BY <1>3, <1>4, <1>5

\* What a wire holds depends on the counters of its transfers only.
LEMMA SameOnTransfers ==
  ASSUME NEW w, NEW ts \in SUBSET Tag, NEW p,
         NEW posted, NEW received, NEW sent, NEW taken,
         \A t \in ts : sent[t] = posted[t] /\ taken[t] = received[t],
         Holds(w, posted, received, ts, p)
  PROVE  Holds(w, sent, taken, ts, p)
<1>1. InFlight(sent, taken, ts) = InFlight(posted, received, ts)
  BY DEF InFlight, Unreceived
<1>2. ASSUME NEW t \in ts, NEW e
      PROVE  Place(taken, ts, t, e) = Place(received, ts, t, e)
  BY DEF Place, Unreceived
<1> QED BY <1>1, <1>2 DEF Holds

\* Every step leaves on the wires what has been posted and not received.
LEMMA StepWire ==
  ASSUME TypeOK, ControlInv, OrderInv, WireInv, BufferInv, NEW r \in Rank,
         Step(r)
  PROVE  WireInv'
<1> SUFFICES ASSUME NEW p \in Rank, NEW q \in Rank
             PROVE  Holds(wire'[p][q], PostedBy(p)', ReceivedBy(q)',
                          Between(p, q), p)
  BY DEF WireInv, Holds, Between
<1> DEFINE ts == Between(p, q)
<1>1. /\ PostedBy(p) \in [Tag -> Nat] /\ ReceivedBy(q) \in [Tag -> Nat]
      /\ ts \in SUBSET Tag /\ wire[p][q] \in Seq(Word)
      /\ Stairs(PostedBy(p), ts) /\ Stairs(ReceivedBy(q), ts)
      /\ Holds(wire[p][q], PostedBy(p), ReceivedBy(q), ts, p)
  BY CountersTyped, CountersInOrder DEF Between, TypeOK, WireInv
<1>2. CASE Host(r) \/ Copy(r) \/ Launch(r) \/ Complete(r)
  <2>1. wire' = wire
    BY <1>2 DEF Host, Enqueue, Synchronize, Copy, Launch, Complete
  <2>2. PostedBy(p)' = PostedBy(p) /\ ReceivedBy(q)' = ReceivedBy(q)
    BY <1>2, QuietSteps DEF PostedBy, ReceivedBy
  <2> QED BY <1>1, <2>1, <2>2
<1>3. ASSUME NEW i \in 1 .. 4, Transmit(r, i)
      PROVE  Holds(wire'[p][q], PostedBy(p)', ReceivedBy(q)', ts, p)
  <2>0. PICK t \in Tag : t = TagOf(r, i)
    BY <1>3, TransmitStep
  <2> DEFINE d == Dest(t, r)
             m == <<SegmentOf(t), SendFrom(r)[SegmentOf(t)][2]>>
  <2>1. /\ t \in Tag /\ wire' = [wire EXCEPT ![r][d] = Append(@, m)]
        /\ Transmit(r, i) /\ ~Deliver(r, i)
    <3>1. Transmit(r, i) => i \in {1, 3}
      BY TransmitStep
    <3>2. Deliver(r, i) => i \in {2, 4}
      BY DeliverStep
    <3> QED BY <1>3, <2>0, <3>1, <3>2, TransmitStep
  <2>2. m = Message(t, iter[r], r)
    BY <1>3, <2>0, SentData
  <2>3. d \in Rank
    BY <2>1, DestSource
  <2>4. ComesNext(PostedBy(r), Between(r, d), t)
    BY <1>3, <2>0, CallsInOrder
  <2>5. /\ \A v \in Tag : /\ Received(r, v)' = Received(r, v)
                          /\ v # t => Posted(r, v)' = Posted(r, v)
        /\ Posted(r, t) = iter[r] /\ Posted(r, t)' = iter[r] + 1
    <3>1. ASSUME NEW v \in Tag
          PROVE  /\ Received(r, v)' = Received(r, v)
                 /\ v # t => Posted(r, v)' = Posted(r, v)
                 /\ v = t => Posted(r, v) = iter[r] /\ Posted(r, v)' = iter[r] + 1
      BY <2>0, <2>1, CallCounts
    <3> QED BY <3>1
  <2> HIDE DEF d, m
  <2>6. ReceivedBy(q)' = ReceivedBy(q)
    <3>1. \A v \in Tag : Received(q, v)' = Received(q, v)
      <4>1. CASE q = r
        BY <2>5, <4>1
      <4>2. CASE q # r
        BY <1>3, <4>2, Elsewhere DEF Step, Device
      <4> QED BY <4>1, <4>2
    <3> QED BY <3>1 DEF ReceivedBy
  <2>7. CASE p = r /\ q = d
    <3>1. PostedBy(r)' = [PostedBy(r) EXCEPT ![t] = @ + 1] /\ PostedBy(r)[t] = iter[r]
      <4>1. /\ PostedBy(r)[t] = iter[r] /\ PostedBy(r) \in [Tag -> Nat]
            /\ \A v \in Tag : PostedBy(r)[v] = Posted(r, v)
        BY <2>1, <2>5, CountersTyped DEF PostedBy
      <4>2. \A v \in Tag : Posted(r, v)' = [PostedBy(r) EXCEPT ![t] = @ + 1][v]
        BY <2>1, <2>5, <4>1
      <4> QED BY <4>1, <4>2 DEF PostedBy
    <3>2. wire'[r][d] = Append(wire[r][d], m)
      BY <2>1, <2>3 DEF TypeOK
    <3>3. t \in ts
      BY <2>1, <2>7 DEF Between, d
    <3>4. Message(t, iter[r], r) \in Word
      BY <2>1, MessageType, Position
    <3>5. ComesNext(PostedBy(p), ts, t)
      BY <2>4, <2>7
    <3>6. Holds(Append(wire[p][q], Message(t, PostedBy(p)[t], p)),
                [PostedBy(p) EXCEPT ![t] = @ + 1], ReceivedBy(q), ts, p)
      <4> HIDE DEF ts
      <4>1. Message(t, PostedBy(p)[t], p) \in Word
        BY <2>7, <3>1, <3>4
      <4> QED BY <1>1, <3>3, <3>5, <4>1, HoldsAppend
    <3> QED BY <2>2, <2>6, <2>7, <3>1, <3>2, <3>6
  <2>8. CASE ~(p = r /\ q = d)
    <3>1. wire'[p][q] = wire[p][q]
      BY <2>1, <2>8 DEF TypeOK
    <3>2. \A v \in ts : Posted(p, v)' = Posted(p, v)
      <4>1. CASE p = r
        BY <2>5, <2>8, <4>1 DEF Between, d
      <4>2. CASE p # r
        BY <1>3, <4>2, Elsewhere DEF Step, Device, Between
      <4> QED BY <4>1, <4>2
    <3>3. \A v \in ts : /\ PostedBy(p)'[v] = PostedBy(p)[v]
                       /\ ReceivedBy(q)'[v] = ReceivedBy(q)[v]
      BY <2>6, <3>2 DEF PostedBy, Between
    <3> HIDE DEF ts
    <3> QED BY <1>1, <3>1, <3>3, SameOnTransfers
  <2> QED BY <2>7, <2>8
<1>4. ASSUME NEW i \in 1 .. 4, Deliver(r, i)
      PROVE  Holds(wire'[p][q], PostedBy(p)', ReceivedBy(q)', ts, p)
  <2>0. PICK t \in Tag : t = TagOf(r, i)
    BY <1>4, DeliverStep
  <2> DEFINE s == Source(t, r)
  <2>1. /\ t \in Tag /\ wire' = [wire EXCEPT ![s][r] = Tail(@)]
        /\ wire[s][r] # <<>> /\ Deliver(r, i) /\ ~Transmit(r, i)
    <3>1. Transmit(r, i) => i \in {1, 3}
      BY TransmitStep
    <3>2. Deliver(r, i) => i \in {2, 4}
      BY DeliverStep
    <3> QED BY <1>4, <2>0, <3>1, <3>2, DeliverStep
  <2>3. s \in Rank /\ Dest(t, s) = r
    BY <2>1, DestSource
  <2>4. ComesNext(ReceivedBy(r), Between(s, r), t)
    BY <1>4, <2>0, CallsInOrder
  <2>5. /\ \A v \in Tag : /\ Posted(r, v)' = Posted(r, v)
                          /\ v # t => Received(r, v)' = Received(r, v)
        /\ Received(r, t) = iter[r] /\ Received(r, t)' = iter[r] + 1
    <3>1. ASSUME NEW v \in Tag
          PROVE  /\ Posted(r, v)' = Posted(r, v)
                 /\ v # t => Received(r, v)' = Received(r, v)
                 /\ v = t => Received(r, v) = iter[r] /\ Received(r, v)' = iter[r] + 1
      BY <2>0, <2>1, CallCounts
    <3> QED BY <3>1
  <2>6. PostedBy(p)' = PostedBy(p)
    <3>1. \A v \in Tag : Posted(p, v)' = Posted(p, v)
      <4>1. CASE p = r
        BY <2>5, <4>1
      <4>2. CASE p # r
        BY <1>4, <4>2, Elsewhere DEF Step, Device
      <4> QED BY <4>1, <4>2
    <3> QED BY <3>1 DEF PostedBy
  <2>7. CASE p = s /\ q = r
    <3>1. ReceivedBy(r)' = [ReceivedBy(r) EXCEPT ![t] = @ + 1]
      <4>1. /\ ReceivedBy(r)[t] = iter[r] /\ ReceivedBy(r) \in [Tag -> Nat]
            /\ \A v \in Tag : ReceivedBy(r)[v] = Received(r, v)
        BY <2>1, <2>5, CountersTyped DEF ReceivedBy
      <4>2. \A v \in Tag : Received(r, v)' = [ReceivedBy(r) EXCEPT ![t] = @ + 1][v]
        BY <2>1, <2>5, <4>1
      <4> QED BY <4>1, <4>2 DEF ReceivedBy
    <3>2. wire'[s][r] = Tail(wire[s][r])
      BY <2>1, <2>3 DEF TypeOK
    <3>3. t \in ts
      BY <2>1, <2>3, <2>7 DEF Between
    <3>4. ComesNext(ReceivedBy(q), ts, t)
      BY <2>4, <2>7
    <3>5. Holds(Tail(wire[p][q]), PostedBy(p),
                [ReceivedBy(q) EXCEPT ![t] = @ + 1], ts, p)
      <4> HIDE DEF ts
      <4>1. Stairs([ReceivedBy(q) EXCEPT ![t] = @ + 1], ts)
        BY <1>1, <3>3, <3>4, NextInOrder
      <4>2. wire[p][q] # <<>>
        BY <2>1, <2>7
      <4> QED BY <1>1, <3>3, <3>4, <4>1, <4>2, HoldsTail
    <3> QED BY <2>6, <2>7, <3>1, <3>2, <3>5
  <2>8. CASE ~(p = s /\ q = r)
    <3>1. wire'[p][q] = wire[p][q]
      BY <2>1, <2>3, <2>8 DEF TypeOK
    <3>2. \A v \in ts : Received(q, v)' = Received(q, v)
      <4>1. CASE q = r
        <5>1. t \notin ts
          BY <2>1, <2>8, <4>1, DestSource DEF Between
        <5> QED BY <2>5, <4>1, <5>1 DEF Between
      <4>2. CASE q # r
        BY <1>4, <4>2, Elsewhere DEF Step, Device, Between
      <4> QED BY <4>1, <4>2
    <3>3. \A v \in ts : /\ PostedBy(p)'[v] = PostedBy(p)[v]
                       /\ ReceivedBy(q)'[v] = ReceivedBy(q)[v]
      BY <2>6, <3>2 DEF ReceivedBy, Between
    <3> HIDE DEF ts
    <3> QED BY <1>1, <3>1, <3>3, SameOnTransfers
  <2> QED BY <2>7, <2>8
<1> QED BY <1>2, <1>3, <1>4 DEF Step, Device

-----------------------------------------------------------------------------
(***************************************************************************)
(* Sends that are held back.                                               *)
(***************************************************************************)

\* A group is complete without buffering only when all it sent is received.
LEMMA StepHeldBack ==
  ASSUME TypeOK, ControlInv, OrderInv, WireInv, HeldBackInv, NEW r \in Rank,
         Step(r)
  PROVE  HeldBackInv'
<1> DEFINE Open(p, t) == /\ running[p] /\ Done(p) = GroupOf(t) - 1
                         /\ SendCall(t) \notin pending[p]
<1>0. buffered' = buffered
  BY DEF Step, Host, Device, Enqueue, Synchronize, Copy, Launch, Transmit,
         Deliver, Complete, setting
<1> SUFFICES ASSUME ~buffered, NEW p \in Rank, NEW t \in Tag
             PROVE  \/ Posted(p, t)' = Received(Dest(t, p), t)'
                    \/ /\ Posted(p, t)' = Received(Dest(t, p), t)' + 1
                       /\ Open(p, t)'
  BY <1>0 DEF HeldBackInv
<1> DEFINE d == Dest(t, p)
<1>1. d \in Rank /\ Source(t, d) = p
  BY DestSource
<1>2. \/ Posted(p, t) = Received(d, t)
      \/ Posted(p, t) = Received(d, t) + 1 /\ Open(p, t)
  BY DEF HeldBackInv
<1>3. Posted(p, t) \in Nat /\ Received(d, t) \in Nat
  BY <1>1, CountersTyped
<1> HIDE DEF Open
<1>4. CASE Complete(r) /\ p = r
  <2>1. wire[r][d] = <<>>
    BY <1>1, <1>4 DEF Complete
  <2>2. t \in Between(r, d)
    BY <1>4 DEF Between
  <2>3. Holds(<<>>, PostedBy(r), ReceivedBy(d), Between(r, d), r)
    BY <1>1, <2>1 DEF WireInv
  <2>4. PostedBy(r)[t] = ReceivedBy(d)[t]
    <3>1. /\ PostedBy(r) \in [Tag -> Nat] /\ ReceivedBy(d) \in [Tag -> Nat]
          /\ Between(r, d) \in SUBSET Tag
      BY <1>1, CountersTyped DEF Between
    <3> HIDE DEF d
    <3> QED BY <2>2, <2>3, <3>1, HoldsNothing
  <2>5. Posted(r, t) = Received(d, t)
    BY <2>4 DEF PostedBy, ReceivedBy
  <2>6. Posted(p, t)' = Posted(p, t) /\ Received(d, t)' = Received(d, t)
    BY <1>1, <1>4, QuietSteps
  <2> QED BY <1>4, <2>5, <2>6
<1>5. CASE \/ (Complete(r) /\ p # r) \/ Host(r) \/ Copy(r) \/ Launch(r)
  <2>1. Posted(p, t)' = Posted(p, t) /\ Received(d, t)' = Received(d, t)
    BY <1>1, <1>5, QuietSteps
  <2>2. Open(p, t) => Open(p, t)'
    <3>1. CASE p # r
      <4>1. running'[p] = running[p] /\ pending'[p] = pending[p] /\ Done(p)' = Done(p)
        BY <3>1, Elsewhere
      <4> QED BY <4>1 DEF Open
    <3>2. CASE p = r /\ Enqueue(r)
      <4>1. running' = running /\ pending' = pending /\ Done(r)' = Done(r)
        BY <3>2, EnqueueStep DEF Enqueue
      <4> QED BY <3>2, <4>1 DEF Open
    <3>3. CASE p = r /\ (Synchronize(r) \/ Launch(r))
      <4>1. ~running[r]
        BY <3>3, SynchronizeStep DEF Launch
      <4> QED BY <3>3, <4>1 DEF Open
    <3>4. CASE p = r /\ Copy(r)
      <4>1. ~running'[r] /\ running' = running
        BY <3>4, PopStep DEF Copy
      <4> QED BY <3>4, <4>1 DEF Open
    <3> QED BY <1>5, <3>1, <3>2, <3>3, <3>4 DEF Host
  <2> QED BY <1>2, <2>1, <2>2
<1>6. ASSUME NEW i \in 1 .. 4, Transmit(r, i) \/ Deliver(r, i)
      PROVE  \/ Posted(p, t)' = Received(d, t)'
             \/ Posted(p, t)' = Received(d, t)' + 1 /\ Open(p, t)'
  <2>1. Open(p, t) => Open(p, t)'
    <3>1. CASE p # r
      <4>1. running'[p] = running[p] /\ pending'[p] = pending[p] /\ Done(p)' = Done(p)
        BY <3>1, Elsewhere
      <4> QED BY <4>1 DEF Open
    <3>2. CASE p = r
      <4>1. running' = running /\ pending' = [pending EXCEPT ![r] = @ \ {i}]
        BY <1>6, TransmitStep, DeliverStep
      <4>2. pending'[r] = pending[r] \ {i} /\ Done(r)' = Done(r)
        BY <1>6, <4>1, GroupStep DEF TypeOK
      <4> QED BY <3>2, <4>1, <4>2 DEF Open
    <3> QED BY <3>1, <3>2
  <2>2. PICK u \in Tag : u = TagOf(r, i)
    BY <1>6, TransmitStep, DeliverStep
  <2>3. ASSUME NEW q \in Rank \ {r}, NEW v \in Tag
        PROVE  Posted(q, v)' = Posted(q, v) /\ Received(q, v)' = Received(q, v)
    BY <1>6, Elsewhere DEF Step, Device
  <2>4. CASE Transmit(r, i)
    <3>0. ~Deliver(r, i)
      <4>1. Transmit(r, i) => i \in {1, 3}
        BY TransmitStep
      <4>2. Deliver(r, i) => i \in {2, 4}
        BY DeliverStep
      <4> QED BY <2>4, <4>1, <4>2
    <3>1. Received(d, t)' = Received(d, t)
      BY <1>1, <1>6, <2>3, <3>0, CallCounts
    <3>2. CASE p = r /\ t = u
      <4>1. Posted(r, t) = iter[r] /\ Posted(r, t)' = iter[r] + 1
        BY <2>2, <2>4, <3>2, CallCounts
      <4>2. /\ running[r] /\ running' = running /\ i \in pending[r]
            /\ SendCall(t) = i /\ GroupOf(t) = Done(r) + 1
            /\ pending' = [pending EXCEPT ![r] = @ \ {i}]
        BY <2>2, <2>4, <3>2, TransmitStep
      <4>3. ~Open(p, t)
        BY <3>2, <4>2 DEF Open
      <4>4. Open(p, t)'
        <5>1. Done(r)' = Done(r) /\ Done(r) \in {1, 3} /\ pending'[r] = pending[r] \ {i}
          BY <1>6, <4>2, GroupStep DEF TypeOK
        <5> QED BY <3>2, <4>2, <5>1 DEF Open
      <4> QED BY <1>2, <3>1, <3>2, <4>1, <4>3, <4>4
    <3>3. CASE ~(p = r /\ t = u)
      <4>1. Posted(p, t)' = Posted(p, t)
        BY <1>6, <2>2, <2>3, <3>3, CallCounts
      <4> QED BY <1>2, <2>1, <3>1, <4>1
    <3> QED BY <3>2, <3>3
  <2>5. CASE Deliver(r, i)
    <3>0. ~Transmit(r, i)
      <4>1. Transmit(r, i) => i \in {1, 3}
        BY TransmitStep
      <4>2. Deliver(r, i) => i \in {2, 4}
        BY DeliverStep
      <4> QED BY <2>5, <4>1, <4>2
    <3>1. Posted(p, t)' = Posted(p, t)
      BY <1>6, <2>3, <3>0, CallCounts
    <3>2. CASE d = r /\ t = u
      <4>1. Received(r, t) = iter[r] /\ Received(r, t)' = iter[r] + 1
        BY <2>2, <2>5, <3>2, CallCounts
      <4>2. Received(r, t) < Posted(p, t)
        BY <1>1, <2>2, <2>5, <3>2, ReceivedData
      <4>3. Posted(p, t) = Received(d, t) + 1
        BY <1>2, <1>3, <3>2, <4>2
      <4> QED BY <3>1, <3>2, <4>1, <4>3
    <3>3. CASE ~(d = r /\ t = u)
      <4>1. Received(d, t)' = Received(d, t)
        BY <1>1, <1>6, <2>2, <2>3, <3>3, CallCounts
      <4> QED BY <1>2, <2>1, <3>1, <4>1
    <3> QED BY <3>2, <3>3
  <2> QED BY <1>6, <2>4, <2>5
<1> QED BY <1>4, <1>5, <1>6 DEF Step, Device

-----------------------------------------------------------------------------
(***************************************************************************)
(* The buffers.                                                            *)
(***************************************************************************)

LEMMA StepBuffer ==
  ASSUME TypeOK, ControlInv, OrderInv, WireInv, BufferInv, NEW r \in Rank,
         Step(r)
  PROVE  BufferInv'
<1> SUFFICES ASSUME NEW q \in Rank
             PROVE  BuffersOf(q)'
  BY DEF BufferInv
<1>1. BuffersOf(q)
  BY DEF BufferInv
<1>0. /\ "9901" \in Tag /\ "9902" \in Tag /\ "9903" \in Tag /\ "9904" \in Tag
  BY DEF Tag
<1>2. CASE q # r
  <2>1. /\ iter'[q] = iter[q] /\ Done(q)' = Done(q)
        /\ hins'[q] = hins[q] /\ hons'[q] = hons[q]
        /\ hiew'[q] = hiew[q] /\ hoew'[q] = hoew[q]
        /\ \A t \in Tag : Received(q, t)' = Received(q, t)
    BY <1>2, Elsewhere
  <2> QED BY <1>0, <1>1, <2>1 DEF BuffersOf
<1>3. CASE q = r
  <2> USE <1>3
  <2>0. /\ iter[r] \in Nat /\ Done(r) \in 0 .. 4
        /\ \A t \in Tag : Received(r, t) \in {iter[r], iter[r] + 1}
    BY Position, CountersTyped
  <2>1. CASE Enqueue(r) \/ Launch(r) \/ (Synchronize(r) /\ at[r] # Len(Program))
    <3>1. /\ iter' = iter /\ Done(r)' = Done(r)
          /\ hins' = hins /\ hons' = hons /\ hiew' = hiew /\ hoew' = hoew
      <4>1. CASE Enqueue(r)
        BY <4>1, EnqueueStep DEF Enqueue
      <4>2. CASE Launch(r)
        BY <4>2, GroupStep DEF Launch
      <4>3. CASE Synchronize(r) /\ at[r] # Len(Program)
        BY <4>3, SynchronizeStep DEF Synchronize
      <4> QED BY <2>1, <4>1, <4>2, <4>3
    <3>2. \A t \in Tag : Received(r, t)' = Received(r, t)
      BY <2>1, QuietSteps DEF Host
    <3> QED BY <1>0, <1>1, <3>1, <3>2 DEF BuffersOf
  <2>2. CASE Synchronize(r) /\ at[r] = Len(Program)
    <3>1. /\ iter'[r] = iter[r] + 1 /\ Done(r) = 4 /\ Done(r)' = 0
          /\ hoew' = hoew
      BY <2>2, SynchronizeStep DEF Synchronize
    <3>2. \A t \in Tag : Received(r, t)' = Received(r, t)
      BY <2>2, QuietSteps DEF Host
    <3>3. \A t \in Tag : Received(r, t) = iter[r] + 1
      BY <3>1, CallNumbers DEF Received, Progressed
    <3>4. /\ hoew[r]["n"] = <<"n", Origin("n", iter[r] + 1, r)>>
          /\ hoew[r]["2n"] = <<"2n", Origin("2n", iter[r] + 1, r)>>
      BY <1>0, <1>1, <3>3 DEF BuffersOf
    <3>5. \A t \in Tag : Received(r, t)' # iter'[r] + 1
      BY <2>0, <3>1, <3>2, <3>3
    <3> QED BY <1>0, <3>1, <3>4, <3>5 DEF BuffersOf, Segment
  <2>3. CASE Copy(r)
    <3>1. /\ iter' = iter /\ Done(r)' = Done(r) + 1 /\ Done(r) \in 0 .. 3
          /\ Head(stream[r]) = Operations[Done(r) + 1]
          /\ Head(stream[r]) \in Copies
      BY <2>3, PopStep DEF Copy, AtHead
    <3>2. \A t \in Tag : Received(r, t)' = Received(r, t)
      BY <2>3, QuietSteps
    <3>3. CASE Done(r) = 0
      <4>1. Head(stream[r]) = "copy_in"
        BY <3>1, <3>3 DEF Operations
      <4>2. /\ hins'[r] = hoew[r] /\ hons' = hons /\ hoew' = hoew
        BY <2>3, <4>1 DEF Copy, TypeOK
      <4>3. \A s \in Segment : hoew[r][s] = <<s, Origin(s, iter[r], r)>>
        BY <1>1, <3>3 DEF BuffersOf
      <4> QED BY <1>0, <1>1, <3>1, <3>2, <3>3, <4>2, <4>3 DEF BuffersOf
    <3>4. CASE Done(r) = 2
      <4>1. Head(stream[r]) # "copy_in"
        BY <3>1, <3>4 DEF Operations
      <4>2. /\ hiew'[r] = hons[r] /\ hins' = hins /\ hons' = hons /\ hoew' = hoew
        BY <2>3, <4>1 DEF Copy, TypeOK
      <4>3. Received(r, "9901") = iter[r] + 1 /\ Received(r, "9902") = iter[r] + 1
        BY <3>4 DEF Received, Progressed, GroupOf, NorthSouth
      <4>4. /\ hons[r]["n"] = <<"n", Origin("n", iter[r], North(r))>>
            /\ hons[r]["2n"] = <<"2n", Origin("2n", iter[r], South(r))>>
        BY <1>1, <4>3 DEF BuffersOf
      <4> QED BY <1>0, <1>1, <3>1, <3>2, <3>4, <4>2, <4>4 DEF BuffersOf
    <3>5. Done(r) \in {0, 2}
      BY <3>1 DEF Copies, Operations
    <3> QED BY <3>3, <3>4, <3>5
  <2>4. CASE Complete(r)
    <3>1. /\ iter' = iter /\ Done(r)' = Done(r) + 1
          /\ hins' = hins /\ hons' = hons /\ hiew' = hiew /\ hoew' = hoew
      BY <2>4, PopStep DEF Complete
    <3>2. \A t \in Tag : Received(r, t)' = Received(r, t)
      BY <2>4, QuietSteps
    <3>3. Done(r) \in {1, 3}
      BY <2>4 DEF Complete, ControlInv
    <3> QED BY <1>0, <1>1, <3>1, <3>2, <3>3 DEF BuffersOf
  <2>5. ASSUME NEW i \in 1 .. 4, Transmit(r, i)
        PROVE  BuffersOf(r)'
    <3>1. /\ iter' = iter /\ Done(r)' = Done(r)
          /\ hins' = hins /\ hons' = hons /\ hiew' = hiew /\ hoew' = hoew
      BY <2>5, GroupStep DEF Transmit
    <3>2. ~Deliver(r, i)
      <4>1. Transmit(r, i) => i \in {1, 3}
        BY TransmitStep
      <4>2. Deliver(r, i) => i \in {2, 4}
        BY DeliverStep
      <4> QED BY <2>5, <4>1, <4>2
    <3>3. \A t \in Tag : Received(r, t)' = Received(r, t)
      BY <2>5, <3>2, CallCounts
    <3> QED BY <1>0, <1>1, <3>1, <3>3 DEF BuffersOf
  <2>6. ASSUME NEW i \in 1 .. 4, Deliver(r, i)
        PROVE  BuffersOf(r)'
    <3>0. PICK t \in Tag : t = TagOf(r, i)
      BY <2>6, DeliverStep
    <3> DEFINE m == Message(t, iter[r], Source(t, r))
    <3>1. /\ iter' = iter /\ Done(r)' = Done(r) /\ Done(r) \in {1, 3}
          /\ hins' = hins /\ hiew' = hiew
      BY <2>6, GroupStep DEF Deliver
    <3>2. /\ GroupOf(t) = Done(r) + 1
          /\ IF NorthSouth(t)
             THEN hons' = [hons EXCEPT ![r][SegmentOf(t)] = m] /\ hoew' = hoew
             ELSE hoew' = [hoew EXCEPT ![r][SegmentOf(t)] = m] /\ hons' = hons
      BY <2>6, <3>0, DeliverStep, ReceivedData
    <3>3. \A v \in Tag : v # t => Received(r, v)' = Received(r, v)
      BY <2>6, <3>0, CallCounts
    <3>4. CASE NorthSouth(t)
      <4>1. hoew' = hoew /\ hons'[r] = [hons[r] EXCEPT ![SegmentOf(t)] = m]
        BY <3>2, <3>4 DEF TypeOK
      <4>2. /\ t = "9901" => m = <<"n", Origin("n", iter[r], North(r))>>
            /\ t = "9902" => m = <<"2n", Origin("2n", iter[r], South(r))>>
        BY DEF Message, Payload, Source, SegmentOf
      <4>3. hons[r] \in [Segment -> Word] /\ Done(r) = 1
        BY <3>1, <3>2, <3>4 DEF TypeOK, Buffer, GroupOf
      <4> HIDE DEF m
      <4>4. CASE t = "9901"
        <5>1. /\ hons'[r]["n"] = <<"n", Origin("n", iter[r], North(r))>>
              /\ hons'[r]["2n"] = hons[r]["2n"]
          BY <4>1, <4>2, <4>3, <4>4 DEF SegmentOf, Segment
        <5> QED BY <1>0, <1>1, <3>1, <3>3, <4>1, <4>3, <4>4, <5>1 DEF BuffersOf
      <4>5. CASE t = "9902"
        <5>1. /\ hons'[r]["2n"] = <<"2n", Origin("2n", iter[r], South(r))>>
              /\ hons'[r]["n"] = hons[r]["n"]
          BY <4>1, <4>2, <4>3, <4>5 DEF SegmentOf, Segment
        <5> QED BY <1>0, <1>1, <3>1, <3>3, <4>1, <4>3, <4>5, <5>1 DEF BuffersOf
      <4> QED BY <3>4, <4>4, <4>5 DEF NorthSouth
    <3>5. CASE ~NorthSouth(t)
      <4>1. hons' = hons /\ hoew'[r] = [hoew[r] EXCEPT ![SegmentOf(t)] = m]
        BY <3>2, <3>5 DEF TypeOK
      <4>2. /\ t = "9903" => m = <<"n", Origin("n", iter[r] + 1, r)>>
            /\ t = "9904" => m = <<"2n", Origin("2n", iter[r] + 1, r)>>
        <5>1. /\ t = "9903" => m = <<"n", Origin("n", iter[r], North(East(r)))>>
              /\ t = "9904" => m = <<"2n", Origin("2n", iter[r], South(West(r)))>>
          BY DEF Message, Payload, Source, SegmentOf
        <5> QED BY <2>0, <5>1, OriginStep
      <4>3. hoew[r] \in [Segment -> Word] /\ Done(r) = 3
        BY <3>1, <3>2, <3>5 DEF TypeOK, Buffer, GroupOf
      <4> HIDE DEF m
      <4>4. CASE t = "9903"
        <5>1. /\ hoew'[r]["n"] = <<"n", Origin("n", iter[r] + 1, r)>>
              /\ hoew'[r]["2n"] = hoew[r]["2n"]
          BY <4>1, <4>2, <4>3, <4>4 DEF SegmentOf, Segment
        <5> QED BY <1>0, <1>1, <3>1, <3>3, <4>1, <4>3, <4>4, <5>1 DEF BuffersOf
      <4>5. CASE t = "9904"
        <5>1. /\ hoew'[r]["2n"] = <<"2n", Origin("2n", iter[r] + 1, r)>>
              /\ hoew'[r]["n"] = hoew[r]["n"]
          BY <4>1, <4>2, <4>3, <4>5 DEF SegmentOf, Segment
        <5> QED BY <1>0, <1>1, <3>1, <3>3, <4>1, <4>3, <4>5, <5>1 DEF BuffersOf
      <4> QED BY <3>5, <4>4, <4>5 DEF NorthSouth, Tag
    <3> QED BY <3>4, <3>5
  <2> QED BY <2>1, <2>2, <2>3, <2>4, <2>5, <2>6 DEF Step, Host, Device
<1> QED BY <1>2, <1>3

-----------------------------------------------------------------------------
(***************************************************************************)
(* Type correctness, and the invariant.                                    *)
(***************************************************************************)

LEMMA StepType ==
  ASSUME IInv, NEW r \in Rank, Step(r)
  PROVE  TypeOK'
<1> DEFINE Control == /\ setting' \in Settings
                      /\ iter' \in [Rank -> 0 .. Iterations]
                      /\ (at \in [Rank -> 1 .. Len(Program)])'
                      /\ stream' \in [Rank -> Seq(Copies \cup Groups)]
                      /\ running' \in [Rank -> BOOLEAN]
                      /\ pending' \in [Rank -> SUBSET (1 .. 4)]
<1> SUFFICES Control /\ wire' \in [Rank -> [Rank -> Seq(Word)]]
             /\ hins' \in [Rank -> Buffer] /\ hons' \in [Rank -> Buffer]
             /\ hiew' \in [Rank -> Buffer] /\ hoew' \in [Rank -> Buffer]
  BY DEF TypeOK
<1>1. /\ setting \in Settings
      /\ iter \in [Rank -> 0 .. Iterations]
      /\ at \in [Rank -> 1 .. Len(Program)]
      /\ stream \in [Rank -> Seq(Copies \cup Groups)]
      /\ running \in [Rank -> BOOLEAN]
      /\ pending \in [Rank -> SUBSET (1 .. 4)]
      /\ wire \in [Rank -> [Rank -> Seq(Word)]]
      /\ hins \in [Rank -> Buffer] /\ hons \in [Rank -> Buffer]
      /\ hiew \in [Rank -> Buffer] /\ hoew \in [Rank -> Buffer]
  BY DEF IInv, TypeOK
<1>2. setting' = setting /\ Program' = Program
  <2>1. setting' = setting
    BY DEF Step, Host, Device, Enqueue, Synchronize, Copy, Launch, Transmit,
           Deliver, Complete
  <2> QED BY <2>1 DEF setting, Program
<1>3. CASE Enqueue(r)
  <2>1. /\ at'[r] \in 1 .. Len(Program) /\ stream'[r] \in Seq(Copies \cup Groups)
    BY <1>3, EnqueueStep DEF IInv
  <2>2. /\ at' \in [Rank -> 1 .. Len(Program)]
        /\ stream' \in [Rank -> Seq(Copies \cup Groups)]
    <3>1. /\ at' = [at EXCEPT ![r] = at'[r]]
          /\ stream' = [stream EXCEPT ![r] = stream'[r]]
      BY <1>1, <1>3 DEF Enqueue
    <3> QED BY <1>1, <2>1, <3>1
  <2> QED BY <1>1, <1>2, <1>3, <2>2 DEF Enqueue
<1>4. CASE Synchronize(r)
  <2>1. at'[r] \in 1 .. Len(Program) /\ iter'[r] \in 0 .. Iterations
    BY <1>4, SynchronizeStep DEF IInv
  <2>2. at' \in [Rank -> 1 .. Len(Program)] /\ iter' \in [Rank -> 0 .. Iterations]
    <3>1. at' = [at EXCEPT ![r] = at'[r]] /\ iter' = [iter EXCEPT ![r] = iter'[r]]
      BY <1>1, <1>4 DEF Synchronize
    <3> QED BY <1>1, <2>1, <3>1
  <2> QED BY <1>1, <1>2, <1>4, <2>2 DEF Synchronize
<1>5. CASE Copy(r)
  <2>1. stream'[r] \in Seq(Copies \cup Groups)
    BY <1>5, PopStep DEF IInv
  <2>2. stream' \in [Rank -> Seq(Copies \cup Groups)]
    <3>1. stream' = [stream EXCEPT ![r] = stream'[r]]
      BY <1>1, <1>5 DEF Copy
    <3> QED BY <1>1, <2>1, <3>1
  <2>3. hins' \in [Rank -> Buffer] /\ hiew' \in [Rank -> Buffer]
    BY <1>1, <1>5 DEF Copy
  <2> QED BY <1>1, <1>2, <1>5, <2>2, <2>3 DEF Copy
<1>6. CASE Launch(r)
  <2>1. DOMAIN Calls(Head(stream[r]), r) = 1 .. 4
    BY DEF Calls
  <2> QED BY <1>1, <1>2, <1>6, <2>1 DEF Launch
<1>7. ASSUME NEW i \in 1 .. 4, Transmit(r, i)
      PROVE  /\ Control /\ wire' \in [Rank -> [Rank -> Seq(Word)]]
             /\ hins' \in [Rank -> Buffer] /\ hons' \in [Rank -> Buffer]
             /\ hiew' \in [Rank -> Buffer] /\ hoew' \in [Rank -> Buffer]
  <2>0. PICK t \in Tag : t = TagOf(r, i)
    BY <1>7, TransmitStep DEF IInv
  <2>1. wire' = [wire EXCEPT ![r][Dest(t, r)] = Append(@, Message(t, iter[r], r))]
    BY <1>7, <2>0, TransmitStep, SentData DEF IInv
  <2>2. Message(t, iter[r], r) \in Word /\ Dest(t, r) \in Rank
    <3>1. iter[r] \in Nat
      BY <1>1, IterationsAssumption
    <3> QED BY <3>1, MessageType, DestSource
  <2>3. wire' \in [Rank -> [Rank -> Seq(Word)]]
    BY <1>1, <2>1, <2>2
  <2>4. pending' \in [Rank -> SUBSET (1 .. 4)]
    BY <1>1, <1>7 DEF Transmit
  <2> QED BY <1>1, <1>2, <1>7, <2>3, <2>4 DEF Transmit
<1>8. ASSUME NEW i \in 1 .. 4, Deliver(r, i)
      PROVE  /\ Control /\ wire' \in [Rank -> [Rank -> Seq(Word)]]
             /\ hins' \in [Rank -> Buffer] /\ hons' \in [Rank -> Buffer]
             /\ hiew' \in [Rank -> Buffer] /\ hoew' \in [Rank -> Buffer]
  <2>0. PICK t \in Tag : t = TagOf(r, i)
    BY <1>8, DeliverStep DEF IInv
  <2> DEFINE m == Message(t, iter[r], Source(t, r))
             w == wire[Source(t, r)][r]
  <2>1. /\ wire' = [wire EXCEPT ![Source(t, r)][r] = Tail(@)] /\ w # <<>>
        /\ IF NorthSouth(t)
           THEN hons' = [hons EXCEPT ![r][SegmentOf(t)] = m] /\ hoew' = hoew
           ELSE hoew' = [hoew EXCEPT ![r][SegmentOf(t)] = m] /\ hons' = hons
    BY <1>8, <2>0, DeliverStep, ReceivedData DEF IInv
  <2>2. Source(t, r) \in Rank /\ SegmentOf(t) \in Segment
    BY DestSource DEF SegmentOf, Segment
  <2>3. m \in Word
    <3>1. iter[r] \in Nat
      BY <1>1, IterationsAssumption
    <3> QED BY <2>2, <3>1, MessageType
  <2>4. Tail(w) \in Seq(Word)
    <3>1. w \in Seq(Word)
      BY <1>1, <2>2
    <3> HIDE DEF w
    <3> QED BY <2>1, <3>1
  <2>5. wire' \in [Rank -> [Rank -> Seq(Word)]]
    BY <1>1, <2>1, <2>2, <2>4
  <2> HIDE DEF m
  <2>6. hons' \in [Rank -> Buffer] /\ hoew' \in [Rank -> Buffer]
    <3>1. CASE NorthSouth(t)
      <4>1. hons' = [hons EXCEPT ![r][SegmentOf(t)] = m] /\ hoew' = hoew
        BY <2>1, <3>1
      <4> QED BY <1>1, <2>2, <2>3, <4>1 DEF Buffer
    <3>2. CASE ~NorthSouth(t)
      <4>1. hoew' = [hoew EXCEPT ![r][SegmentOf(t)] = m] /\ hons' = hons
        BY <2>1, <3>2
      <4> QED BY <1>1, <2>2, <2>3, <4>1 DEF Buffer
    <3> QED BY <3>1, <3>2
  <2>7. pending' \in [Rank -> SUBSET (1 .. 4)]
    BY <1>1, <1>8 DEF Deliver
  <2> QED BY <1>1, <1>2, <1>8, <2>5, <2>6, <2>7 DEF Deliver
<1>9. CASE Complete(r)
  <2>1. stream'[r] \in Seq(Copies \cup Groups)
    BY <1>9, PopStep DEF IInv
  <2>2. stream' \in [Rank -> Seq(Copies \cup Groups)]
    <3>1. stream' = [stream EXCEPT ![r] = stream'[r]]
      BY <1>1, <1>9 DEF Complete
    <3> QED BY <1>1, <2>1, <3>1
  <2> QED BY <1>1, <1>2, <1>9, <2>2 DEF Complete
<1> QED BY <1>3, <1>4, <1>5, <1>6, <1>7, <1>8, <1>9 DEF Step, Host, Device

LEMMA InitIInv == Init => IInv
<1> SUFFICES ASSUME Init
             PROVE  IInv
  OBVIOUS
<1>0. /\ setting \in Settings
      /\ \A r \in Rank :
           /\ iter[r] = 0 /\ at[r] = 1 /\ stream[r] = <<>> /\ ~running[r]
           /\ pending[r] = {} /\ \A p \in Rank : wire[p][r] = <<>>
  <2>1. PICK s \in Settings : syncMode = s[1] /\ buffered = s[2]
    BY DEF Init
  <2>2. s = <<s[1], s[2]>>
    BY SettingsAssumption
  <2>3. setting \in Settings
    BY <2>1, <2>2 DEF setting
  <2> QED BY <2>3 DEF Init
<1>1. TypeOK
  <2>1. 1 \in 1 .. Len(Program) /\ 0 \in 0 .. Iterations
    BY IterationsAssumption DEF Program
  <2>2. \A s \in Segment, r \in Rank : <<s, r>> \in Word /\ Zero \in Word
    BY DEF Word
  <2>3. /\ hins \in [Rank -> Buffer] /\ hons \in [Rank -> Buffer]
        /\ hiew \in [Rank -> Buffer] /\ hoew \in [Rank -> Buffer]
    BY <2>2 DEF Init, Buffer
  <2>4. /\ iter \in [Rank -> 0 .. Iterations]
        /\ at \in [Rank -> 1 .. Len(Program)]
        /\ stream \in [Rank -> Seq(Copies \cup Groups)]
        /\ running \in [Rank -> BOOLEAN]
        /\ pending \in [Rank -> SUBSET (1 .. 4)]
    BY <2>1 DEF Init
  <2>5. wire \in [Rank -> [Rank -> Seq(Word)]]
    BY DEF Init
  <2> QED BY <1>0, <2>3, <2>4, <2>5 DEF TypeOK
<1>2. \A r \in Rank : Done(r) = 0
  <2> SUFFICES ASSUME NEW r \in Rank
               PROVE  Done(r) = 0
    OBVIOUS
  <2>1. at[r] = 1 /\ stream[r] = <<>>
    BY <1>0
  <2>2. Len(stream[r]) = 0 /\ EnqueuedAt(at[r]) = 0
    BY <2>1 DEF EnqueuedAt
  <2> QED BY <2>2 DEF Done
<1>3. ControlInv /\ OrderInv
  BY <1>0, <1>2 DEF ControlInv, OrderInv
<1>4. \A r \in Rank, t \in Tag : Posted(r, t) = 0 /\ Received(r, t) = 0
  BY <1>0, <1>2, CallNumbers DEF Posted, Received, Progressed
<1>5. WireInv
  <2> SUFFICES ASSUME NEW p \in Rank, NEW r \in Rank
               PROVE  Holds(<<>>, PostedBy(p), ReceivedBy(r), Between(p, r), p)
    BY <1>0 DEF WireInv
  <2>1. \A t \in Tag : PostedBy(p)[t] = 0 /\ ReceivedBy(r)[t] = 0
    BY <1>4 DEF PostedBy, ReceivedBy
  <2>2. InFlight(PostedBy(p), ReceivedBy(r), Between(p, r)) = 0
    <3>1. \A t \in Tag :
            Unreceived(ReceivedBy(r), Between(p, r), t, PostedBy(p)[t]) = 0
      BY <2>1 DEF Unreceived
    <3> QED BY <3>1 DEF InFlight, Tag
  <2>3. Len(<<>>) = 0
    OBVIOUS
  <2> QED BY <2>1, <2>2, <2>3 DEF Holds, Between
<1>6. HeldBackInv
  BY <1>4, DestSource DEF HeldBackInv
<1>7. BufferInv
  <2> SUFFICES ASSUME NEW r \in Rank
               PROVE  BuffersOf(r)
    BY DEF BufferInv
  <2>1. \A s \in Segment : hoew[r][s] = <<s, Origin(s, iter[r], r)>>
    BY <1>0, OriginZero DEF Init
  <2> QED BY <1>0, <1>2, <1>4, <2>1 DEF BuffersOf, Tag
<1> QED BY <1>1, <1>3, <1>5, <1>6, <1>7 DEF IInv

LEMMA NextIInv == IInv /\ [Next]_vars => IInv'
<1> SUFFICES ASSUME IInv, [Next]_vars
             PROVE  IInv'
  OBVIOUS
<1>1. ASSUME NEW r \in Rank, Step(r)
      PROVE  IInv'
  BY <1>1, StepType, StepControl, StepOrder, StepWire, StepHeldBack, StepBuffer
     DEF IInv
<1>2. CASE UNCHANGED vars
  <2>1. /\ TypeOK' /\ \A r \in Rank : Done(r)' = Done(r)
    BY <1>2 DEF vars, setting, IInv, TypeOK, Program, Done, EnqueuedAt
  <2>2. \A r \in Rank, t \in Tag : /\ Posted(r, t)' = Posted(r, t)
                                   /\ Received(r, t)' = Received(r, t)
    BY <1>2, <2>1 DEF vars, Posted, Received, Progressed
  <2>3. ControlInv' /\ OrderInv'
    BY <1>2, <2>1 DEF vars, IInv, ControlInv, OrderInv
  <2>4. WireInv'
    <3>1. \A r \in Rank : PostedBy(r)' = PostedBy(r) /\ ReceivedBy(r)' = ReceivedBy(r)
      BY <2>2 DEF PostedBy, ReceivedBy
    <3> QED BY <1>2, <3>1 DEF vars, IInv, WireInv, Holds, Between
  <2>5. HeldBackInv'
    BY <1>2, <2>1, <2>2, DestSource DEF vars, setting, IInv, HeldBackInv
  <2>6. BufferInv'
    BY <1>2, <2>1, <2>2 DEF vars, IInv, BufferInv, BuffersOf, Tag
  <2> QED BY <2>1, <2>3, <2>4, <2>5, <2>6 DEF IInv
<1> QED BY <1>1, <1>2 DEF Next, Terminating, Step

LEMMA Invariant == Spec => []IInv
BY InitIInv, NextIInv, PTL DEF Spec

\* Every variable has its type in every reachable state; in particular what is
\* on a wire has been filled by a rank.
THEOREM TypeCorrect == Spec => []TypeOK
<1>1. IInv => TypeOK
  BY DEF IInv
<1> QED BY Invariant, <1>1, PTL

\* Between exchanges each rank holds the data that the exchanges promise, in
\* both modes, on every grid: the issue order pairs every receive with the
\* send meant for it.
THEOREM HaloIsTransported == Spec => []HaloTransported
<1>1. IInv => HaloTransported
  <2> SUFFICES ASSUME IInv, NEW r \in Rank, Idle(r), NEW s \in Segment
               PROVE  hoew[r][s] = <<s, Origin(s, iter[r], r)>>
    BY DEF HaloTransported
  <2>1. Done(r) = 0
    BY Position DEF IInv, Idle
  <2> QED BY <2>1 DEF IInv, BufferInv, BuffersOf
<1> QED BY Invariant, <1>1, PTL

-----------------------------------------------------------------------------
(***************************************************************************)
(* How far a rank can be ahead of a peer.                                  *)
(***************************************************************************)

\* What has been received has been sent.
LEMMA ReceivedWasPosted ==
  ASSUME IInv, NEW p \in Rank, NEW t \in Tag
  PROVE  Received(Dest(t, p), t) <= Posted(p, t)
<1>1. Dest(t, p) \in Rank /\ t \in Between(p, Dest(t, p))
  BY DestSource DEF Between
<1>2. ReceivedBy(Dest(t, p))[t] <= PostedBy(p)[t]
  BY <1>1 DEF IInv, WireInv, Holds
<1> QED BY <1>2 DEF PostedBy, ReceivedBy

\* A rank sends east and west only after it has received from the north and
\* the south.
LEMMA StagesInOrder ==
  ASSUME IInv, NEW r \in Rank, NEW t \in Tag, NEW u \in Tag,
         GroupOf(u) = 2, GroupOf(t) = 4
  PROVE  Posted(r, t) <= Received(r, u)
<1>1. iter[r] \in Nat /\ Done(r) \in 0 .. 4
  BY Position DEF IInv
<1> QED BY <1>1 DEF Posted, Received, Progressed

\* A rank that has sent twice more than its peer has received would have
\* completed a group without the peer's answer.  Two ranks that are
\* neighbours both ways answer each other twice in an exchange.
LEMMA Ahead ==
  ASSUME IInv, NEW p \in Rank, NEW t \in Tag
  PROVE  /\ Posted(p, t) <= Received(Dest(t, p), t) + 2
         /\ (\E v \in Tag : GroupOf(v) # GroupOf(t) /\ Dest(v, p) = Dest(t, p))
              => Posted(p, t) <= Received(Dest(t, p), t) + 1
<1> DEFINE d == Dest(t, p)
<1>1. d \in Rank
  BY DestSource
<1>2. ASSUME NEW q \in Rank, NEW u \in Tag
      PROVE  /\ iter[q] \in Nat
             /\ Posted(q, u) \in {iter[q], iter[q] + 1}
             /\ Received(q, u) \in {iter[q], iter[q] + 1}
  BY CountersTyped, Position DEF IInv
<1>3. ASSUME NEW v \in Tag, Dest(v, p) = d
      PROVE  /\ Answer(v) \in Tag /\ GroupOf(Answer(v)) = GroupOf(v)
             /\ Received(p, Answer(v)) <= Posted(d, Answer(v))
  <2>1. Answer(v) \in Tag /\ Dest(Answer(v), d) = p
    BY <1>3, AnswerReturns
  <2>2. GroupOf(Answer(v)) = GroupOf(v)
    BY DEF Answer, GroupOf, NorthSouth, Tag
  <2>3. Received(Dest(Answer(v), d), Answer(v)) <= Posted(d, Answer(v))
    BY <1>1, <2>1, ReceivedWasPosted
  <2> QED BY <2>1, <2>2, <2>3
<1>4. Posted(p, t) <= Received(d, t) + 2
  <2> DEFINE a == Answer(t)
  <2>1. a \in Tag /\ Received(p, a) <= Posted(d, a)
    BY <1>3
  <2> HIDE DEF a, d
  <2>2. /\ iter[p] \in Nat /\ iter[d] \in Nat
        /\ Received(p, a) \in {iter[p], iter[p] + 1}
        /\ Posted(d, a) \in {iter[d], iter[d] + 1}
        /\ Posted(p, t) \in {iter[p], iter[p] + 1}
        /\ Received(d, t) \in {iter[d], iter[d] + 1}
    BY <1>1, <1>2, <2>1
  <2> QED BY <2>1, <2>2
<1>5. ASSUME NEW v \in Tag, GroupOf(v) # GroupOf(t), Dest(v, p) = d
      PROVE  Posted(p, t) <= Received(d, t) + 1
  <2> DEFINE a == Answer(v)
  <2>1. a \in Tag /\ GroupOf(a) = GroupOf(v) /\ Received(p, a) <= Posted(d, a)
    BY <1>3, <1>5
  <2> HIDE DEF a, d
  <2>2. /\ iter[p] \in Nat /\ iter[d] \in Nat
        /\ Received(p, a) \in {iter[p], iter[p] + 1}
        /\ Posted(d, a) \in {iter[d], iter[d] + 1}
        /\ Posted(p, t) \in {iter[p], iter[p] + 1}
        /\ Received(d, t) \in {iter[d], iter[d] + 1}
    BY <1>1, <1>2, <2>1
  <2>3. \/ GroupOf(t) = 2 /\ GroupOf(a) = 4
        \/ GroupOf(t) = 4 /\ GroupOf(a) = 2
    BY <1>5, <2>1 DEF GroupOf
  <2>4. CASE GroupOf(t) = 2 /\ GroupOf(a) = 4
    <3>1. Posted(d, a) <= Received(d, t)
      BY <1>1, <2>1, <2>4, StagesInOrder
    <3> QED BY <2>1, <2>2, <3>1
  <2>5. CASE GroupOf(t) = 4 /\ GroupOf(a) = 2
    <3>1. Posted(p, t) <= Received(p, a)
      BY <2>1, <2>5, StagesInOrder
    <3> QED BY <2>1, <2>2, <3>1
  <2> QED BY <2>3, <2>4, <2>5
<1> QED BY <1>4, <1>5 DEF d

\* Without buffering it is ahead by the group it is in.
LEMMA AheadHeldBack ==
  ASSUME IInv, ~buffered, NEW p \in Rank, NEW t \in Tag
  PROVE  /\ Posted(p, t) <= Received(Dest(t, p), t) + 1
         /\ GroupOf(t) # Done(p) + 1 => Posted(p, t) = Received(Dest(t, p), t)
<1>1. /\ Done(p) \in 0 .. 4 /\ GroupOf(t) \in {2, 4}
      /\ Posted(p, t) \in Nat /\ Received(Dest(t, p), t) \in Nat
  BY Position, CallNumbers, CountersTyped, DestSource DEF IInv
<1>2. \/ Posted(p, t) = Received(Dest(t, p), t)
      \/ /\ Posted(p, t) = Received(Dest(t, p), t) + 1
         /\ Done(p) = GroupOf(t) - 1
  BY DEF IInv, HeldBackInv
<1> QED BY <1>1, <1>2

\* The segments of a stage that go to q, and how many they are.
Going(q, back, fore) == {s \in Segment : q = IF s = "n" THEN back ELSE fore}

LEMMA SegmentCount ==
  ASSUME NEW q, NEW back, NEW fore
  PROVE  Cardinality(Going(q, back, fore))
           = (IF q = back THEN 1 ELSE 0) + (IF q = fore THEN 1 ELSE 0)
<1> DEFINE ss == Going(q, back, fore)
<1>1. /\ IsFiniteSet({}) /\ Cardinality({}) = 0
      /\ IsFiniteSet({"n"}) /\ Cardinality({"n"}) = 1
      /\ Cardinality({"2n"}) = 1
  BY FS_EmptySet, FS_Singleton
<1>2. Cardinality({"n"} \cup {"2n"}) = 2
  <2>1. "2n" \notin {"n"}
    OBVIOUS
  <2> QED BY <1>1, <2>1, FS_AddElement
<1>3. CASE q = back /\ q = fore
  <2>1. ss = {"n"} \cup {"2n"}
    BY <1>3 DEF Segment, Going
  <2> QED BY <1>2, <1>3, <2>1
<1>4. CASE q = back /\ q # fore
  <2>1. ss = {"n"}
    BY <1>4 DEF Segment, Going
  <2> QED BY <1>1, <1>4, <2>1
<1>5. CASE q # back /\ q = fore
  <2>1. ss = {"2n"}
    BY <1>5 DEF Segment, Going
  <2> QED BY <1>1, <1>5, <2>1
<1>6. CASE q # back /\ q # fore
  <2>1. ss = {}
    BY <1>6 DEF Segment, Going
  <2> QED BY <1>1, <1>6, <2>1
<1> QED BY <1>3, <1>4, <1>5, <1>6

\* Whether transfer t goes from p to q.
Goes(t, p, q) == IF t \in Between(p, q) THEN 1 ELSE 0

LEMMA SegmentsOfStage ==
  ASSUME NEW p \in Rank, NEW q \in Rank
  PROVE  /\ SegmentsTo(p, q) \in Nat
         /\ Goes("9901", p, q) + Goes("9902", p, q) <= SegmentsTo(p, q)
         /\ Goes("9903", p, q) + Goes("9904", p, q) <= SegmentsTo(p, q)
<1> DEFINE a == Goes("9901", p, q) + Goes("9902", p, q)
           b == Goes("9903", p, q) + Goes("9904", p, q)
<1>1. /\ a = (IF q = South(p) THEN 1 ELSE 0) + (IF q = North(p) THEN 1 ELSE 0)
      /\ b = (IF q = West(p) THEN 1 ELSE 0) + (IF q = East(p) THEN 1 ELSE 0)
  BY DEF Goes, Between, Dest, Tag
<1>2. a \in Nat /\ b \in Nat
  BY DEF Goes
<1> HIDE DEF a, b
<1>3. SegmentsTo(p, q) = Max({a, b})
  <2>1. SegmentsTo(p, q) = Max({Cardinality(Going(q, South(p), North(p))),
                                Cardinality(Going(q, West(p), East(p)))})
    BY Zenon DEF SegmentsTo, Going
  <2>2. /\ Cardinality(Going(q, South(p), North(p))) = a
        /\ Cardinality(Going(q, West(p), East(p))) = b
    BY <1>1, SegmentCount
  <2> QED BY <2>1, <2>2
<1>4. Max({a, b}) \in {a, b} /\ Max({a, b}) >= a /\ Max({a, b}) >= b
  <2>1. \E x \in {a, b} : \A y \in {a, b} : x >= y
    BY <1>2
  <2> QED BY <2>1 DEF Max
<1> QED BY <1>2, <1>3, <1>4 DEF a, b

\* Whatever RCCL does with a send, the messages between two ranks are those
\* of at most two groups, and of one when a send waits to be received.
THEOREM AheadByOneGroup == Spec => []WireBounded
<1>1. IInv => WireBounded
  <2> SUFFICES ASSUME IInv, NEW p \in Rank, NEW q \in Rank
               PROVE  Len(wire[p][q]) <= (IF buffered THEN 2 ELSE 1) * SegmentsTo(p, q)
    BY DEF WireBounded
  <2> DEFINE U(t) == Unreceived(ReceivedBy(q), Between(p, q), t, PostedBy(p)[t])
  <2>1. Len(wire[p][q]) = U("9901") + U("9902") + U("9903") + U("9904")
    BY DEF IInv, WireInv, Holds, InFlight
  <2>2. ASSUME NEW t \in Tag
        PROVE  /\ U(t) \in Nat /\ Goes(t, p, q) \in {0, 1}
               /\ U(t) <= 2 * Goes(t, p, q)
               /\ (\E v \in Between(p, q) : GroupOf(v) # GroupOf(t))
                    => U(t) <= Goes(t, p, q)
               /\ ~buffered => U(t) <= Goes(t, p, q)
               /\ ~buffered /\ GroupOf(t) # Done(p) + 1 => U(t) = 0
    <3>1. CASE t \in Between(p, q)
      <4>1. Dest(t, p) = q /\ Goes(t, p, q) = 1
        BY <3>1 DEF Between, Goes
      <4>2. U(t) = Posted(p, t) - Received(q, t)
        BY <3>1 DEF Unreceived, PostedBy, ReceivedBy, Between
      <4>3. /\ Posted(p, t) \in Nat /\ Received(q, t) \in Nat
            /\ Received(q, t) <= Posted(p, t)
        BY <4>1, CountersTyped, ReceivedWasPosted DEF IInv
      <4>4. /\ Posted(p, t) <= Received(q, t) + 2
            /\ (\E v \in Between(p, q) : GroupOf(v) # GroupOf(t))
                 => Posted(p, t) <= Received(q, t) + 1
        BY <4>1, Ahead DEF Between
      <4>5. ~buffered => /\ Posted(p, t) <= Received(q, t) + 1
                         /\ GroupOf(t) # Done(p) + 1 => Posted(p, t) = Received(q, t)
        BY <4>1, AheadHeldBack
      <4> HIDE DEF U
      <4> QED BY <4>1, <4>2, <4>3, <4>4, <4>5
    <3>2. CASE t \notin Between(p, q)
      BY <3>2 DEF Goes, Unreceived
    <3> QED BY <3>1, <3>2
  <2> HIDE DEF U
  <2>3. /\ SegmentsTo(p, q) \in Nat
        /\ Goes("9901", p, q) + Goes("9902", p, q) <= SegmentsTo(p, q)
        /\ Goes("9903", p, q) + Goes("9904", p, q) <= SegmentsTo(p, q)
    BY SegmentsOfStage
  <2>4. /\ "9901" \in Tag /\ "9902" \in Tag /\ "9903" \in Tag /\ "9904" \in Tag
        /\ GroupOf("9901") = 2 /\ GroupOf("9902") = 2
        /\ GroupOf("9903") = 4 /\ GroupOf("9904") = 4
    BY DEF Tag, GroupOf, NorthSouth
  <2>5. CASE ~buffered
    <3>1. \/ U("9901") = 0 /\ U("9902") = 0
          \/ U("9903") = 0 /\ U("9904") = 0
      <4>1. Done(p) \in 0 .. 4
        BY Position DEF IInv
      <4> QED BY <2>2, <2>4, <2>5, <4>1
    <3>2. /\ U("9901") \in Nat /\ U("9901") <= Goes("9901", p, q)
          /\ U("9902") \in Nat /\ U("9902") <= Goes("9902", p, q)
          /\ U("9903") \in Nat /\ U("9903") <= Goes("9903", p, q)
          /\ U("9904") \in Nat /\ U("9904") <= Goes("9904", p, q)
          /\ Goes("9901", p, q) \in Nat /\ Goes("9902", p, q) \in Nat
          /\ Goes("9903", p, q) \in Nat /\ Goes("9904", p, q) \in Nat
      BY <2>2, <2>4, <2>5
    <3>3. U("9901") + U("9902") + U("9903") + U("9904") <= SegmentsTo(p, q)
      BY <2>3, <3>1, <3>2
    <3> QED BY <2>1, <2>3, <2>5, <3>3
  <2>6. CASE buffered
    <3>1. /\ U("9901") \in Nat /\ U("9901") <= 2 * Goes("9901", p, q)
          /\ U("9902") \in Nat /\ U("9902") <= 2 * Goes("9902", p, q)
          /\ U("9903") \in Nat /\ U("9903") <= 2 * Goes("9903", p, q)
          /\ U("9904") \in Nat /\ U("9904") <= 2 * Goes("9904", p, q)
          /\ Goes("9901", p, q) \in Nat /\ Goes("9902", p, q) \in Nat
          /\ Goes("9903", p, q) \in Nat /\ Goes("9904", p, q) \in Nat
      BY <2>2, <2>4
    <3>2. \/ Goes("9901", p, q) = 0 /\ Goes("9902", p, q) = 0
          \/ Goes("9903", p, q) = 0 /\ Goes("9904", p, q) = 0
          \/ /\ U("9901") <= Goes("9901", p, q) /\ U("9902") <= Goes("9902", p, q)
             /\ U("9903") <= Goes("9903", p, q) /\ U("9904") <= Goes("9904", p, q)
      <4>1. CASE /\ \E v \in Between(p, q) : GroupOf(v) = 2
                 /\ \E v \in Between(p, q) : GroupOf(v) = 4
        BY <2>2, <2>4, <4>1
      <4>2. CASE ~\E v \in Between(p, q) : GroupOf(v) = 2
        BY <2>4, <4>2 DEF Goes
      <4>3. CASE ~\E v \in Between(p, q) : GroupOf(v) = 4
        BY <2>4, <4>3 DEF Goes
      <4> QED BY <4>1, <4>2, <4>3
    <3>3. U("9901") + U("9902") + U("9903") + U("9904") <= 2 * SegmentsTo(p, q)
      BY <2>3, <3>1, <3>2
    <3> QED BY <2>1, <2>3, <2>6, <3>3
  <2> QED BY <2>5, <2>6
<1> QED BY Invariant, <1>1, PTL

-----------------------------------------------------------------------------
(***************************************************************************)
(* The promise of Backend::exchange.                                       *)
(***************************************************************************)

\* What the contract sees of the backend.
Entered == [r \in Rank |-> IF Idle(r) THEN iter[r] ELSE iter[r] + 1]

Halo == [r \in Rank |->
           [s \in Segment |->
              IF Idle(r) \/ Contains(stream[r], "copy_in")
              THEN hoew[r][s][2] ELSE hins[r][s][2]]]

\* The buffer with the halo that rank r sends next: hoew until the device has
\* copied it, hins from then on.
Sending(r) == IF Done(r) = 0 THEN hoew[r] ELSE hins[r]

LEMMA HaloIsSending ==
  IInv => Halo = [r \in Rank |-> [s \in Segment |-> Sending(r)[s][2]]]
<1> SUFFICES ASSUME IInv, NEW r \in Rank
             PROVE  Idle(r) \/ Contains(stream[r], "copy_in") <=> Done(r) = 0
  BY DEF Halo, Sending
<1>1. /\ at[r] \in 1 .. Len(Program) /\ stream[r] \in Seq(Copies \cup Groups)
      /\ Done(r) \in 0 .. 4 /\ (at[r] = 1 => Done(r) = 0)
  BY Position DEF IInv
<1>2. \A k \in 1 .. Len(stream[r]) : stream[r][k] = Operations[Done(r) + k]
  BY DEF IInv, ControlInv
<1>3. EnqueuedAt(at[r]) \in 0 .. 4 /\ (at[r] # 1 => EnqueuedAt(at[r]) >= 1)
  BY <1>1, ProgramOrder DEF EnqueuedAt
<1>4. ASSUME Contains(stream[r], "copy_in")
      PROVE  Done(r) = 0
  <2>1. PICK k \in 1 .. Len(stream[r]) : stream[r][k] = "copy_in"
    BY <1>4 DEF Contains
  <2>2. Operations[Done(r) + k] = "copy_in" /\ Done(r) + k \in {1, 2, 3, 4}
    BY <1>1, <1>2, <1>3, <2>1, SMTT(30) DEF Done
  <2>3. Done(r) + k = 1
    BY <2>2 DEF Operations
  <2> QED BY <1>1, <2>1, <2>3
<1>5. ASSUME Done(r) = 0, at[r] # 1
      PROVE  Contains(stream[r], "copy_in")
  <2>1. 1 \in 1 .. Len(stream[r])
    BY <1>1, <1>3, <1>5 DEF Done
  <2>2. stream[r][1] = "copy_in"
    BY <1>2, <1>5, <2>1 DEF Operations
  <2> QED BY <2>1, <2>2 DEF Contains
<1> QED BY <1>1, <1>4, <1>5 DEF Idle

LEMMA HaloIsSendingAfter ==
  (IInv => Halo = [r \in Rank |-> [s \in Segment |-> Sending(r)[s][2]]])'
BY HaloIsSending, PTL

\* The grid of the contract is the grid of the backend.
LEMMA SameGrid ==
  /\ Contract!Rank = Rank /\ Contract!Segment = Segment
  /\ \A r : Contract!Around(r) = Around(r)
  /\ \A s, i, r : Contract!Origin(s, i, r) = Origin(s, i, r)
BY DEF Contract!Rank, Contract!Segment, Contract!Around, Contract!Origin,
       Contract!North, Contract!South, Contract!East, Contract!West,
       Rank, Segment, Around, Origin, North, South, East, West

\* When the device of a rank has completed an exchange, every rank around it
\* has entered that exchange: the four neighbours directly, the diagonal ones
\* because the neighbours could not have sent east or west without them.
LEMMA AroundEntered ==
  ASSUME IInv, NEW r \in Rank, Done(r) = 4
  PROVE  \A q \in Around(r) : Entered[q] >= iter[r] + 1
<1>1. ASSUME NEW q \in Rank, NEW t \in Tag
      PROVE  /\ iter[q] \in Nat /\ Entered[q] \in Nat
             /\ Posted(q, t) \in Nat /\ Received(q, t) \in Nat
             /\ Posted(q, t) <= Entered[q]
  <2>1. iter[q] \in Nat /\ Done(q) \in 0 .. 4 /\ (at[q] = 1 => Done(q) = 0)
    BY Position DEF IInv
  <2>2. running[q] => Done(q) \in {1, 3}
    BY DEF IInv, ControlInv
  <2>3. GroupOf(t) \in {2, 4}
    BY DEF GroupOf
  <2> QED BY <2>1, <2>2, <2>3
          DEF Posted, Received, Progressed, Entered, Idle
<1>2. \A t \in Tag : Received(r, t) = iter[r] + 1
  BY DEF Received, Progressed, GroupOf
<1>3. ASSUME NEW q \in Rank, NEW t \in Tag, Received(q, t) >= iter[r] + 1
      PROVE  Posted(Source(t, q), t) >= iter[r] + 1
  <2>1. Source(t, q) \in Rank /\ Dest(t, Source(t, q)) = q
    BY DestSource
  <2>2. Received(q, t) <= Posted(Source(t, q), t)
    BY <2>1, ReceivedWasPosted
  <2> QED BY <1>1, <1>3, <2>1, <2>2
<1>4. ASSUME NEW q \in Rank, NEW t \in Tag, Posted(q, t) >= iter[r] + 1
      PROVE  Entered[q] >= iter[r] + 1
  BY <1>1, <1>4
<1>5. ASSUME NEW q \in Rank, NEW t \in Tag, GroupOf(t) = 4,
             Posted(q, t) >= iter[r] + 1
      PROVE  /\ Entered[North(q)] >= iter[r] + 1
             /\ Entered[South(q)] >= iter[r] + 1
  <2>1. /\ "9901" \in Tag /\ "9902" \in Tag
        /\ GroupOf("9901") = 2 /\ GroupOf("9902") = 2
        /\ Source("9901", q) = North(q) /\ Source("9902", q) = South(q)
        /\ North(q) \in Rank /\ South(q) \in Rank
    BY NeighborType DEF Tag, GroupOf, NorthSouth, Source
  <2>2. /\ Received(q, "9901") >= iter[r] + 1
        /\ Received(q, "9902") >= iter[r] + 1
    BY <1>1, <1>5, <2>1, StagesInOrder
  <2> QED BY <1>3, <1>4, <2>1, <2>2
<1>6. /\ North(r) \in Rank /\ South(r) \in Rank
      /\ East(r) \in Rank /\ West(r) \in Rank
  BY NeighborType
<1>7. /\ Posted(North(r), "9901") >= iter[r] + 1
      /\ Posted(South(r), "9902") >= iter[r] + 1
      /\ Posted(East(r), "9903") >= iter[r] + 1
      /\ Posted(West(r), "9904") >= iter[r] + 1
  <2>1. \A t \in Tag : Posted(Source(t, r), t) >= iter[r] + 1
    BY <1>1, <1>2, <1>3
  <2> QED BY <2>1 DEF Source, Tag
<1>8. /\ Entered[North(r)] >= iter[r] + 1 /\ Entered[South(r)] >= iter[r] + 1
      /\ Entered[East(r)] >= iter[r] + 1 /\ Entered[West(r)] >= iter[r] + 1
  BY <1>4, <1>6, <1>7 DEF Tag
<1>9. /\ Entered[North(East(r))] >= iter[r] + 1
      /\ Entered[South(East(r))] >= iter[r] + 1
      /\ Entered[North(West(r))] >= iter[r] + 1
      /\ Entered[South(West(r))] >= iter[r] + 1
  <2>1. /\ "9903" \in Tag /\ "9904" \in Tag
        /\ GroupOf("9903") = 4 /\ GroupOf("9904") = 4
    BY DEF Tag, GroupOf, NorthSouth
  <2> QED BY <1>5, <1>6, <1>7, <2>1
<1> QED BY <1>8, <1>9 DEF Around

\* To enqueue the first copy is to enter the exchange.
LEMMA FirstEnqueueEnters ==
  ASSUME IInv, IInv', NEW r \in Rank, Enqueue(r), at[r] = 1
  PROVE  Contract!Enter(r)
<1>1. /\ iter' = iter /\ iter[r] < Iterations /\ at'[r] # 1
      /\ hoew' = hoew /\ hins' = hins /\ Done(r)' = Done(r)
  BY EnqueueStep DEF IInv, Enqueue
<1>2. \A q \in Rank \ {r} : at'[q] = at[q] /\ Done(q)' = Done(q)
  BY Elsewhere DEF IInv, Step, Host
<1>3. Entered[r] = iter[r]
  BY DEF Entered, Idle
<1>4. Entered' = [Entered EXCEPT ![r] = @ + 1]
  BY <1>1, <1>2 DEF Entered, Idle
<1>5. Halo' = Halo
  <2>1. \A q \in Rank : Sending(q)' = Sending(q)
    BY <1>1, <1>2 DEF Sending
  <2> QED BY <2>1, HaloIsSending, HaloIsSendingAfter
<1> QED BY <1>1, <1>3, <1>4, <1>5, SameGrid DEF Contract!Enter, Entered, Halo

\* The last synchronisation leaves it.
LEMMA LastSynchronizeLeaves ==
  ASSUME IInv, IInv', NEW r \in Rank, Synchronize(r), at[r] = Len(Program)
  PROVE  Contract!Leave(r)
<1>1. /\ at'[r] = 1 /\ Done(r) = 4 /\ Done(r)' = 0
      /\ hoew' = hoew /\ hins' = hins
  BY SynchronizeStep DEF IInv, Synchronize
<1>2. at[r] # 1 /\ iter[r] \in Nat
  <2>1. TypeOK /\ ControlInv
    BY DEF IInv
  <2>2. (at[r] = 1 => Done(r) = 0) /\ iter[r] \in Nat
    BY <2>1, Position
  <2> QED BY <1>1, <2>2
<1>3. /\ iter' = [iter EXCEPT ![r] = @ + 1] /\ iter'[r] = iter[r] + 1
      /\ \A q \in Rank \ {r} : iter'[q] = iter[q]
  BY DEF Synchronize, IInv, TypeOK
<1>4. \A q \in Rank \ {r} : at'[q] = at[q] /\ Done(q)' = Done(q)
  BY Elsewhere DEF IInv, Step, Host
<1>5. Entered' = Entered
  <2> SUFFICES ASSUME NEW q \in Rank
               PROVE  (IF Idle(q)' THEN iter'[q] ELSE iter'[q] + 1)
                        = IF Idle(q) THEN iter[q] ELSE iter[q] + 1
    BY DEF Entered
  <2>1. CASE q = r
    BY <1>1, <1>2, <1>3, <2>1 DEF Idle
  <2>2. CASE q # r
    BY <1>3, <1>4, <2>2 DEF Idle
  <2> QED BY <2>1, <2>2
<1>6. Entered[r] = iter[r] + 1
  BY <1>2 DEF Entered, Idle
<1>7. \A q \in Around(r) : Entered[q] >= Entered[r]
  BY <1>1, <1>6, AroundEntered
<1>8. Halo' = [Halo EXCEPT ![r] = [s \in Segment |-> Origin(s, iter[r] + 1, r)]]
  <2>1. \A q \in Rank \ {r} : Sending(q)' = Sending(q)
    BY <1>1, <1>4 DEF Sending
  <2>2. \A s \in Segment : Sending(r)'[s] = <<s, Origin(s, iter[r] + 1, r)>>
    BY <1>1, <1>3 DEF Sending, IInv, BufferInv, BuffersOf
  <2>3. [s \in Segment |-> Sending(r)'[s][2]]
          = [s \in Segment |-> Origin(s, iter[r] + 1, r)]
    BY <2>2
  <2>4. Halo' = [Halo EXCEPT ![r] = [s \in Segment |-> Sending(r)'[s][2]]]
    BY <2>1, HaloIsSending, HaloIsSendingAfter
  <2> QED BY <2>3, <2>4
<1>9. iter[r] < Entered[r]
  BY <1>2, <1>6
<1> QED BY <1>3, <1>5, <1>7, <1>8, <1>9, SameGrid
        DEF Contract!Leave, Entered, Halo

\* Every other step is invisible to the caller.
LEMMA OtherStepsStutter ==
  ASSUME IInv, IInv', NEW r \in Rank,
         \/ Enqueue(r) /\ at[r] # 1
         \/ Synchronize(r) /\ at[r] # Len(Program)
         \/ Device(r)
  PROVE  UNCHANGED <<Entered, iter, Halo>>
<1>1. /\ iter'[r] = iter[r]
      /\ at'[r] = 1 <=> at[r] = 1
      /\ Sending(r)' = Sending(r)
  <2>1. CASE Enqueue(r) /\ at[r] # 1
    BY <2>1, EnqueueStep DEF IInv, Enqueue, Sending
  <2>2. CASE Synchronize(r) /\ at[r] # Len(Program)
    BY <2>2, SynchronizeStep DEF IInv, Synchronize, Sending
  <2>3. CASE Copy(r)
    <3>1. /\ at' = at /\ iter' = iter /\ Done(r) \in 0 .. 3
          /\ Done(r)' = Done(r) + 1
          /\ Head(stream[r]) = Operations[Done(r) + 1]
      BY <2>3, PopStep DEF IInv
    <3>2. CASE Done(r) = 0
      <4>1. hins'[r] = hoew[r]
        BY <2>3, <3>1, <3>2 DEF Copy, Operations, IInv, TypeOK
      <4> QED BY <3>1, <3>2, <4>1 DEF Sending
    <3>3. CASE Done(r) # 0
      <4>1. Head(stream[r]) # "copy_in"
        BY <3>1, <3>3 DEF Operations
      <4>2. hins' = hins
        BY <2>3, <4>1 DEF Copy
      <4> QED BY <3>1, <3>3, <4>2 DEF Sending
    <3> QED BY <3>2, <3>3
  <2>4. CASE Complete(r)
    <3>1. /\ at' = at /\ iter' = iter /\ Done(r)' = Done(r) + 1
      BY <2>4, PopStep DEF IInv
    <3>2. Done(r) \in {1, 3} /\ hins' = hins
      BY <2>4 DEF Complete, IInv, ControlInv
    <3> QED BY <3>1, <3>2 DEF Sending
  <2>5. CASE Launch(r) \/ \E i \in 1 .. 4 : Transmit(r, i) \/ Deliver(r, i)
    <3>1. at' = at /\ iter' = iter /\ Done(r) \in {1, 3} /\ Done(r)' = Done(r)
      BY <2>5, GroupStep DEF IInv
    <3>2. hins' = hins
      BY <2>5 DEF Launch, Transmit, Deliver
    <3> QED BY <3>1, <3>2 DEF Sending
  <2> QED BY <2>1, <2>2, <2>3, <2>4, <2>5 DEF Device
<1>2. ASSUME NEW q \in Rank \ {r}
      PROVE  /\ iter'[q] = iter[q]
             /\ at'[q] = 1 <=> at[q] = 1
             /\ Sending(q)' = Sending(q)
  BY Elsewhere DEF IInv, Step, Host, Sending
<1>3. \A q \in Rank : Sending(q)' = Sending(q)
  BY <1>1, <1>2
<1>4. Halo' = Halo
  BY <1>3, HaloIsSending, HaloIsSendingAfter
<1>5. iter' = iter
  BY <1>1, <1>2 DEF IInv, TypeOK
<1> QED BY <1>1, <1>2, <1>4, <1>5 DEF Entered, Idle

\* Both modes of the RCCL backend implement the promise of Backend::exchange,
\* on every grid and whatever RCCL does with a send.
THEOREM Refinement == Spec => ImplementsContract
<1>1. Init => Contract!Init
  <2> SUFFICES ASSUME Init
               PROVE  Contract!Init
    OBVIOUS
  <2>1. Entered = [r \in Rank |-> 0]
    BY DEF Init, Entered, Idle
  <2>2. Halo = [r \in Rank |-> [s \in Segment |-> r]]
    BY DEF Init, Halo, Idle
  <2> QED BY <2>1, <2>2, SameGrid DEF Init, Contract!Init, Entered, Halo
<1>2. IInv /\ IInv' /\ [Next]_vars => [Contract!Next]_Contract!vars
  <2> SUFFICES ASSUME IInv, IInv', [Next]_vars
               PROVE  Contract!Next \/ UNCHANGED <<Entered, iter, Halo>>
    BY DEF Contract!vars, Entered, Halo
  <2>1. ASSUME NEW r \in Rank, Step(r)
        PROVE  Contract!Next \/ UNCHANGED <<Entered, iter, Halo>>
    <3>1. CASE Enqueue(r) /\ at[r] = 1
      BY <3>1, FirstEnqueueEnters, SameGrid DEF Contract!Next
    <3>2. CASE Synchronize(r) /\ at[r] = Len(Program)
      BY <3>2, LastSynchronizeLeaves, SameGrid DEF Contract!Next
    <3>3. CASE \/ Enqueue(r) /\ at[r] # 1
               \/ Synchronize(r) /\ at[r] # Len(Program)
               \/ Device(r)
      BY <3>3, OtherStepsStutter
    <3> QED BY <2>1, <3>1, <3>2, <3>3 DEF Step, Host
  <2>2. CASE UNCHANGED vars
    BY <2>2 DEF vars, setting, Entered, Halo, Idle
  <2> QED BY <2>1, <2>2 DEF Next, Terminating, Step
<1> QED BY Invariant, <1>1, <1>2, PTL DEF Spec, ImplementsContract, Contract!Spec

=============================================================================
