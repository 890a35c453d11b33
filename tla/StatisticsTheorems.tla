------------------------- MODULE StatisticsTheorems -------------------------
(***************************************************************************)
(* Facts about the operators of Statistics and about sequences, which the  *)
(* proofs about the tools rest on.  An induction over the numbers is made  *)
(* by a least counterexample, because the library's theorem for it takes   *)
(* an operator.                                                            *)
(***************************************************************************)
EXTENDS Statistics, FiniteSetTheorems, SequenceTheorems, NaturalsInduction, TLAPS

-----------------------------------------------------------------------------
(* Finite sets in order. *)

\* The least of some numbers.
LEMMA LeastOf ==
  ASSUME NEW S, S \subseteq Nat, S # {}
  PROVE  \E m \in S : \A x \in S : m <= x
<1>1. IsWellFoundedOn(OpToRel(<, Nat), Nat)
  BY NatLessThanWellFounded
<1>2. PICK m \in S : \A x \in S : ~(<<x, m>> \in OpToRel(<, Nat))
  BY <1>1, WFMin
<1>3. ASSUME NEW x \in S PROVE m <= x
  <2>1. ~(x < m)
    BY <1>2 DEF OpToRel
  <2> QED BY <2>1
<1> QED BY <1>3

\* Induction over the first n numbers, for a set of numbers.
LEMMA UpTo ==
  ASSUME NEW n \in Nat, NEW S, 0 \in S, \A k \in 1 .. n : k - 1 \in S => k \in S
  PROVE  \A k \in 0 .. n : k \in S
<1> DEFINE Bad == {k \in 0 .. n : k \notin S}
<1> SUFFICES ASSUME Bad # {} PROVE FALSE
  OBVIOUS
<1>1. Bad \subseteq Nat
  OBVIOUS
<1>2. PICK m \in Bad : \A k \in Bad : m <= k
  BY <1>1, LeastOf
<1>3. m \in 1 .. n
  OBVIOUS
<1>4. m - 1 \in S
  <2>1. m - 1 \in 0 .. n /\ ~(m <= m - 1)
    BY <1>3
  <2>2. m - 1 \notin Bad
    BY <1>2, <2>1
  <2> QED BY <2>1, <2>2
<1> QED BY <1>3, <1>4

\* f repeats the step F from base on.
Repeats(f, n, base, F) == f[0] = base /\ \A i \in 1 .. n : f[i] = F[<<i, f[i - 1]>>]

\* A function defined by recursion over the first n numbers exists.
LEMMA Recursion ==
  ASSUME NEW n \in Nat, NEW T, NEW base \in T, NEW F \in [(1 .. n) \X T -> T]
  PROVE  \E f \in [0 .. n -> T] : Repeats(f, n, base, F)
<1> DEFINE Good(k, f) == /\ f \in [0 .. k -> T] /\ f[0] = base
                         /\ \A i \in 1 .. k : f[i] = F[<<i, f[i - 1]>>]
           S == {k \in 0 .. n : \E f : Good(k, f)}
<1>1. 0 \in S
  <2>1. Good(0, [i \in 0 .. 0 |-> base])
    OBVIOUS
  <2> HIDE DEF Good
  <2>2. \E f : Good(0, f)
    BY <2>1
  <2> QED BY <2>2
<1>2. ASSUME NEW k \in 1 .. n, k - 1 \in S PROVE k \in S
  <2>1. PICK g : Good(k - 1, g)
    BY <1>2
  <2> DEFINE f == [i \in 0 .. k |-> IF i = k THEN F[<<k, g[k - 1]>>] ELSE g[i]]
  <2>2. \A i \in 0 .. k : i # k => i \in 0 .. k - 1
    OBVIOUS
  <2>3. g[k - 1] \in T
    BY <2>1
  <2>4. f \in [0 .. k -> T]
    BY <2>1, <2>2, <2>3
  <2>5. f[0] = base
    BY <2>1
  <2>6. \A i \in 1 .. k : f[i] = F[<<i, f[i - 1]>>]
    <3> SUFFICES ASSUME NEW i \in 1 .. k PROVE f[i] = F[<<i, f[i - 1]>>]
      OBVIOUS
    <3>1. i - 1 \in 0 .. k /\ i - 1 # k
      OBVIOUS
    <3>2. f[i - 1] = g[i - 1]
      BY <3>1
    <3>3. CASE i = k
      BY <3>2, <3>3
    <3>4. CASE i # k
      <4>1. i \in 1 .. k - 1 /\ f[i] = g[i]
        BY <3>4
      <4> QED BY <2>1, <3>2, <4>1
    <3> QED BY <3>3, <3>4
  <2> HIDE DEF f
  <2>7. Good(k, f)
    BY <2>4, <2>5, <2>6
  <2> QED BY <2>7
<1> HIDE DEF S
<1>3. n \in S
  <2>1. \A k \in 0 .. n : k \in S
    BY <1>1, <1>2, UpTo
  <2> QED BY <2>1
<1> QED BY <1>3 DEF S, Repeats

\* R is a strict total order of S.
StrictOrder(R, S) ==
  /\ \A x \in S : <<x, x>> \notin R
  /\ \A x, y, z \in S : <<x, y>> \in R /\ <<y, z>> \in R => <<x, z>> \in R
  /\ \A x, y \in S : x = y \/ <<x, y>> \in R \/ <<y, x>> \in R

\* What Ordered gives, with a relation for its operator.
Arranged(R, S) ==
  [i \in 1 .. Cardinality(S) |->
     CHOOSE x \in S : Cardinality({y \in S : <<y, x>> \in R}) = i - 1]

\* A finite set in a strict total order: each element has one place, which follows
\* the places of the elements before it.
LEMMA InOrderOf ==
  ASSUME NEW S, IsFiniteSet(S), NEW R, StrictOrder(R, S), NEW order, order = Arranged(R, S)
  PROVE  /\ Cardinality(S) \in Nat
         /\ order \in [1 .. Cardinality(S) -> S]
         /\ \A x \in S : \E i \in 1 .. Cardinality(S) : order[i] = x
         /\ \A i, j \in 1 .. Cardinality(S) : <<order[i], order[j]>> \in R <=> i < j
<1> USE DEF StrictOrder, Arranged
<1> DEFINE n == Cardinality(S)
           Below(x) == {y \in S : <<y, x>> \in R}
           place == [x \in S |-> Cardinality(Below(x)) + 1]
<1>1. n \in Nat
  BY FS_CardinalityType
<1>2. ASSUME NEW x \in S PROVE IsFiniteSet(Below(x)) /\ place[x] \in 1 .. n
  <2>1. Below(x) \subseteq S \ {x}
    OBVIOUS
  <2>2. IsFiniteSet(S \ {x}) /\ Cardinality(S \ {x}) = n - 1
    BY FS_RemoveElement
  <2>3. IsFiniteSet(Below(x)) /\ Cardinality(Below(x)) <= n - 1
    <3> HIDE DEF Below, n
    <3> QED BY <2>1, <2>2, FS_Subset
  <2>4. Cardinality(Below(x)) \in Nat
    BY <2>3, FS_CardinalityType
  <2> QED BY <1>1, <2>3, <2>4
<1>3. ASSUME NEW x \in S, NEW y \in S, <<x, y>> \in R PROVE place[x] < place[y]
  <2>1. Below(x) \subseteq Below(y) /\ x \in Below(y) /\ x \notin Below(x)
    BY <1>3
  <2>2. Cardinality(Below(x)) \in Nat /\ Cardinality(Below(y)) \in Nat
    BY <1>2, FS_CardinalityType
  <2>3. Cardinality(Below(x)) < Cardinality(Below(y))
    <3>1. Below(x) # Below(y) /\ IsFiniteSet(Below(y))
      BY <1>2, <2>1
    <3> HIDE DEF Below
    <3>2. /\ Cardinality(Below(x)) <= Cardinality(Below(y))
          /\ Cardinality(Below(x)) # Cardinality(Below(y))
      BY <2>1, <3>1, FS_Subset
    <3> QED BY <2>2, <3>2
  <2> QED BY <2>2, <2>3
<1>4. place \in [S -> 1 .. n]
  BY <1>2
<1>5. \A x, y \in S : <<x, y>> \in R <=> place[x] < place[y]
  <2> SUFFICES ASSUME NEW x \in S, NEW y \in S, place[x] < place[y] PROVE <<x, y>> \in R
    BY <1>3
  <2>1. place[x] \in Int /\ place[y] \in Int
    BY <1>4
  <2> HIDE DEF place
  <2>2. x # y /\ ~(<<y, x>> \in R)
    BY <1>3, <2>1
  <2> QED BY <2>2
<1> HIDE DEF place
<1>6. \A x, y \in S : place[x] = place[y] => x = y
  <2> SUFFICES ASSUME NEW x \in S, NEW y \in S, place[x] = place[y] PROVE x = y
    OBVIOUS
  <2>1. place[x] \in Int /\ place[y] \in Int
    BY <1>4
  <2>2. ~(<<x, y>> \in R) /\ ~(<<y, x>> \in R)
    BY <1>3, <2>1
  <2> QED BY <2>2
<1>7. \A i \in 1 .. n : \E x \in S : place[x] = i
  <2>1. place \in Injection(S, 1 .. n)
    BY <1>4, <1>6 DEF Injection, IsInjective
  <2>2. IsFiniteSet(1 .. n) /\ Cardinality(1 .. n) = n
    BY <1>1, FS_Interval
  <2>3. place \in Surjection(S, 1 .. n)
    BY <2>1, <2>2, FS_Injection
  <2> HIDE DEF n
  <2> QED BY <2>3 DEF Surjection
<1>8. ASSUME NEW i \in 1 .. n PROVE order[i] \in S /\ place[order[i]] = i
  <2>1. PICK x \in S : place[x] = i
    BY <1>7
  <2>2. Cardinality(Below(x)) \in Nat /\ \A y \in S : place[y] = Cardinality(Below(y)) + 1
    BY <1>2, FS_CardinalityType DEF place
  <2>3. Cardinality(Below(x)) = i - 1
    BY <2>1, <2>2
  <2>4. order[i] = CHOOSE y \in S : Cardinality(Below(y)) = i - 1
    OBVIOUS
  <2> HIDE DEF Below
  <2>5. \E y \in S : Cardinality(Below(y)) = i - 1
    BY <2>3
  <2>6. order[i] \in S /\ Cardinality(Below(order[i])) = i - 1
    BY <2>4, <2>5
  <2>7. place[order[i]] = (i - 1) + 1
    BY <2>2, <2>6
  <2>8. i \in Int
    BY <1>1
  <2> QED BY <2>6, <2>7, <2>8
<1>9. order \in [1 .. n -> S]
  BY <1>8
<1>10. \A x \in S : \E i \in 1 .. n : order[i] = x
  <2> SUFFICES ASSUME NEW x \in S PROVE \E i \in 1 .. n : order[i] = x
    OBVIOUS
  <2>1. place[x] \in 1 .. n
    BY <1>4
  <2>2. order[place[x]] \in S /\ place[order[place[x]]] = place[x]
    BY <1>8, <2>1
  <2>3. order[place[x]] = x
    BY <1>6, <2>2
  <2> QED BY <2>1, <2>3
<1>11. \A i, j \in 1 .. n : <<order[i], order[j]>> \in R <=> i < j
  <2> SUFFICES ASSUME NEW i \in 1 .. n, NEW j \in 1 .. n
               PROVE  <<order[i], order[j]>> \in R <=> i < j
    OBVIOUS
  <2>1. /\ order[i] \in S /\ place[order[i]] = i
        /\ order[j] \in S /\ place[order[j]] = j
    BY <1>8
  <2>2. <<order[i], order[j]>> \in R <=> place[order[i]] < place[order[j]]
    <3> HIDE DEF n
    <3> QED BY <1>5, <2>1
  <2>3. <<order[i], order[j]>> \in R <=> i < j
    <3> HIDE DEF n
    <3> QED BY <2>1, <2>2
  <2> QED BY <2>3
<1> QED BY <1>1, <1>9, <1>10, <1>11

\* Tuples of n integers are in a strict total order.
LEMMA TuplesInOrder ==
  ASSUME NEW n \in Nat
  PROVE  /\ \A x \in [1 .. n -> Int] : ~Precedes(x, x)
         /\ \A x, y, z \in [1 .. n -> Int] :
              Precedes(x, y) /\ Precedes(y, z) => Precedes(x, z)
         /\ \A x, y \in [1 .. n -> Int] : x = y \/ Precedes(x, y) \/ Precedes(y, x)
<1>1. ASSUME NEW x \in [1 .. n -> Int] PROVE Len(x) = n
  OBVIOUS
<1> DEFINE SmallerAt(x, y, i) == x[i] < y[i] /\ \A j \in 1 .. i - 1 : x[j] = y[j]
<1>2. \A x, y \in [1 .. n -> Int] : Precedes(x, y) <=> \E i \in 1 .. n : SmallerAt(x, y, i)
  BY <1>1 DEF Precedes
<1>3. \A x \in [1 .. n -> Int] : ~Precedes(x, x)
  BY <1>2
<1>4. ASSUME NEW x \in [1 .. n -> Int], NEW y \in [1 .. n -> Int], NEW z \in [1 .. n -> Int],
             Precedes(x, y), Precedes(y, z)
      PROVE  Precedes(x, z)
  <2>1. PICK i \in 1 .. n, k \in 1 .. n : SmallerAt(x, y, i) /\ SmallerAt(y, z, k)
    <3>1. (\E i \in 1 .. n : SmallerAt(x, y, i)) /\ \E k \in 1 .. n : SmallerAt(y, z, k)
      BY <1>2, <1>4
    <3> QED BY <3>1
  <2>2. CASE i <= k
    <3>1. x[i] < z[i]
      BY <2>1, <2>2
    <3>2. \A j \in 1 .. i - 1 : x[j] = z[j]
      BY <2>1, <2>2
    <3> QED BY <1>2, <3>1, <3>2
  <2>3. CASE k < i
    <3>1. x[k] < z[k]
      BY <2>1, <2>3
    <3>2. \A j \in 1 .. k - 1 : x[j] = z[j]
      BY <2>1, <2>3
    <3> QED BY <1>2, <3>1, <3>2
  <2> QED BY <2>2, <2>3
<1>5. ASSUME NEW x \in [1 .. n -> Int], NEW y \in [1 .. n -> Int], x # y
      PROVE  Precedes(x, y) \/ Precedes(y, x)
  <2> DEFINE D == {i \in 1 .. n : x[i] # y[i]}
  <2>1. D # {} /\ D \subseteq Nat
    BY <1>5
  <2>2. PICK i \in D : \A j \in D : i <= j
    BY <2>1, LeastOf
  <2>3. \A j \in 1 .. i - 1 : x[j] = y[j]
    BY <2>2
  <2>4. x[i] < y[i] \/ y[i] < x[i]
    BY <2>2
  <2> QED BY <1>2, <2>2, <2>3, <2>4
<1> QED BY <1>3, <1>4, <1>5

\* Some pairs of numbers, as Ordered gives them.
LEMMA PairsAscend ==
  ASSUME NEW S, IsFiniteSet(S), S \subseteq Int \X Int
  PROVE  /\ Cardinality(S) \in Nat
         /\ Ordered(S, Precedes) \in [1 .. Cardinality(S) -> S]
         /\ \A x \in S : \E i \in 1 .. Cardinality(S) : Ordered(S, Precedes)[i] = x
         /\ \A i, j \in 1 .. Cardinality(S) :
              /\ Precedes(Ordered(S, Precedes)[i], Ordered(S, Precedes)[j]) <=> i < j
              /\ Ordered(S, Precedes)[i] = Ordered(S, Precedes)[j] => i = j
         /\ \A x, y \in S :
              Precedes(x, y) <=> x[1] < y[1] \/ (x[1] = y[1] /\ x[2] < y[2])
<1> DEFINE R == {x \in S \X S : Precedes(x[1], x[2])}
<1>1. IsFiniteSet(S)
  OBVIOUS
<1>2. \A x, y \in S : <<x, y>> \in R <=> Precedes(x, y)
  OBVIOUS
<1>3. \A x, y \in S : Precedes(x, y) <=> x[1] < y[1] \/ (x[1] = y[1] /\ x[2] < y[2])
  <2> SUFFICES ASSUME NEW x \in S, NEW y \in S
               PROVE  Precedes(x, y) <=> x[1] < y[1] \/ (x[1] = y[1] /\ x[2] < y[2])
    OBVIOUS
  <2>1. PICK a \in Int, b \in Int, c \in Int, d \in Int : x = <<a, b>> /\ y = <<c, d>>
    OBVIOUS
  <2>2. Precedes(x, y) <=> \E i \in 1 .. 2 : x[i] < y[i] /\ \A j \in 1 .. i - 1 : x[j] = y[j]
    BY <2>1 DEF Precedes
  <2>3. Precedes(x, y) <=> \/ x[1] < y[1] /\ \A j \in 1 .. 0 : x[j] = y[j]
                           \/ x[2] < y[2] /\ \A j \in 1 .. 1 : x[j] = y[j]
    BY <2>2
  <2> QED BY <2>3
<1>4. \A x \in S : x = <<x[1], x[2]>> /\ x[1] \in Int /\ x[2] \in Int
  OBVIOUS
<1>5. \A x \in S : <<x, x>> \notin R
  BY <1>3, <1>4
<1>6. \A x, y, z \in S : <<x, y>> \in R /\ <<y, z>> \in R => <<x, z>> \in R
  <2> HIDE DEF R
  <2> QED BY <1>2, <1>3, <1>4
<1>7. \A x, y \in S : x = y \/ <<x, y>> \in R \/ <<y, x>> \in R
  <2> SUFFICES ASSUME NEW x \in S, NEW y \in S PROVE x = y \/ <<x, y>> \in R \/ <<y, x>> \in R
    OBVIOUS
  <2>1. x = <<x[1], x[2]>> /\ y = <<y[1], y[2]>>
    BY <1>4
  <2>2. x[1] \in Int /\ x[2] \in Int /\ y[1] \in Int /\ y[2] \in Int
    BY <1>4
  <2> HIDE DEF R
  <2>3. (x[1] = y[1] /\ x[2] = y[2]) \/ Precedes(x, y) \/ Precedes(y, x)
    BY <1>3, <2>2
  <2>4. CASE x[1] = y[1] /\ x[2] = y[2]
    <3>1. <<x[1], x[2]>> = <<y[1], y[2]>>
      BY <2>4
    <3> QED BY <2>1, <3>1
  <2> QED BY <1>2, <2>3, <2>4
<1>8. Ordered(S, Precedes) =
        [i \in 1 .. Cardinality(S) |->
           CHOOSE x \in S : Cardinality({y \in S : <<y, x>> \in R}) = i - 1]
  <2>1. \A x \in S : {y \in S : Precedes(y, x)} = {y \in S : <<y, x>> \in R}
    BY <1>2
  <2> HIDE DEF R
  <2>2. \A i : (CHOOSE x \in S : Cardinality({y \in S : Precedes(y, x)}) = i - 1)
               = CHOOSE x \in S : Cardinality({y \in S : <<y, x>> \in R}) = i - 1
    BY <2>1
  <2>3. Ordered(S, Precedes) = [i \in 1 .. Cardinality(S) |->
                                CHOOSE x \in S : Cardinality({y \in S : Precedes(y, x)}) = i - 1]
    BY DEF Ordered
  <2> QED BY <2>2, <2>3, Zenon
<1> HIDE DEF R
<1> DEFINE order == Ordered(S, Precedes)
<1>9. /\ Cardinality(S) \in Nat
      /\ order \in [1 .. Cardinality(S) -> S]
      /\ \A x \in S : \E i \in 1 .. Cardinality(S) : order[i] = x
      /\ \A i, j \in 1 .. Cardinality(S) : <<order[i], order[j]>> \in R <=> i < j
  <2>1. StrictOrder(R, S)
    BY <1>5, <1>6, <1>7 DEF StrictOrder
  <2>2. order = Arranged(R, S)
    BY <1>8 DEF Arranged
  <2> QED BY <1>1, <2>1, <2>2, InOrderOf
<1> HIDE DEF order
<1>10. \A i, j \in 1 .. Cardinality(S) : order[i] = order[j] => i = j
  <2> SUFFICES ASSUME NEW i \in 1 .. Cardinality(S), NEW j \in 1 .. Cardinality(S),
                      order[i] = order[j]
               PROVE  i = j
    OBVIOUS
  <2>1. order[i] \in S /\ ~(<<order[i], order[i]>> \in R)
    BY <1>5, <1>9
  <2>2. ~(i < j) /\ ~(j < i)
    BY <1>9, <2>1
  <2> QED BY <1>9, <2>2
<1>11. \A i, j \in 1 .. Cardinality(S) : Precedes(order[i], order[j]) <=> i < j
  BY <1>2, <1>9
<1> QED BY <1>3, <1>9, <1>10, <1>11 DEF order

\* Some pairs of places.
LEMMA PairsInOrder ==
  ASSUME NEW n \in Nat, NEW S, S \subseteq (1 .. n) \X (1 .. n)
  PROVE  /\ Cardinality(S) \in Nat
         /\ Ordered(S, Precedes) \in [1 .. Cardinality(S) -> S]
         /\ \A x \in S : \E i \in 1 .. Cardinality(S) : Ordered(S, Precedes)[i] = x
         /\ \A i, j \in 1 .. Cardinality(S) :
              Ordered(S, Precedes)[i] = Ordered(S, Precedes)[j] => i = j
<1>1. IsFiniteSet(1 .. n)
  BY FS_Interval
<1>2. IsFiniteSet((1 .. n) \X (1 .. n))
  BY <1>1, FS_Product
<1>3. IsFiniteSet(S)
  BY <1>2, FS_Subset
<1>4. S \subseteq Int \X Int
  OBVIOUS
<1> DEFINE order == Ordered(S, Precedes)
<1>5. /\ Cardinality(S) \in Nat
      /\ order \in [1 .. Cardinality(S) -> S]
      /\ \A x \in S : \E i \in 1 .. Cardinality(S) : order[i] = x
      /\ \A i, j \in 1 .. Cardinality(S) :
           /\ Precedes(order[i], order[j]) <=> i < j
           /\ order[i] = order[j] => i = j
  BY <1>3, <1>4, PairsAscend, Zenon
<1> QED BY <1>5, Zenon


\* Some numbers, ascending.
LEMMA AscendingIs ==
  ASSUME NEW S, IsFiniteSet(S), S \subseteq Int
  PROVE  /\ Cardinality(S) \in Nat
         /\ Ascending(S) \in [1 .. Cardinality(S) -> S]
         /\ \A x \in S : \E i \in 1 .. Cardinality(S) : Ascending(S)[i] = x
         /\ \A i, j \in 1 .. Cardinality(S) : Ascending(S)[i] < Ascending(S)[j] <=> i < j
<1> DEFINE R == {x \in S \X S : x[1] < x[2]}
           order == Ascending(S)
<1>1. IsFiniteSet(S)
  OBVIOUS
<1>2. \A x, y \in S : <<x, y>> \in R <=> x < y
  OBVIOUS
<1>3. S \subseteq Int
  OBVIOUS
<1>4. \A x \in S : <<x, x>> \notin R
  BY <1>2, <1>3
<1>5. \A x, y, z \in S : <<x, y>> \in R /\ <<y, z>> \in R => <<x, z>> \in R
  <2> HIDE DEF R
  <2> SUFFICES ASSUME NEW x \in S, NEW y \in S, NEW z \in S, x < y, y < z PROVE x < z
    BY <1>2
  <2> QED BY <1>3
<1>6. \A x, y \in S : x = y \/ <<x, y>> \in R \/ <<y, x>> \in R
  <2> HIDE DEF R
  <2> SUFFICES ASSUME NEW x \in S, NEW y \in S PROVE x = y \/ x < y \/ y < x
    BY <1>2
  <2> QED BY <1>3
<1>7. order = [i \in 1 .. Cardinality(S) |->
                 CHOOSE x \in S : Cardinality({y \in S : <<y, x>> \in R}) = i - 1]
  <2> DEFINE AtLess(i) == CHOOSE x \in S : Cardinality({y \in S : y < x}) = i - 1
             AtR(i) == CHOOSE x \in S : Cardinality({y \in S : <<y, x>> \in R}) = i - 1
  <2>1. \A x \in S : {y \in S : y < x} = {y \in S : <<y, x>> \in R}
    BY <1>2
  <2>2. \A i : AtLess(i) = AtR(i)
    <3> HIDE DEF R
    <3> QED BY <2>1
  <2>3. order = [i \in 1 .. Cardinality(S) |-> AtLess(i)]
    BY DEF Ascending, Ordered
  <2> HIDE DEF order, AtLess, AtR
  <2>4. order = [i \in 1 .. Cardinality(S) |-> AtR(i)]
    BY <2>2, <2>3
  <2> QED BY <2>4 DEF AtR
<1> HIDE DEF R
<1>8. /\ Cardinality(S) \in Nat
      /\ order \in [1 .. Cardinality(S) -> S]
      /\ \A x \in S : \E i \in 1 .. Cardinality(S) : order[i] = x
      /\ \A i, j \in 1 .. Cardinality(S) : <<order[i], order[j]>> \in R <=> i < j
  <2>1. StrictOrder(R, S)
    BY <1>4, <1>5, <1>6 DEF StrictOrder
  <2>2. order = Arranged(R, S)
    BY <1>7 DEF Arranged
  <2> QED BY <1>1, <2>1, <2>2, InOrderOf
<1>9. \A i, j \in 1 .. Cardinality(S) : order[i] < order[j] <=> i < j
  BY <1>2, <1>8
<1> HIDE DEF order
<1> QED BY <1>8, <1>9 DEF order

\* Some places, ascending.
LEMMA PlacesInOrder ==
  ASSUME NEW n \in Nat, NEW S, S \subseteq 1 .. n
  PROVE  /\ IsFiniteSet(S) /\ Cardinality(S) \in Nat
         /\ Ascending(S) \in [1 .. Cardinality(S) -> S]
         /\ \A x \in S : \E i \in 1 .. Cardinality(S) : Ascending(S)[i] = x
         /\ \A i, j \in 1 .. Cardinality(S) : Ascending(S)[i] < Ascending(S)[j] <=> i < j
<1>1. IsFiniteSet(1 .. n)
  BY FS_Interval
<1>2. IsFiniteSet(S)
  BY <1>1, FS_Subset
<1>3. S \subseteq Int
  OBVIOUS
<1> QED BY <1>2, <1>3, AscendingIs


\* The first n values of f are the elements of S in the order of R.
Enumerates(f, n, S, R) ==
  /\ f \in [1 .. n -> S]
  /\ \A x \in S : \E i \in 1 .. n : f[i] = x
  /\ \A i, j \in 1 .. n : <<f[i], f[j]>> \in R <=> i < j

\* One set has one such enumeration.
LEMMA OneArrangement ==
  ASSUME NEW n \in Nat, NEW S, NEW R, NEW f, NEW g,
         Enumerates(f, n, S, R), Enumerates(g, n, S, R)
  PROVE  f = g
<1> USE DEF Enumerates
<1> DEFINE Bad == {k \in 1 .. n : f[k] # g[k]}
<1>1. Bad = {}
  <2> SUFFICES ASSUME Bad # {} PROVE FALSE
    OBVIOUS
  <2>1. Bad \subseteq Nat
    OBVIOUS
  <2>2. PICK k \in Bad : \A j \in Bad : k <= j
    BY <2>1, LeastOf
  <2>3. k \in 1 .. n /\ f[k] # g[k] /\ \A j \in 1 .. n : j < k => f[j] = g[j]
    <3>1. \A j \in 1 .. n : j < k => j \notin Bad
      BY <2>2
    <3> QED BY <2>2, <3>1
  <2> HIDE DEF Bad
  <2>4. PICK j \in 1 .. n : f[j] = g[k]
    BY <2>3
  <2>5. PICK m \in 1 .. n : g[m] = f[k]
    BY <2>3
  <2>6. <<g[k], g[k]>> \notin R /\ <<f[k], f[k]>> \notin R
    BY <2>3
  <2>7. k < j
    <3>1. j # k
      BY <2>3, <2>4
    <3>2. ~(j < k)
      BY <2>3, <2>4, <2>6
    <3> QED BY <2>3, <3>1, <3>2
  <2>8. k < m
    <3>1. m # k
      BY <2>3, <2>5
    <3>2. ~(m < k)
      BY <2>3, <2>5, <2>6
    <3> QED BY <2>3, <3>1, <3>2
  <2>9. <<f[k], f[j]>> \in R /\ <<f[k], f[j]>> = <<g[m], g[k]>>
    BY <2>3, <2>4, <2>5, <2>7
  <2> QED BY <2>3, <2>8, <2>9
<1>2. \A k \in 1 .. n : f[k] = g[k]
  BY <1>1
<1> HIDE DEF Bad
<1> QED BY <1>2

\* The greatest and the least of some numbers.
LEMMA ExtremesOf ==
  ASSUME NEW S, IsFiniteSet(S), S \subseteq Int, S # {}
  PROVE  /\ Max(S) \in S /\ \A x \in S : x <= Max(S)
         /\ Min(S) \in S /\ \A x \in S : Min(S) <= x
<1> DEFINE n == Cardinality(S)
           asc == Ascending(S)
<1>1. /\ n \in Nat /\ asc \in [1 .. n -> S]
      /\ \A x \in S : \E i \in 1 .. n : asc[i] = x
      /\ \A i, j \in 1 .. n : asc[i] < asc[j] <=> i < j
  BY AscendingIs
<1> HIDE DEF n, asc
<1>2. PICK e \in S : TRUE
  OBVIOUS
<1>3. 1 \in 1 .. n /\ n \in 1 .. n
  <2>1. PICK i \in 1 .. n : asc[i] = e
    BY <1>1
  <2> QED BY <1>1
<1>4. asc[1] \in Int /\ asc[n] \in Int
  BY <1>1, <1>3
<1>5. \A x \in S : asc[1] <= x
  <2> SUFFICES ASSUME NEW x \in S PROVE ~(x < asc[1])
    BY <1>4
  <2>1. PICK i \in 1 .. n : asc[i] = x
    BY <1>1
  <2> QED BY <1>1, <1>3, <2>1
<1>6. \A x \in S : x <= asc[n]
  <2> SUFFICES ASSUME NEW x \in S PROVE ~(asc[n] < x)
    BY <1>4
  <2>1. PICK i \in 1 .. n : asc[i] = x
    BY <1>1
  <2> QED BY <1>1, <1>3, <2>1
<1>7. asc[1] \in S /\ asc[n] \in S
  BY <1>1, <1>3
<1>8. \E x \in S : \A y \in S : x >= y
  BY <1>6, <1>7
<1>9. \E x \in S : \A y \in S : x <= y
  BY <1>5, <1>7
<1>10. Max(S) \in S /\ \A y \in S : Max(S) >= y
  BY <1>8 DEF Max
<1>11. Min(S) \in S /\ \A y \in S : Min(S) <= y
  BY <1>9 DEF Min
<1> QED BY <1>10, <1>11

-----------------------------------------------------------------------------
(* Sequences. *)

IsSequence(s) == s \in Seq(ToSet(s))

LEMMA FunctionIsSequence ==
  ASSUME NEW s, NEW n \in Nat, s = [i \in 1 .. n |-> s[i]]
  PROVE  IsSequence(s) /\ Len(s) = n
<1>1. s \in [1 .. n -> ToSet(s)]
  BY DEF ToSet
<1> DEFINE S == ToSet(s)
<1>2. s \in [1 .. n -> S]
  BY <1>1
<1> HIDE DEF S
<1>3. s \in Seq(S) /\ Len(s) = n
  BY <1>2
<1> QED BY <1>3 DEF S, IsSequence

LEMMA SequenceIs ==
  ASSUME NEW s, IsSequence(s)
  PROVE  /\ Len(s) \in Nat /\ DOMAIN s = 1 .. Len(s) /\ s = [i \in 1 .. Len(s) |-> s[i]]
         /\ s # <<>> <=> Len(s) # 0
<1> DEFINE S == ToSet(s)
<1>1. s \in Seq(S)
  BY DEF IsSequence
<1> HIDE DEF S
<1>2. Len(s) \in Nat /\ DOMAIN s = 1 .. Len(s) /\ s \in [1 .. Len(s) -> S]
  BY <1>1, LenProperties
<1>3. s # <<>> <=> Len(s) # 0
  BY <1>1
<1> QED BY <1>2, <1>3

LEMMA EmptyIsSequence == IsSequence(<<>>)
<1>1. <<>> \in Seq({})
  OBVIOUS
<1>2. ToSet(<<>>) = {}
  BY DEF ToSet
<1> QED BY <1>1, <1>2 DEF IsSequence

LEMMA CatIsSequence ==
  ASSUME NEW s, IsSequence(s), NEW t, IsSequence(t)
  PROVE  /\ IsSequence(s \o t) /\ Len(s \o t) = Len(s) + Len(t)
         /\ \A i \in 1 .. Len(s) : (s \o t)[i] = s[i]
         /\ \A i \in 1 .. Len(t) : (s \o t)[Len(s) + i] = t[i]
<1> DEFINE S == ToSet(s)
           T == ToSet(t)
<1>1. s \in Seq(S) /\ t \in Seq(T)
  BY DEF IsSequence
<1> HIDE DEF S, T
<1>2. s \in Seq(S \cup T) /\ t \in Seq(S \cup T)
  BY <1>1, SeqMonotonic
<1>3. /\ s \o t \in Seq(S \cup T) /\ Len(s \o t) = Len(s) + Len(t)
      /\ \A i \in 1 .. Len(s) + Len(t) :
           (s \o t)[i] = IF i <= Len(s) THEN s[i] ELSE t[i - Len(s)]
  BY <1>2, ConcatProperties
<1> DEFINE u == s \o t
<1>4. Len(s) \in Nat /\ Len(t) \in Nat
  BY <1>1, LenProperties
<1>5. u \in Seq(S \cup T) /\ Len(u) = Len(s) + Len(t)
  BY <1>3
<1>6. \A i \in 1 .. Len(s) : u[i] = s[i]
  BY <1>3, <1>4
<1>7. \A i \in 1 .. Len(t) : u[Len(s) + i] = t[i]
  BY <1>3, <1>4
<1> HIDE DEF u
<1>8. Len(u) \in Nat /\ u \in [1 .. Len(u) -> S \cup T]
  BY <1>5, LenProperties
<1>9. u = [i \in 1 .. Len(u) |-> u[i]]
  BY <1>8
<1>10. IsSequence(u)
  BY <1>8, <1>9, FunctionIsSequence
<1> QED BY <1>5, <1>6, <1>7, <1>10 DEF u

LEMMA OneIsSequence ==
  ASSUME NEW x
  PROVE  IsSequence(<<x>>) /\ Len(<<x>>) = 1 /\ <<x>>[1] = x
<1>1. <<x>> = [i \in 1 .. 1 |-> <<x>>[i]]
  OBVIOUS
<1> QED BY <1>1, FunctionIsSequence

LEMMA AppendIsSequence ==
  ASSUME NEW s, IsSequence(s), NEW x
  PROVE  /\ IsSequence(Append(s, x)) /\ Len(Append(s, x)) = Len(s) + 1
         /\ \A i \in 1 .. Len(s) : Append(s, x)[i] = s[i]
         /\ Append(s, x)[Len(s) + 1] = x
<1> DEFINE S == ToSet(s)
<1>1. s \in Seq(S)
  BY DEF IsSequence
<1> HIDE DEF S
<1>2. s \in Seq(S \cup {x})
  BY <1>1, SeqMonotonic
<1>3. /\ Append(s, x) \in Seq(S \cup {x}) /\ Len(Append(s, x)) = Len(s) + 1
      /\ \A i \in 1 .. Len(s) : Append(s, x)[i] = s[i]
      /\ Append(s, x)[Len(s) + 1] = x
  BY <1>2, AppendProperties
<1> DEFINE u == Append(s, x)
<1>4. u \in Seq(S \cup {x})
  BY <1>3
<1> HIDE DEF u
<1>5. Len(u) \in Nat /\ u \in [1 .. Len(u) -> S \cup {x}]
  BY <1>4, LenProperties
<1>6. u = [i \in 1 .. Len(u) |-> u[i]]
  BY <1>5
<1> QED BY <1>3, <1>5, <1>6, FunctionIsSequence DEF u

LEMMA TailIsSequence ==
  ASSUME NEW s, IsSequence(s), s # <<>>
  PROVE  /\ Head(s) = s[1]
         /\ IsSequence(Tail(s)) /\ Len(Tail(s)) = Len(s) - 1
         /\ \A i \in 1 .. Len(s) - 1 : Tail(s)[i] = s[i + 1]
<1> DEFINE S == ToSet(s)
           u == Tail(s)
<1>1. s \in Seq(S)
  BY DEF IsSequence
<1> HIDE DEF S
<1>2. Head(s) = s[1]
  BY <1>1
<1>3. u \in Seq(S) /\ Len(u) = Len(s) - 1 /\ \A i \in 1 .. Len(u) : u[i] = s[i + 1]
  BY <1>1, HeadTailProperties
<1> HIDE DEF u
<1>4. Len(u) \in Nat /\ u \in [1 .. Len(u) -> S]
  BY <1>3, LenProperties
<1>5. u = [i \in 1 .. Len(u) |-> u[i]]
  BY <1>4
<1> QED BY <1>2, <1>3, <1>4, <1>5, FunctionIsSequence DEF u

LEMMA CatElements ==
  ASSUME NEW s, IsSequence(s), NEW t, IsSequence(t)
  PROVE  ToSet(s \o t) = ToSet(s) \cup ToSet(t)
<1> DEFINE u == s \o t
           k == Len(s)
           n == Len(t)
<1>1. /\ k \in Nat /\ DOMAIN s = 1 .. k /\ n \in Nat /\ DOMAIN t = 1 .. n
  BY SequenceIs
<1>2. IsSequence(u) /\ Len(u) = k + n
  BY CatIsSequence
<1>3. \A i \in 1 .. k : u[i] = s[i]
  BY CatIsSequence
<1>4. \A i \in 1 .. n : u[k + i] = t[i]
  BY CatIsSequence
<1>5. DOMAIN u = 1 .. k + n
  BY <1>2, SequenceIs
<1> HIDE DEF u, k, n
<1>6. \A x \in ToSet(u) : x \in ToSet(s) \cup ToSet(t)
  <2> SUFFICES ASSUME NEW i \in 1 .. k + n PROVE u[i] \in ToSet(s) \cup ToSet(t)
    BY <1>5 DEF ToSet
  <2>1. CASE i <= k
    <3>1. i \in 1 .. k
      BY <1>1, <2>1
    <3> QED BY <1>1, <1>3, <3>1 DEF ToSet
  <2>2. CASE ~(i <= k)
    <3>1. PICK j \in 1 .. n : i = k + j
      <4>1. i - k \in 1 .. n /\ i = k + (i - k)
        BY <1>1, <2>2
      <4> QED BY <4>1
    <3> QED BY <1>1, <1>4, <3>1 DEF ToSet
  <2> QED BY <2>1, <2>2
<1>7. \A x \in ToSet(s) : x \in ToSet(u)
  <2> SUFFICES ASSUME NEW i \in 1 .. k PROVE s[i] \in ToSet(u)
    BY <1>1 DEF ToSet
  <2>1. i \in DOMAIN u
    BY <1>1, <1>5
  <2> QED BY <1>3, <2>1 DEF ToSet
<1>8. \A x \in ToSet(t) : x \in ToSet(u)
  <2> SUFFICES ASSUME NEW i \in 1 .. n PROVE t[i] \in ToSet(u)
    BY <1>1 DEF ToSet
  <2>1. k + i \in DOMAIN u
    BY <1>1, <1>5
  <2> QED BY <1>4, <2>1 DEF ToSet
<1> QED BY <1>6, <1>7, <1>8 DEF u

\* FlattenSeq concatenates the sequences one by one.
LEMMA FlattenSteps ==
  ASSUME NEW seqs, IsSequence(seqs), \A k \in DOMAIN seqs : IsSequence(seqs[k])
  PROVE  \E f : /\ f[0] = <<>> /\ f[Len(seqs)] = FlattenSeq(seqs)
                /\ \A k \in 0 .. Len(seqs) : IsSequence(f[k])
                /\ \A k \in 1 .. Len(seqs) : f[k] = f[k - 1] \o seqs[k]
<1> DEFINE n == Len(seqs)
           Good(f, k) == f = [i \in 1 .. k |-> IF i = 1 THEN seqs[i] ELSE f[i - 1] \o seqs[i]]
<1>1. n \in Nat /\ DOMAIN seqs = 1 .. n /\ (seqs # <<>> <=> n # 0)
  BY SequenceIs
<1>2. \A k \in Nat : \E f : Good(f, k)
  <2> DEFINE Bad == {k \in Nat : ~\E f : Good(f, k)}
  <2> SUFFICES ASSUME Bad # {} PROVE FALSE
    OBVIOUS
  <2>1. PICK m \in Bad : \A k \in Bad : m <= k
    BY LeastOf
  <2>2. m # 0
    <3>1. Good([i \in {} |-> 0], 0)
      OBVIOUS
    <3> QED BY <2>1, <3>1
  <2>3. m \in Nat /\ m - 1 \in Nat /\ m - 1 \notin Bad
    <3>1. m \in Nat /\ m - 1 \in Nat /\ m - 1 < m
      BY <2>2
    <3> HIDE DEF Bad
    <3> QED BY <2>1, <3>1
  <2>4. PICK g : Good(g, m - 1)
    BY <2>3
  <2> DEFINE f == [i \in 1 .. m |-> IF i < m THEN g[i]
                                    ELSE IF m = 1 THEN seqs[m] ELSE g[m - 1] \o seqs[m]]
  <2>5. \A i \in 1 .. m : f[i] = IF i = 1 THEN seqs[i] ELSE f[i - 1] \o seqs[i]
    <3> SUFFICES ASSUME NEW i \in 1 .. m
                 PROVE  f[i] = IF i = 1 THEN seqs[i] ELSE f[i - 1] \o seqs[i]
      OBVIOUS
    <3>1. CASE i < m
      <4>1. g[i] = IF i = 1 THEN seqs[i] ELSE g[i - 1] \o seqs[i]
        <5>1. i \in 1 .. m - 1
          BY <2>3, <3>1
        <5> QED BY <2>4, <5>1
      <4>2. f[i] = g[i] /\ (i # 1 => f[i - 1] = g[i - 1])
        BY <2>3, <3>1
      <4> QED BY <4>1, <4>2
    <3>2. CASE i = m
      <4>1. m # 1 => f[m - 1] = g[m - 1]
        BY <2>3
      <4>2. f[m] = IF m = 1 THEN seqs[m] ELSE g[m - 1] \o seqs[m]
        BY <2>3
      <4> HIDE DEF f
      <4> QED BY <3>2, <4>1, <4>2
    <3> QED BY <2>3, <3>1, <3>2
  <2>6. f = [i \in 1 .. m |-> f[i]]
    OBVIOUS
  <2> HIDE DEF f
  <2>7. Good(f, m)
    BY <2>5, <2>6
  <2> QED BY <2>1, <2>7
<1>3. CASE n = 0
  <2> DEFINE f == [i \in 0 .. 0 |-> <<>>]
  <2>1. FlattenSeq(seqs) = <<>>
    BY <1>1, <1>3 DEF FlattenSeq
  <2>2. f[0] = <<>> /\ f[Len(seqs)] = FlattenSeq(seqs) /\ 0 .. Len(seqs) = {0}
    BY <1>3, <2>1
  <2>3. 1 .. Len(seqs) = {}
    BY <1>3
  <2> HIDE DEF f
  <2> QED BY <2>2, <2>3, EmptyIsSequence
<1>4. CASE n # 0
  <2> DEFINE flat == CHOOSE f : Good(f, n)
             f == [i \in 0 .. n |-> IF i = 0 THEN <<>> ELSE flat[i]]
  <2>1. FlattenSeq(seqs) = flat[n]
    BY <1>4 DEF FlattenSeq
  <2>2. Good(flat, n)
    BY <1>1, <1>2
  <2> HIDE DEF flat
  <2>3. \A i \in 1 .. n : flat[i] = IF i = 1 THEN seqs[i] ELSE flat[i - 1] \o seqs[i]
    BY <2>2
  <2>4. f[0] = <<>> /\ f[n] = FlattenSeq(seqs)
    BY <1>1, <1>4, <2>1
  <2>5. ASSUME NEW k \in 1 .. n PROVE f[k] = f[k - 1] \o seqs[k] /\ IsSequence(seqs[k])
    <3>1. f[k] = flat[k] /\ (k # 1 => f[k - 1] = flat[k - 1]) /\ (k = 1 => f[k - 1] = <<>>)
      BY <1>1
    <3>2. IsSequence(seqs[k])
      BY <1>1
    <3>3. <<>> \o seqs[k] = seqs[k]
      BY <3>2, ConcatEmptySeq DEF IsSequence
    <3> HIDE DEF f
    <3> QED BY <2>3, <3>1, <3>2, <3>3
  <2> DEFINE S == {k \in 0 .. n : IsSequence(f[k])}
  <2>6. 0 \in S
    BY <1>1, <2>4, EmptyIsSequence
  <2> HIDE DEF f
  <2>7. \A k \in 1 .. n : k - 1 \in S => k \in S
    <3> SUFFICES ASSUME NEW k \in 1 .. n, k - 1 \in S PROVE k \in S
      OBVIOUS
    <3>1. IsSequence(f[k - 1])
      OBVIOUS
    <3>2. f[k] = f[k - 1] \o seqs[k] /\ IsSequence(seqs[k])
      BY <2>5
    <3>3. IsSequence(f[k - 1] \o seqs[k])
      BY <3>1, <3>2, CatIsSequence
    <3>4. IsSequence(f[k])
      BY <3>2, <3>3, Zenon
    <3> QED BY <1>1, <3>4
  <2>8. \A k \in 0 .. n : k \in S
    <3> HIDE DEF S
    <3> QED BY <1>1, <2>6, <2>7, UpTo
  <2> QED BY <2>4, <2>5, <2>8
<1> QED BY <1>3, <1>4

\* What FlattenSeq has at its places is what the sequences have at theirs, each
\* place once.
LEMMA FlattenOf ==
  ASSUME NEW seqs, IsSequence(seqs), \A k \in DOMAIN seqs : IsSequence(seqs[k])
  PROVE  /\ IsSequence(FlattenSeq(seqs))
         /\ \A i \in 1 .. Len(FlattenSeq(seqs)) :
              \E n \in DOMAIN seqs : \E k \in DOMAIN seqs[n] : FlattenSeq(seqs)[i] = seqs[n][k]
         /\ \A n \in DOMAIN seqs : \A k \in DOMAIN seqs[n] :
              \E i \in 1 .. Len(FlattenSeq(seqs)) : FlattenSeq(seqs)[i] = seqs[n][k]
         /\ (\A n, m \in DOMAIN seqs : \A k \in DOMAIN seqs[n], l \in DOMAIN seqs[m] :
               seqs[n][k] = seqs[m][l] => n = m /\ k = l)
            => \A i, j \in 1 .. Len(FlattenSeq(seqs)) :
                 FlattenSeq(seqs)[i] = FlattenSeq(seqs)[j] => i = j
<1>1. PICK f : /\ f[0] = <<>> /\ f[Len(seqs)] = FlattenSeq(seqs)
               /\ \A k \in 0 .. Len(seqs) : IsSequence(f[k])
               /\ \A k \in 1 .. Len(seqs) : f[k] = f[k - 1] \o seqs[k]
  BY FlattenSteps
<1>2. Len(seqs) \in Nat /\ DOMAIN seqs = 1 .. Len(seqs)
  BY SequenceIs
<1> DEFINE From(h) == \A i \in 1 .. Len(f[h]) :
             \E n \in 1 .. h : \E k \in DOMAIN seqs[n] : f[h][i] = seqs[n][k]
           Onto(h) == \A n \in 1 .. h : \A k \in DOMAIN seqs[n] :
             \E i \in 1 .. Len(f[h]) : f[h][i] = seqs[n][k]
           Distinct == \A n, m \in DOMAIN seqs :
             \A k \in DOMAIN seqs[n], l \in DOMAIN seqs[m] :
               seqs[n][k] = seqs[m][l] => n = m /\ k = l
           Once(h) == Distinct => \A i, j \in 1 .. Len(f[h]) : f[h][i] = f[h][j] => i = j
           S == {h \in 0 .. Len(seqs) : From(h) /\ Onto(h) /\ Once(h)}
<1>3. \A k \in 0 .. Len(seqs) : Len(f[k]) \in Nat
  BY <1>1, SequenceIs
<1>4. 0 \in S
  <2>1. Len(f[0]) = 0
    BY <1>1
  <2> QED BY <1>2, <2>1
<1>5. ASSUME NEW h \in 1 .. Len(seqs), h - 1 \in S PROVE h \in S
  <2> DEFINE a == Len(f[h - 1])
             b == Len(seqs[h])
  <2>1. h - 1 \in 0 .. Len(seqs) /\ h \in 0 .. Len(seqs) /\ h \in DOMAIN seqs
    BY <1>2
  <2>2. /\ a \in Nat /\ b \in Nat /\ DOMAIN seqs[h] = 1 .. b
        /\ Len(f[h]) = a + b
        /\ \A i \in 1 .. a : f[h][i] = f[h - 1][i]
        /\ \A i \in 1 .. b : f[h][a + i] = seqs[h][i]
    <3>1. IsSequence(f[h - 1]) /\ IsSequence(seqs[h]) /\ f[h] = f[h - 1] \o seqs[h]
      BY <1>1, <2>1
    <3>2. a \in Nat /\ b \in Nat /\ DOMAIN seqs[h] = 1 .. b
      BY <3>1, SequenceIs
    <3> DEFINE v == f[h - 1]
               w == seqs[h]
    <3>3. IsSequence(v) /\ IsSequence(w)
      BY <3>1
    <3>4. a = Len(v) /\ b = Len(w) /\ f[h] = v \o w
      BY <3>1
    <3> HIDE DEF v, w, a, b
    <3>5. /\ Len(v \o w) = Len(v) + Len(w)
          /\ \A i \in 1 .. Len(v) : (v \o w)[i] = v[i]
          /\ \A i \in 1 .. Len(w) : (v \o w)[Len(v) + i] = w[i]
      BY <3>3, CatIsSequence
    <3>6. /\ Len(f[h]) = a + b
          /\ \A i \in 1 .. a : f[h][i] = v[i]
          /\ \A i \in 1 .. b : f[h][a + i] = w[i]
      BY <3>4, <3>5
    <3> QED BY <3>2, <3>6 DEF v, w
  <2>3. From(h - 1) /\ Onto(h - 1) /\ Once(h - 1)
    BY <1>5
  <2> HIDE DEF S
  <2>4. \A i \in 1 .. a + b : i \in 1 .. a \/ \E k \in 1 .. b : i = a + k
    <3> HIDE DEF a, b
    <3> SUFFICES ASSUME NEW i \in 1 .. a + b, i \notin 1 .. a PROVE \E k \in 1 .. b : i = a + k
      OBVIOUS
    <3>1. i - a \in 1 .. b /\ i = a + (i - a)
      BY <2>2
    <3> QED BY <3>1
  <2>5. \A n \in 1 .. h : n = h \/ n \in 1 .. h - 1
    BY <1>2
  <2>6. \A n \in 1 .. h - 1 : n \in 1 .. h /\ n # h /\ n \in DOMAIN seqs
    BY <1>2
  <2> HIDE DEF a, b
  <2>7. From(h)
    <3> SUFFICES ASSUME NEW i \in 1 .. a + b
                 PROVE  \E n \in 1 .. h : \E k \in DOMAIN seqs[n] : f[h][i] = seqs[n][k]
      BY <2>2
    <3>1. CASE i \in 1 .. a
      <4>1. PICK n \in 1 .. h - 1 : \E k \in DOMAIN seqs[n] : f[h - 1][i] = seqs[n][k]
        BY <2>3, <3>1 DEF a
      <4> QED BY <2>2, <2>6, <3>1, <4>1
    <3>2. CASE \E k \in 1 .. b : i = a + k
      <4>1. h \in 1 .. h
        BY <1>2
      <4> QED BY <2>2, <3>2, <4>1
    <3> QED BY <2>4, <3>1, <3>2
  <2>8. Onto(h)
    <3> SUFFICES ASSUME NEW n \in 1 .. h, NEW k \in DOMAIN seqs[n]
                 PROVE  \E i \in 1 .. a + b : f[h][i] = seqs[n][k]
      BY <2>2
    <3>1. CASE n \in 1 .. h - 1
      <4>1. PICK i \in 1 .. a : f[h - 1][i] = seqs[n][k]
        BY <2>3, <3>1 DEF a
      <4>2. i \in 1 .. a + b
        BY <2>2
      <4> QED BY <2>2, <4>1, <4>2
    <3>2. CASE n = h
      <4>1. k \in 1 .. b /\ a + k \in 1 .. a + b
        BY <2>2, <3>2
      <4> QED BY <2>2, <3>2, <4>1
    <3> QED BY <2>5, <3>1, <3>2
  <2>9. Once(h)
    <3> SUFFICES ASSUME Distinct, NEW i \in 1 .. a + b, NEW j \in 1 .. a + b, f[h][i] = f[h][j]
                 PROVE  i = j
      BY <2>2
    <3>1. ASSUME NEW x \in 1 .. a, NEW k \in 1 .. b PROVE f[h][x] # f[h][a + k]
      <4>1. PICK n \in 1 .. h - 1 : \E l \in DOMAIN seqs[n] : f[h - 1][x] = seqs[n][l]
        BY <2>3 DEF a
      <4>2. PICK l \in DOMAIN seqs[n] : f[h][x] = seqs[n][l]
        BY <2>2, <4>1
      <4>3. f[h][a + k] = seqs[h][k] /\ n # h /\ n \in DOMAIN seqs /\ k \in DOMAIN seqs[h]
        BY <2>2, <2>6
      <4> QED BY <2>1, <4>2, <4>3
    <3>2. CASE i \in 1 .. a /\ j \in 1 .. a
      <4>1. f[h - 1][i] = f[h - 1][j]
        BY <2>2, <3>2
      <4> QED BY <2>3, <3>2, <4>1 DEF a
    <3>3. CASE \E k, l \in 1 .. b : i = a + k /\ j = a + l
      <4>1. PICK k \in 1 .. b, l \in 1 .. b : i = a + k /\ j = a + l
        BY <3>3
      <4>2. seqs[h][k] = seqs[h][l]
        BY <2>2, <4>1
      <4>3. k \in DOMAIN seqs[h] /\ l \in DOMAIN seqs[h]
        BY <2>2
      <4>4. k = l
        BY <2>1, <4>2, <4>3
      <4> QED BY <4>1, <4>4
    <3> HIDE DEF Distinct
    <3> QED BY <2>4, <3>1, <3>2, <3>3
  <2> QED BY <2>1, <2>7, <2>8, <2>9 DEF S
<1>6. Len(seqs) \in S
  <2> HIDE DEF S
  <2>1. \A h \in 0 .. Len(seqs) : h \in S
    BY <1>2, <1>4, <1>5, UpTo
  <2> QED BY <1>2, <2>1
<1>7. From(Len(seqs)) /\ Onto(Len(seqs)) /\ Once(Len(seqs)) /\ IsSequence(f[Len(seqs)])
  BY <1>1, <1>2, <1>6
<1>8. f[Len(seqs)] = FlattenSeq(seqs)
  BY <1>1
<1> DEFINE flat == FlattenSeq(seqs)
           d == DOMAIN seqs
<1>9. d = 1 .. Len(seqs) /\ f[Len(seqs)] = flat
  BY <1>2, <1>8
<1> HIDE DEF flat, d
<1>10. \A i \in 1 .. Len(flat) : \E n \in d : \E k \in DOMAIN seqs[n] : flat[i] = seqs[n][k]
  BY <1>7, <1>9
<1>11. \A n \in d : \A k \in DOMAIN seqs[n] : \E i \in 1 .. Len(flat) : flat[i] = seqs[n][k]
  BY <1>7, <1>9
<1> HIDE DEF Distinct
<1>12. Distinct => \A i, j \in 1 .. Len(flat) : flat[i] = flat[j] => i = j
  BY <1>7, <1>9
<1>13. IsSequence(flat)
  BY <1>7, <1>9, Zenon
<1> QED BY <1>10, <1>11, <1>12, <1>13 DEF flat, d, Distinct

\* FlattenSeq has the elements of the sequences, and no others.
LEMMA FlattenIsSequence ==
  ASSUME NEW seqs, IsSequence(seqs), \A k \in DOMAIN seqs : IsSequence(seqs[k])
  PROVE  /\ IsSequence(FlattenSeq(seqs))
         /\ ToSet(FlattenSeq(seqs)) = UNION {ToSet(seqs[k]) : k \in DOMAIN seqs}
<1> DEFINE flat == FlattenSeq(seqs)
<1>1. /\ IsSequence(flat)
      /\ \A i \in 1 .. Len(flat) :
           \E n \in DOMAIN seqs : \E k \in DOMAIN seqs[n] : flat[i] = seqs[n][k]
      /\ \A n \in DOMAIN seqs : \A k \in DOMAIN seqs[n] :
           \E i \in 1 .. Len(flat) : flat[i] = seqs[n][k]
  BY FlattenOf
<1> HIDE DEF flat
<1>2. DOMAIN flat = 1 .. Len(flat)
  BY <1>1, SequenceIs
<1>3. ToSet(flat) = UNION {ToSet(seqs[k]) : k \in DOMAIN seqs}
  BY <1>1, <1>2 DEF ToSet
<1> QED BY <1>1, <1>3 DEF flat

-----------------------------------------------------------------------------
(* What a sequence has at some places. *)

LEMMA SameSequence ==
  ASSUME NEW s, IsSequence(s), NEW t, IsSequence(t), Len(s) = Len(t),
         \A i \in 1 .. Len(s) : s[i] = t[i]
  PROVE  s = t
<1>1. Len(s) \in Nat /\ s = [i \in 1 .. Len(s) |-> s[i]] /\ t = [i \in 1 .. Len(t) |-> t[i]]
  BY SequenceIs
<1> QED BY <1>1

LEMMA ChosenIs ==
  ASSUME NEW n \in Nat, NEW s, NEW P, P \subseteq 1 .. n
  PROVE  /\ IsSequence(Chosen(s, P)) /\ Len(Chosen(s, P)) = Cardinality(P)
         /\ ToSet(Chosen(s, P)) = {s[i] : i \in P}
<1> DEFINE c == Cardinality(P)
           asc == Ascending(P)
           chosen == Chosen(s, P)
<1>1. /\ c \in Nat /\ asc \in [1 .. c -> P]
      /\ \A x \in P : \E i \in 1 .. c : asc[i] = x
  BY PlacesInOrder
<1>2. chosen = [k \in 1 .. c |-> s[asc[k]]]
  BY DEF Chosen
<1> HIDE DEF c, asc, chosen
<1>3. DOMAIN chosen = 1 .. c /\ \A k \in 1 .. c : chosen[k] = s[asc[k]]
  BY <1>2
<1>4. chosen = [k \in 1 .. c |-> chosen[k]]
  BY <1>2
<1>5. IsSequence(chosen) /\ Len(chosen) = c
  BY <1>1, <1>4, FunctionIsSequence
<1>6. ToSet(chosen) = {s[i] : i \in P}
  <2>1. \A x \in ToSet(chosen) : x \in {s[i] : i \in P}
    <3> SUFFICES ASSUME NEW k \in 1 .. c PROVE chosen[k] \in {s[i] : i \in P}
      BY <1>3 DEF ToSet
    <3>1. asc[k] \in P
      BY <1>1
    <3> QED BY <1>3, <3>1
  <2>2. \A i \in P : s[i] \in ToSet(chosen)
    BY <1>1, <1>3 DEF ToSet
  <2> QED BY <2>1, <2>2
<1> QED BY <1>5, <1>6 DEF c, chosen

LEMMA ChosenNone ==
  ASSUME NEW s
  PROVE  Chosen(s, {}) = <<>>
<1>1. IsSequence(Chosen(s, {})) /\ Len(Chosen(s, {})) = 0
  <2>1. {} \subseteq 1 .. 0 /\ 0 \in Nat
    OBVIOUS
  <2> QED BY <2>1, ChosenIs, FS_EmptySet
<1> QED BY <1>1, SequenceIs

\* One more place, after the others.
LEMMA ChosenGrows ==
  ASSUME NEW n \in Nat, NEW s, NEW P, P \subseteq 1 .. n
  PROVE  Chosen(s, P \cup {n + 1}) = Append(Chosen(s, P), s[n + 1])
<1> DEFINE Q == P \cup {n + 1}
           c == Cardinality(P)
           old == Ascending(P)
           new == Ascending(Q)
           g == [k \in 1 .. c + 1 |-> IF k <= c THEN old[k] ELSE n + 1]
           R == {x \in Q \X Q : x[1] < x[2]}
<1>1. /\ IsFiniteSet(P) /\ c \in Nat /\ old \in [1 .. c -> P]
      /\ \A x \in P : \E i \in 1 .. c : old[i] = x
      /\ \A i, j \in 1 .. c : old[i] < old[j] <=> i < j
  BY PlacesInOrder
<1>2. Q \subseteq 1 .. n + 1 /\ n + 1 \in Nat /\ n + 1 \notin P
  OBVIOUS
<1>3. Cardinality(Q) = c + 1
  BY <1>1, <1>2, FS_AddElement
<1>4. /\ new \in [1 .. c + 1 -> Q]
      /\ \A x \in Q : \E i \in 1 .. c + 1 : new[i] = x
      /\ \A i, j \in 1 .. c + 1 : new[i] < new[j] <=> i < j
  <2> HIDE DEF Q, c
  <2>1. /\ new \in [1 .. Cardinality(Q) -> Q]
        /\ \A x \in Q : \E i \in 1 .. Cardinality(Q) : new[i] = x
        /\ \A i, j \in 1 .. Cardinality(Q) : new[i] < new[j] <=> i < j
    BY <1>2, PlacesInOrder
  <2> QED BY <1>3, <2>1
<1> HIDE DEF c, old, new
<1>5. /\ g \in [1 .. c + 1 -> Q]
      /\ \A x \in Q : \E i \in 1 .. c + 1 : g[i] = x
      /\ \A i, j \in 1 .. c + 1 : g[i] < g[j] <=> i < j
  <2>1. \A k \in 1 .. c + 1 : k \in 1 .. c \/ k = c + 1
    BY <1>1
  <2>2. \A k \in 1 .. c : k \in 1 .. c + 1 /\ g[k] = old[k] /\ old[k] \in P /\ old[k] \in 1 .. n
    <3> SUFFICES ASSUME NEW k \in 1 .. c
                 PROVE  k \in 1 .. c + 1 /\ g[k] = old[k] /\ old[k] \in P /\ old[k] \in 1 .. n
      OBVIOUS
    <3>1. k \in 1 .. c + 1 /\ k <= c
      BY <1>1
    <3>2. old[k] \in P
      BY <1>1
    <3> QED BY <3>1, <3>2
  <2>3. c + 1 \in 1 .. c + 1 /\ g[c + 1] = n + 1
    BY <1>1
  <2>4. g \in [1 .. c + 1 -> Q]
    BY <2>1, <2>2, <2>3
  <2> HIDE DEF g
  <2>5. \A x \in Q : \E i \in 1 .. c + 1 : g[i] = x
    BY <1>1, <2>2, <2>3
  <2>6. \A i, j \in 1 .. c + 1 : g[i] < g[j] <=> i < j
    <3> SUFFICES ASSUME NEW i \in 1 .. c + 1, NEW j \in 1 .. c + 1 PROVE g[i] < g[j] <=> i < j
      OBVIOUS
    <3>1. CASE i \in 1 .. c /\ j \in 1 .. c
      BY <1>1, <2>2, <3>1
    <3>2. CASE i \in 1 .. c /\ j = c + 1
      BY <1>1, <2>2, <2>3, <3>2
    <3>3. CASE i = c + 1 /\ j \in 1 .. c
      BY <1>1, <2>2, <2>3, <3>3
    <3>4. CASE i = c + 1 /\ j = c + 1
      BY <2>3, <3>4
    <3> QED BY <2>1, <3>1, <3>2, <3>3, <3>4
  <2> QED BY <2>4, <2>5, <2>6
<1> HIDE DEF g
<1>6. new = g
  <2> DEFINE m == c + 1
  <2>5. m \in Nat
    BY <1>1
  <2>1. \A x, y \in Q : <<x, y>> \in R <=> x < y
    OBVIOUS
  <2> HIDE DEF R, Q
  <2>2. \A i, j \in 1 .. m : <<new[i], new[j]>> \in R <=> i < j
    BY <1>4, <2>1
  <2>3. \A i, j \in 1 .. m : <<g[i], g[j]>> \in R <=> i < j
    BY <1>5, <2>1
  <2>4. /\ new \in [1 .. m -> Q] /\ \A x \in Q : \E i \in 1 .. m : new[i] = x
        /\ g \in [1 .. m -> Q] /\ \A x \in Q : \E i \in 1 .. m : g[i] = x
    BY <1>4, <1>5
  <2> HIDE DEF m
  <2>6. Enumerates(new, m, Q, R) /\ Enumerates(g, m, Q, R)
    BY <2>2, <2>3, <2>4 DEF Enumerates
  <2> QED BY <2>5, <2>6, OneArrangement
<1> DEFINE before == Chosen(s, P)
           after == Chosen(s, Q)
<1>7. IsSequence(before) /\ Len(before) = c /\ \A k \in 1 .. c : before[k] = s[old[k]]
  <2>1. IsSequence(before) /\ Len(before) = Cardinality(P)
    BY ChosenIs
  <2>2. before = [k \in 1 .. Cardinality(P) |-> s[Ascending(P)[k]]]
    BY DEF Chosen
  <2> HIDE DEF before
  <2> QED BY <2>1, <2>2 DEF c, old
<1>8. IsSequence(after) /\ Len(after) = c + 1 /\ \A k \in 1 .. c + 1 : after[k] = s[g[k]]
  <2> HIDE DEF Q
  <2>1. IsSequence(after) /\ Len(after) = Cardinality(Q)
    BY <1>2, ChosenIs
  <2>2. after = [k \in 1 .. Cardinality(Q) |-> s[Ascending(Q)[k]]]
    BY DEF Chosen
  <2> HIDE DEF after
  <2> QED BY <1>3, <1>6, <2>1, <2>2 DEF new
<1> HIDE DEF before, after
<1> DEFINE grown == Append(before, s[n + 1])
<1>9. /\ IsSequence(grown) /\ Len(grown) = c + 1 /\ \A k \in 1 .. c : grown[k] = before[k]
      /\ grown[c + 1] = s[n + 1]
  BY <1>7, AppendIsSequence
<1> HIDE DEF grown
<1>10. \A k \in 1 .. c + 1 : after[k] = grown[k]
  <2> SUFFICES ASSUME NEW k \in 1 .. c + 1 PROVE after[k] = grown[k]
    OBVIOUS
  <2>1. CASE k \in 1 .. c
    <3>1. g[k] = old[k]
      BY <1>1, <2>1 DEF g
    <3> QED BY <1>7, <1>8, <1>9, <2>1, <3>1
  <2>2. CASE k = c + 1
    <3>1. g[k] = n + 1
      BY <1>1, <2>2 DEF g
    <3> QED BY <1>8, <1>9, <2>2, <3>1
  <2> QED BY <1>1, <2>1, <2>2
<1>11. after = grown
  BY <1>8, <1>9, <1>10, SameSequence
<1> QED BY <1>11 DEF after, before, grown

-----------------------------------------------------------------------------
(* Sums. *)

\* The element SumFunction takes first.
AnyOf(X) == CHOOSE x \in X : TRUE

\* f has natural numbers on S.
NumbersOn(f, S) == \A x \in S : f[x] \in Nat

\* sum is what the recursive function of SumFunction should be.
Folds(sum, f, S) ==
  /\ sum \in [SUBSET S -> Nat]
  /\ \A X \in SUBSET S : sum[X] = IF X = {} THEN 0 ELSE f[AnyOf(X)] + sum[X \ {AnyOf(X)}]

\* There is such a function.
LEMMA SumExists ==
  ASSUME NEW S, IsFiniteSet(S), NEW f, NumbersOn(f, S)
  PROVE  \E sum : Folds(sum, f, S)
<1> USE DEF NumbersOn, Folds
<1> DEFINE n == Cardinality(S)
           Small(k) == {X \in SUBSET S : Cardinality(X) <= k}
           Sum(g, X) == IF X = {} THEN 0 ELSE f[AnyOf(X)] + g[X \ {AnyOf(X)}]
           Good(k, g) == g \in [Small(k) -> Nat] /\ \A X \in Small(k) : g[X] = Sum(g, X)
           K == {k \in 0 .. n : \E g : Good(k, g)}
<1>1. n \in Nat
  BY FS_CardinalityType
<1>2. ASSUME NEW X \in SUBSET S
      PROVE  /\ IsFiniteSet(X) /\ Cardinality(X) \in Nat /\ Cardinality(X) <= n
             /\ Cardinality(X) = 0 <=> X = {}
             /\ X # {} => /\ AnyOf(X) \in X /\ X \ {AnyOf(X)} \in SUBSET S
                          /\ Cardinality(X \ {AnyOf(X)}) = Cardinality(X) - 1
  <2>1. IsFiniteSet(X) /\ Cardinality(X) \in Nat /\ Cardinality(X) <= n
    BY FS_Subset, FS_CardinalityType
  <2>2. Cardinality(X) = 0 <=> X = {}
    BY <2>1, FS_EmptySet
  <2>3. X # {} => AnyOf(X) \in X
    BY DEF AnyOf
  <2>4. X # {} => Cardinality(X \ {AnyOf(X)}) = Cardinality(X) - 1
    BY <2>1, <2>3, FS_RemoveElement
  <2> QED BY <2>1, <2>2, <2>3, <2>4
<1>3. 0 \in K
  <2>1. \A X \in Small(0) : X = {}
    <3> SUFFICES ASSUME NEW X \in Small(0) PROVE X = {}
      OBVIOUS
    <3>1. Cardinality(X) \in Nat /\ Cardinality(X) <= 0
      BY <1>2
    <3>2. Cardinality(X) = 0
      BY <3>1
    <3> QED BY <1>2, <3>2
  <2> DEFINE g == [X \in Small(0) |-> 0]
  <2>2. Good(0, g)
    BY <2>1
  <2> HIDE DEF g, Good
  <2> QED BY <1>1, <2>2
<1>4. ASSUME NEW k \in 1 .. n, k - 1 \in K PROVE k \in K
  <2>1. PICK g : Good(k - 1, g)
    BY <1>4
  <2> DEFINE h == [X \in Small(k) |-> Sum(g, X)]
  <2>2. \A X \in Small(k) : X # {} => X \ {AnyOf(X)} \in Small(k - 1)
    BY <1>2
  <2>3. \A X \in Small(k) : X # {} => g[X \ {AnyOf(X)}] \in Nat /\ f[AnyOf(X)] \in Nat
    BY <1>2, <2>1, <2>2
  <2>4. h \in [Small(k) -> Nat]
    <3> SUFFICES ASSUME NEW X \in Small(k) PROVE Sum(g, X) \in Nat
      OBVIOUS
    <3>1. CASE X = {}
      BY <3>1
    <3>2. CASE X # {}
      <4>1. g[X \ {AnyOf(X)}] \in Nat /\ f[AnyOf(X)] \in Nat
        BY <2>3, <3>2
      <4> QED BY <3>2, <4>1
    <3> QED BY <3>1, <3>2
  <2>5. \A X \in Small(k - 1) : X \in Small(k) /\ h[X] = g[X]
    <3> SUFFICES ASSUME NEW X \in Small(k - 1) PROVE X \in Small(k) /\ h[X] = g[X]
      OBVIOUS
    <3>1. X \in Small(k)
      <4>1. Cardinality(X) \in Nat /\ Cardinality(X) <= k - 1
        BY <1>2
      <4>2. Cardinality(X) <= k
        BY <4>1
      <4> QED BY <4>2
    <3>2. g[X] = Sum(g, X)
      BY <2>1
    <3> HIDE DEF Small, Sum
    <3> QED BY <3>1, <3>2
  <2>6. \A X \in Small(k) : h[X] = Sum(h, X)
    <3> SUFFICES ASSUME NEW X \in Small(k) PROVE h[X] = Sum(h, X)
      OBVIOUS
    <3>1. h[X] = Sum(g, X)
      OBVIOUS
    <3>2. X # {} => h[X \ {AnyOf(X)}] = g[X \ {AnyOf(X)}]
      BY <2>2, <2>5
    <3> HIDE DEF h
    <3> QED BY <3>1, <3>2
  <2> HIDE DEF h, Sum
  <2>7. Good(k, h)
    BY <2>4, <2>6
  <2> HIDE DEF Good
  <2> QED BY <1>1, <2>7
<1>5. PICK g : Good(n, g)
  <2> HIDE DEF K
  <2>1. \A k \in 0 .. n : k \in K
    <3> HIDE DEF n
    <3> QED BY <1>1, <1>3, <1>4, UpTo
  <2>2. n \in K
    BY <1>1, <2>1
  <2> QED BY <2>2 DEF K
<1>6. Small(n) = SUBSET S
  BY <1>2
<1> HIDE DEF Small
<1> QED BY <1>5, <1>6

\* sum gives the sum of f over each subset of S.
Adds(sum, f, S) ==
  /\ sum \in [SUBSET S -> Nat] /\ sum[{}] = 0
  /\ \A X \in SUBSET S : \A x \in X : sum[X] = f[x] + sum[X \ {x}]

\* In whatever order the elements are taken.
LEMMA SumIs ==
  ASSUME NEW S, IsFiniteSet(S), NEW f, NumbersOn(f, S)
  PROVE  \E sum : Adds(sum, f, S) /\ SumFunctionOnSet(f, S) = sum[S]
<1> DEFINE Next(sum, X) == IF X = {} THEN 0 ELSE f[AnyOf(X)] + sum[X \ {AnyOf(X)}]
           Is(sum) == sum = [X \in SUBSET S |-> Next(sum, X)]
           sum == CHOOSE sum : Is(sum)
           n == Cardinality(S)
<1>1. PICK g : Folds(g, f, S)
  BY SumExists
<1>2. Is(g)
  <2> HIDE DEF Next
  <2>1. g = [X \in SUBSET S |-> g[X]]
    BY <1>1 DEF Folds
  <2>2. \A X \in SUBSET S : g[X] = Next(g, X)
    BY <1>1 DEF Folds, Next
  <2> QED BY <2>1, <2>2
<1>3. Is(sum)
  <2> HIDE DEF Is
  <2> QED BY <1>2
<1>4. SumFunctionOnSet(f, S) = sum[S]
  BY DEF SumFunctionOnSet, FoldFunctionOnSet, MapThenFoldSet, AnyOf
<1> HIDE DEF sum
<1>5. \A X \in SUBSET S : sum[X] = Next(sum, X)
  <2> HIDE DEF Next
  <2> QED BY <1>3
<1>6. n \in Nat
  BY FS_CardinalityType
<1>7. ASSUME NEW X \in SUBSET S
      PROVE  /\ IsFiniteSet(X) /\ Cardinality(X) \in Nat /\ Cardinality(X) <= n
             /\ Cardinality(X) = 0 <=> X = {} 
             /\ X # {} => AnyOf(X) \in X
             /\ \A x \in X : X \ {x} \in SUBSET S /\ Cardinality(X \ {x}) = Cardinality(X) - 1
  <2>1. IsFiniteSet(X) /\ Cardinality(X) \in Nat /\ Cardinality(X) <= n
    BY FS_Subset, FS_CardinalityType
  <2>2. Cardinality(X) = 0 <=> X = {}
    BY <2>1, FS_EmptySet
  <2>3. X # {} => AnyOf(X) \in X
    BY DEF AnyOf
  <2>4. \A x \in X : X \ {x} \in SUBSET S /\ Cardinality(X \ {x}) = Cardinality(X) - 1
    BY <2>1, FS_RemoveElement
  <2> QED BY <2>1, <2>2, <2>3, <2>4
<1> DEFINE Of(k) == {X \in SUBSET S : Cardinality(X) <= k}
           Adds1(X) == sum[X] \in Nat /\ \A x \in X : sum[X] = f[x] + sum[X \ {x}]
           K == {k \in 0 .. n : \A X \in Of(k) : Adds1(X)}
<1>8. sum[{}] = 0
  BY <1>5
<1>9. 0 \in K
  <2>1. \A X \in Of(0) : X = {}
    <3> SUFFICES ASSUME NEW X \in Of(0) PROVE X = {}
      OBVIOUS
    <3>1. Cardinality(X) \in Nat /\ Cardinality(X) <= 0
      BY <1>7
    <3>2. Cardinality(X) = 0
      BY <3>1
    <3> QED BY <1>7, <3>2
  <2>2. Adds1({})
    BY <1>8
  <2> HIDE DEF Of, Adds1
  <2>3. \A X \in Of(0) : Adds1(X)
    BY <2>1, <2>2, Zenon
  <2> QED BY <1>6, <2>3
<1>10. ASSUME NEW k \in 1 .. n, k - 1 \in K PROVE k \in K
  <2> SUFFICES ASSUME NEW X \in Of(k) PROVE Adds1(X)
    BY <1>6
  <2>1. ASSUME NEW Y \in SUBSET S, NEW x \in X, Y \subseteq X \ {x}
        PROVE  sum[Y] \in Nat /\ \A y \in Y : sum[Y] = f[y] + sum[Y \ {y}]
    <3>1. Cardinality(X) \in Nat /\ Cardinality(X) <= k /\ Cardinality(X \ {x}) = Cardinality(X) - 1
          /\ IsFiniteSet(X \ {x}) /\ Cardinality(Y) \in Nat
      BY <1>7
    <3>2. Cardinality(Y) <= Cardinality(X \ {x})
      BY <2>1, <3>1, FS_Subset
    <3>3. Cardinality(Y) <= k - 1
      BY <3>1, <3>2
    <3>4. Y \in Of(k - 1)
      BY <3>3
    <3> HIDE DEF Of
    <3>5. Adds1(Y)
      BY <1>10, <3>4
    <3> QED BY <3>5
  <2>2. X \in SUBSET S
    OBVIOUS
  <2>3. CASE X = {}
    BY <1>8, <2>3
  <2>4. CASE X # {}
    <3> DEFINE c == AnyOf(X)
    <3>1. c \in X /\ sum[X] = f[c] + sum[X \ {c}]
      BY <1>5, <1>7, <2>2, <2>4
    <3> HIDE DEF c, Of
    <3>2. \A x \in X : sum[X \ {x}] \in Nat /\ f[x] \in Nat
      BY <2>1, <2>2 DEF NumbersOn
    <3>3. sum[X] \in Nat
      BY <3>1, <3>2
    <3>4. ASSUME NEW x \in X, x # c PROVE sum[X] = f[x] + sum[X \ {x}]
      <4> DEFINE Y == (X \ {c}) \ {x}
      <4>1. Y = (X \ {x}) \ {c} /\ x \in X \ {c} /\ c \in X \ {x}
        BY <3>1, <3>4
      <4>2. sum[X \ {c}] = f[x] + sum[Y]
        <5>1. X \ {c} \in SUBSET S
          BY <2>2
        <5> QED BY <2>1, <3>1, <4>1, <5>1
      <4>3. sum[X \ {x}] = f[c] + sum[Y]
        <5>1. X \ {x} \in SUBSET S
          BY <2>2
        <5> QED BY <2>1, <4>1, <5>1
      <4>4. sum[Y] \in Nat
        <5>1. Y \in SUBSET S /\ Y \subseteq X \ {x}
          BY <2>2
        <5> QED BY <2>1, <5>1
      <4> HIDE DEF Y
      <4> QED BY <3>1, <3>2, <4>2, <4>3, <4>4
    <3> QED BY <3>1, <3>3, <3>4
  <2> QED BY <2>3, <2>4
<1>11. \A X \in SUBSET S : Adds1(X)
  <2> HIDE DEF K
  <2>1. \A k \in 0 .. n : k \in K
    <3> HIDE DEF n
    <3> QED BY <1>6, <1>9, <1>10, UpTo
  <2> SUFFICES ASSUME NEW X \in SUBSET S PROVE Adds1(X)
    OBVIOUS
  <2>2. Cardinality(X) \in 0 .. n /\ X \in Of(Cardinality(X))
    BY <1>6, <1>7
  <2> HIDE DEF Of, Adds1
  <2>3. Cardinality(X) \in K
    BY <2>1, <2>2
  <2> QED BY <2>2, <2>3 DEF K
<1>12. sum \in [SUBSET S -> Nat]
  <2>1. sum = [X \in SUBSET S |-> sum[X]]
    <3> HIDE DEF Next
    <3> QED BY <1>3
  <2> QED BY <1>11, <2>1
<1>13. Adds(sum, f, S)
  BY <1>8, <1>11, <1>12 DEF Adds
<1> QED BY <1>4, <1>13

\* Over a sequence, the sums of its beginnings.
LEMMA SumSteps ==
  ASSUME NEW n \in Nat, NEW s, s \in [1 .. n -> Nat]
  PROVE  \E t \in [0 .. n -> Nat] :
           t[0] = 0 /\ t[n] = SumFunction(s) /\ \A k \in 1 .. n : t[k] = t[k - 1] + s[k]
<1> DEFINE S == 1 .. n
<1>1. IsFiniteSet(S) /\ NumbersOn(s, S)
  <2>1. IsFiniteSet(S)
    BY FS_Interval
  <2>2. NumbersOn(s, S)
    BY DEF NumbersOn
  <2> QED BY <2>1, <2>2
<1>2. PICK sum : Adds(sum, s, S) /\ SumFunctionOnSet(s, S) = sum[S]
  BY <1>1, SumIs
<1> DEFINE t == [k \in 0 .. n |-> sum[1 .. k]]
<1>3. \A k \in 0 .. n : 1 .. k \in SUBSET S
  OBVIOUS
<1>4. t \in [0 .. n -> Nat]
  BY <1>2, <1>3 DEF Adds
<1>5. t[0] = 0
  <2>1. 1 .. 0 = {}
    OBVIOUS
  <2> QED BY <1>2, <2>1 DEF Adds
<1>6. t[n] = SumFunction(s)
  BY <1>2 DEF SumFunction
<1>7. ASSUME NEW k \in 1 .. n PROVE t[k] = t[k - 1] + s[k]
  <2>1. k \in 1 .. k /\ (1 .. k) \ {k} = 1 .. k - 1 /\ 1 .. k \in SUBSET S
    OBVIOUS
  <2>2. sum[1 .. k] = s[k] + sum[1 .. k - 1]
    <3> DEFINE X == 1 .. k
    <3>1. sum[X] = s[k] + sum[X \ {k}]
      <4> HIDE DEF X, S
      <4> QED BY <1>2, <2>1 DEF X, Adds
    <3> QED BY <2>1, <3>1
  <2>3. t[k] \in Nat /\ t[k - 1] \in Nat /\ s[k] \in Nat
    BY <1>4
  <2>4. t[k] = sum[1 .. k] /\ t[k - 1] = sum[1 .. k - 1]
    OBVIOUS
  <2> HIDE DEF t
  <2> QED BY <2>2, <2>3, <2>4
<1> HIDE DEF t
<1> QED BY <1>4, <1>5, <1>6, <1>7

\* s is m numbers that add up to total.
AddsTo(s, m, total) == m \in Nat /\ s \in [1 .. m -> Nat] /\ SumFunction(s) = total

\* No numbers add up to nothing.
LEMMA NothingAdds == AddsTo(<<>>, 0, 0)
<1> DEFINE s == <<>>
<1>1. s \in [1 .. 0 -> Nat]
  OBVIOUS
<1> HIDE DEF s
<1>2. PICK t \in [0 .. 0 -> Nat] : t[0] = 0 /\ t[0] = SumFunction(s)
  BY <1>1, SumSteps
<1> QED BY <1>1, <1>2 DEF AddsTo, s

\* What a sequence put behind another adds.
LEMMA CatAdds ==
  ASSUME NEW s, NEW n, NEW x, AddsTo(s, n, x), NEW t, NEW m, NEW y, AddsTo(t, m, y)
  PROVE  AddsTo(s \o t, n + m, x + y)
<1>0. /\ n \in Nat /\ s \in [1 .. n -> Nat] /\ SumFunction(s) = x
      /\ m \in Nat /\ t \in [1 .. m -> Nat] /\ SumFunction(t) = y
  BY DEF AddsTo
<1> DEFINE u == s \o t
<1>1. /\ s \in Seq(Nat) /\ t \in Seq(Nat) /\ Len(s) = n /\ Len(t) = m
  BY <1>0
<1>2. /\ u \in Seq(Nat) /\ Len(u) = n + m
      /\ \A i \in 1 .. n + m : u[i] = IF i <= n THEN s[i] ELSE t[i - n]
  BY <1>0, <1>1, ConcatProperties
<1> HIDE DEF u
<1>3. u \in [1 .. n + m -> Nat] /\ n + m \in Nat
  BY <1>0, <1>2, LenProperties
<1>4. PICK a \in [0 .. n -> Nat] :
        a[0] = 0 /\ a[n] = SumFunction(s) /\ \A k \in 1 .. n : a[k] = a[k - 1] + s[k]
  BY <1>0, SumSteps
<1>5. PICK b \in [0 .. m -> Nat] :
        b[0] = 0 /\ b[m] = SumFunction(t) /\ \A k \in 1 .. m : b[k] = b[k - 1] + t[k]
  BY <1>0, SumSteps
<1> DEFINE h == n + m
<1>6. PICK c \in [0 .. h -> Nat] :
        c[0] = 0 /\ c[h] = SumFunction(u) /\ \A k \in 1 .. h : c[k] = c[k - 1] + u[k]
  <2> HIDE DEF h
  <2>1. h \in Nat /\ u \in [1 .. h -> Nat]
    BY <1>0, <1>3 DEF h
  <2> QED BY <2>1, SumSteps
<1> DEFINE A == {k \in 0 .. n : c[k] = a[k]}
           B == {k \in 0 .. m : c[n + k] = a[n] + b[k]}
<1>7. n \in A
  <2>1. 0 \in A
    BY <1>0, <1>4, <1>6
  <2>2. ASSUME NEW k \in 1 .. n, k - 1 \in A PROVE k \in A
    <3>1. k \in 1 .. h /\ u[k] = s[k]
      BY <1>0, <1>2
    <3>2. c[k] = c[k - 1] + u[k] /\ a[k] = a[k - 1] + s[k] /\ c[k - 1] = a[k - 1]
      BY <1>0, <1>4, <1>6, <2>2, <3>1
    <3> QED BY <3>1, <3>2
  <2> HIDE DEF A
  <2>3. \A k \in 0 .. n : k \in A
    BY <1>0, <2>1, <2>2, UpTo
  <2> QED BY <1>0, <2>3
<1>8. m \in B
  <2>1. 0 \in B
    BY <1>0, <1>4, <1>5, <1>7
  <2>2. ASSUME NEW k \in 1 .. m, k - 1 \in B PROVE k \in B
    <3>1. n + k \in 1 .. h /\ (n + k) - 1 = n + (k - 1) /\ (n + k) - n = k /\ ~(n + k <= n)
      BY <1>0
    <3>2. u[n + k] = t[k]
      BY <1>0, <1>2, <3>1
    <3>3. c[n + k] = c[n + (k - 1)] + u[n + k]
      BY <1>0, <1>6, <3>1
    <3>4. b[k] = b[k - 1] + t[k] /\ c[n + (k - 1)] = a[n] + b[k - 1]
      BY <1>0, <1>5, <2>2
    <3>5. a[n] \in Nat /\ b[k - 1] \in Nat /\ t[k] \in Nat
      BY <1>0, <1>4, <1>5
    <3>6. c[n + k] = a[n] + b[k]
      BY <3>2, <3>3, <3>4, <3>5
    <3> QED BY <3>6
  <2> HIDE DEF B
  <2>3. \A k \in 0 .. m : k \in B
    BY <1>0, <2>1, <2>2, UpTo
  <2> QED BY <1>0, <2>3
<1>9. SumFunction(u) = x + y
  BY <1>0, <1>4, <1>5, <1>6, <1>8
<1> QED BY <1>0, <1>3, <1>9 DEF AddsTo, u

\* One more number.
LEMMA AppendAdds ==
  ASSUME NEW s, NEW m, NEW a, AddsTo(s, m, a), NEW x \in Nat
  PROVE  AddsTo(Append(s, x), m + 1, a + x)
<1> DEFINE one == <<x>>
<1>1. one \in [1 .. 1 -> Nat] /\ one[1] = x
  OBVIOUS
<1>2. Append(s, x) = s \o one
  <2>1. m \in Nat /\ s \in [1 .. m -> Nat]
    BY DEF AddsTo
  <2>2. s \in Seq(Nat)
    BY <2>1
  <2> QED BY <2>2
<1> HIDE DEF one
<1>3. PICK n \in Nat : n = 1
  OBVIOUS
<1>4. SumFunction(one) = x
  <2>1. one \in [1 .. n -> Nat]
    BY <1>1, <1>3
  <2>2. PICK t \in [0 .. n -> Nat] :
          t[0] = 0 /\ t[n] = SumFunction(one) /\ \A k \in 1 .. n : t[k] = t[k - 1] + one[k]
    BY <2>1, SumSteps
  <2> QED BY <1>1, <1>3, <2>2
<1>5. AddsTo(one, 1, x)
  BY <1>1, <1>4 DEF AddsTo
<1> QED BY <1>2, <1>5, CatAdds

-----------------------------------------------------------------------------
(* Counting, and sorting. *)

\* f pairs the elements of S with those of T.
OneToOne(f, S, T) ==
  /\ f \in [S -> T] /\ \A y \in T : \E x \in S : f[x] = y
  /\ \A x, y \in S : f[x] = f[y] => x = y

LEMMA SameCount ==
  ASSUME NEW S, IsFiniteSet(S), NEW T, NEW f, OneToOne(f, S, T)
  PROVE  IsFiniteSet(T) /\ Cardinality(T) = Cardinality(S)
<1>1. f \in Surjection(S, T) /\ f \in Injection(S, T)
  BY DEF OneToOne, Surjection, Injection, IsInjective
<1> QED BY <1>1, FS_Surjection

\* A part of a set of which each element belongs to a numbered group: those of one
\* group, and those of the groups up to it.
Share(X, group, k) == {x \in X : group[x] = k}
Shares(X, group, k) == {x \in X : group[x] <= k}

LEMMA SharesGrow ==
  ASSUME NEW X, IsFiniteSet(X), NEW group, \A x \in X : group[x] \in Nat, NEW k \in Nat
  PROVE  /\ Cardinality(Shares(X, group, k)) \in Nat /\ Cardinality(Share(X, group, k + 1)) \in Nat
         /\ Cardinality(Shares(X, group, k + 1)) =
              Cardinality(Shares(X, group, k)) + Cardinality(Share(X, group, k + 1))
<1> DEFINE A == Shares(X, group, k)
           B == Share(X, group, k + 1)
           C == Shares(X, group, k + 1)
<1>1. A \subseteq X /\ B \subseteq X
  BY DEF Shares, Share
<1>2. C = A \cup B /\ A \cap B = {}
  <2>1. \A x \in X : /\ group[x] <= k + 1 <=> group[x] <= k \/ group[x] = k + 1
                     /\ ~(group[x] <= k /\ group[x] = k + 1)
    OBVIOUS
  <2> QED BY <2>1 DEF Shares, Share
<1> HIDE DEF A, B, C
<1>3. /\ IsFiniteSet(A) /\ IsFiniteSet(B)
      /\ Cardinality(A) \in Nat /\ Cardinality(B) \in Nat
  BY <1>1, FS_Subset, FS_CardinalityType
<1>4. Cardinality(A \cup B) = Cardinality(A) + Cardinality(B) - Cardinality(A \cap B)
  BY <1>3, FS_Union
<1>5. Cardinality(A \cap B) = 0
  BY <1>2, FS_EmptySet
<1>6. Cardinality(C) = Cardinality(A) + Cardinality(B)
  BY <1>2, <1>3, <1>4, <1>5
<1> QED BY <1>3, <1>6 DEF A, B, C

\* The values of f on a finite set are finitely many.
LEMMA ImageIsFinite ==
  ASSUME NEW S, IsFiniteSet(S), NEW f
  PROVE  IsFiniteSet({f[x] : x \in S})
<1> DEFINE T == {f[x] : x \in S}
           g == [x \in S |-> f[x]]
<1>1. g \in Surjection(S, T)
  BY DEF Surjection
<1> HIDE DEF g, T
<1>2. IsFiniteSet(T)
  BY <1>1, FS_Surjection
<1> QED BY <1>2 DEF T

\* The values sorted are the values rearranged.
LEMMA SortedIs ==
  ASSUME NEW n \in Nat, NEW v \in [1 .. n -> Int]
  PROVE  /\ Sorted(v) \in [1 .. n -> Int]
         /\ \E p \in [1 .. n -> 1 .. n] :
              /\ \A i \in 1 .. n : \E k \in 1 .. n : p[k] = i
              /\ \A k \in 1 .. n : Sorted(v)[k] = v[p[k]]
         /\ \A i, j \in 1 .. n : i <= j => Sorted(v)[i] <= Sorted(v)[j]
<1> DEFINE ranks == {<<v[i], i>> : i \in 1 .. n}
           ranked == Ordered(ranks, Precedes)
           pair == [i \in 1 .. n |-> <<v[i], i>>]
           p == [k \in 1 .. n |-> ranked[k][2]]
           sorted == Sorted(v)
<1>1. IsFiniteSet(ranks) /\ Cardinality(ranks) = n /\ ranks \subseteq Int \X Int
  <2>1. OneToOne(pair, 1 .. n, ranks)
    BY DEF OneToOne
  <2>2. IsFiniteSet(1 .. n) /\ Cardinality(1 .. n) = n
    BY FS_Interval
  <2>3. ranks \subseteq Int \X Int
    OBVIOUS
  <2> HIDE DEF ranks, pair
  <2> QED BY <2>1, <2>2, <2>3, SameCount
<1>2. \A x \in ranks : x[2] \in 1 .. n /\ x[1] = v[x[2]] /\ x[1] \in Int
  OBVIOUS
<1>3. \A i \in 1 .. n : \E x \in ranks : x[2] = i
  <2> SUFFICES ASSUME NEW i \in 1 .. n PROVE \E x \in ranks : x[2] = i
    OBVIOUS
  <2>1. <<v[i], i>> \in ranks /\ <<v[i], i>>[2] = i
    OBVIOUS
  <2> QED BY <2>1
<1>4. sorted = [k \in DOMAIN ranked |-> ranked[k][1]]
  <2>1. DOMAIN v = 1 .. n
    OBVIOUS
  <2> QED BY <2>1 DEF Sorted
<1> HIDE DEF ranks, sorted
<1>5. /\ ranked \in [1 .. n -> ranks]
      /\ \A x \in ranks : \E i \in 1 .. n : ranked[i] = x
      /\ \A i, j \in 1 .. n : Precedes(ranked[i], ranked[j]) <=> i < j
      /\ \A x, y \in ranks : Precedes(x, y) <=> x[1] < y[1] \/ (x[1] = y[1] /\ x[2] < y[2])
  <2>1. /\ ranked \in [1 .. Cardinality(ranks) -> ranks]
        /\ \A x \in ranks : \E i \in 1 .. Cardinality(ranks) : ranked[i] = x
        /\ \A i, j \in 1 .. Cardinality(ranks) : Precedes(ranked[i], ranked[j]) <=> i < j
        /\ \A x, y \in ranks : Precedes(x, y) <=> x[1] < y[1] \/ (x[1] = y[1] /\ x[2] < y[2])
    BY <1>1, PairsAscend
  <2> HIDE DEF ranked
  <2> QED BY <1>1, <2>1
<1> HIDE DEF ranked
<1>6. \A k \in 1 .. n : /\ ranked[k] \in ranks /\ sorted[k] = ranked[k][1]
                        /\ p[k] \in 1 .. n /\ sorted[k] = v[p[k]] /\ sorted[k] \in Int
  <2>1. DOMAIN ranked = 1 .. n
    BY <1>5
  <2> SUFFICES ASSUME NEW k \in 1 .. n
               PROVE  /\ ranked[k] \in ranks /\ sorted[k] = ranked[k][1]
                      /\ p[k] \in 1 .. n /\ sorted[k] = v[p[k]] /\ sorted[k] \in Int
    OBVIOUS
  <2>2. ranked[k] \in ranks /\ sorted[k] = ranked[k][1] /\ p[k] = ranked[k][2]
    BY <1>4, <1>5, <2>1
  <2> HIDE DEF p
  <2> QED BY <1>2, <2>2
<1>7. sorted \in [1 .. n -> Int]
  <2>1. DOMAIN ranked = 1 .. n
    BY <1>5
  <2> QED BY <1>4, <1>6, <2>1
<1>8. \A i \in 1 .. n : \E k \in 1 .. n : p[k] = i
  <2> SUFFICES ASSUME NEW i \in 1 .. n PROVE \E k \in 1 .. n : p[k] = i
    OBVIOUS
  <2>1. PICK x \in ranks : x[2] = i
    BY <1>3
  <2>2. PICK k \in 1 .. n : ranked[k] = x
    BY <1>5
  <2>3. p[k] = i
    BY <2>1, <2>2
  <2> QED BY <2>3
<1>9. p \in [1 .. n -> 1 .. n]
  BY <1>6
<1> HIDE DEF p
<1>10. \A i, j \in 1 .. n : i <= j => sorted[i] <= sorted[j]
  <2> SUFFICES ASSUME NEW i \in 1 .. n, NEW j \in 1 .. n, i <= j PROVE sorted[i] <= sorted[j]
    OBVIOUS
  <2>1. CASE i = j
    BY <1>6, <2>1
  <2>2. CASE i < j
    <3>1. Precedes(ranked[i], ranked[j])
      BY <1>5, <2>2
    <3>2. ranked[i][1] <= ranked[j][1]
      BY <1>2, <1>5, <1>6, <3>1
    <3> QED BY <1>6, <3>2
  <2> QED BY <2>1, <2>2
<1>11. \A k \in 1 .. n : sorted[k] = v[p[k]]
  BY <1>6
<1> QED BY <1>7, <1>8, <1>9, <1>10, <1>11 DEF sorted

=============================================================================
