------------------------- MODULE HistorySeriesProofs -------------------------
(***************************************************************************)
(* Lemmas about the operators of HistorySeries, for recordings and         *)
(* samples of any length: what arranging and picking do, and that          *)
(* answers, joined records and windows tell the state in force; and about  *)
(* the sums that hours are made of.                                        *)
(***************************************************************************)
EXTENDS HistorySeries, Functions, FiniteSetTheorems, SequenceTheorems, TLAPS

-----------------------------------------------------------------------------
(* Numbers and functions. *)

\* A set of naturals that is not empty has a least element.
LEMMA LeastNat ==
  ASSUME NEW S \in SUBSET Nat, S # {}
  PROVE  \E m \in S : \A s \in S : m <= s
<1>1. PICK m \in S : \A s \in S : ~(<<s, m>> \in OpToRel(<, Nat))
  BY NatLessThanWellFounded, WFMin
<1>2. \A s \in S : ~(s < m)
  BY <1>1 DEF OpToRel
<1>3. QED
  BY <1>2

LEMMA TabulatedIs ==
  ASSUME NEW f
  PROVE  Tabulated(f) = f
BY DEF Tabulated

LEMMA OverIs ==
  ASSUME NEW f, NEW g
  PROVE  /\ DOMAIN Over(f, g) = DOMAIN f \cup DOMAIN g
         /\ \A x \in DOMAIN f : Over(f, g)[x] = f[x]
         /\ \A x \in DOMAIN g \ DOMAIN f : Over(f, g)[x] = g[x]
BY TabulatedIs DEF Over

-----------------------------------------------------------------------------
(* Arranging the elements of a finite set. *)

Orders(R, S) ==
  /\ \A x \in S : <<x, x>> \notin R
  /\ \A x, y, z \in S : <<x, y>> \in R /\ <<y, z>> \in R => <<x, z>> \in R
  /\ \A x, y \in S : x = y \/ <<x, y>> \in R \/ <<y, x>> \in R

\* The number of elements before an element tells it from every other one.
LEMMA RankOrders ==
  ASSUME NEW S, NEW R, IsFiniteSet(S), Orders(R, S)
  PROVE  LET Rank(x) == Cardinality({y \in S : <<y, x>> \in R})
         IN /\ \A x \in S : Rank(x) \in 0..Cardinality(S) - 1
            /\ \A x, z \in S : <<x, z>> \in R => Rank(x) < Rank(z)
<1> DEFINE Below(x) == {y \in S : <<y, x>> \in R}
<1>1. Cardinality(S) \in Nat
  BY FS_CardinalityType
<1>2. \A x \in S : IsFiniteSet(Below(x)) /\ Cardinality(Below(x)) \in Nat
  BY FS_Subset, FS_CardinalityType
<1>3. ASSUME NEW x \in S
      PROVE  Cardinality(Below(x)) < Cardinality(S)
  <2>1. Below(x) \in SUBSET S /\ Below(x) # S
    BY DEF Orders
  <2>2. Cardinality(Below(x)) <= Cardinality(S) /\ Cardinality(Below(x)) # Cardinality(S)
    BY <2>1, FS_Subset
  <2>3. QED
    BY <1>1, <1>2, <2>2
<1>4. ASSUME NEW x \in S, NEW z \in S, <<x, z>> \in R
      PROVE  Cardinality(Below(x)) < Cardinality(Below(z))
  <2>1. Below(x) \in SUBSET Below(z) /\ Below(x) # Below(z)
    BY <1>4 DEF Orders
  <2>2. Cardinality(Below(x)) <= Cardinality(Below(z))
        /\ Cardinality(Below(x)) # Cardinality(Below(z))
    BY <1>2, <2>1, FS_Subset
  <2>3. QED
    BY <1>2, <2>2
<1>5. \A x \in S : Cardinality(Below(x)) \in 0..Cardinality(S) - 1
  BY <1>1, <1>2, <1>3
<1>6. QED
  BY <1>4, <1>5

\* Every element has one place, and the places follow the order.
LEMMA ArrangedIs ==
  ASSUME NEW S, NEW R, IsFiniteSet(S), Orders(R, S)
  PROVE  /\ Cardinality(S) \in Nat
         /\ Arranged(S, R) \in [1..Cardinality(S) -> S]
         /\ \A x \in S : \E k \in 1..Cardinality(S) : Arranged(S, R)[k] = x
         /\ \A j, k \in 1..Cardinality(S) :
              j < k => <<Arranged(S, R)[j], Arranged(S, R)[k]>> \in R
<1> DEFINE n == Cardinality(S)
           Rank(x) == Cardinality({y \in S : <<y, x>> \in R})
           r == [x \in S |-> Rank(x)]
           f == [k \in 1..n |-> CHOOSE x \in S : Rank(x) = k - 1]
<1>0. n \in Nat
  BY FS_CardinalityType
<1>1. /\ \A x \in S : Rank(x) \in 0..n - 1
      /\ \A x, z \in S : <<x, z>> \in R => Rank(x) < Rank(z)
  BY RankOrders
<1> HIDE DEF n, Rank
<1>a. ASSUME NEW x \in S, NEW z \in S, Rank(x) = Rank(z)
      PROVE  x = z
  <2>1. Rank(x) \in Int /\ ~(Rank(x) < Rank(z)) /\ ~(Rank(z) < Rank(x))
    BY <1>0, <1>1, <1>a
  <2>2. <<x, z>> \notin R /\ <<z, x>> \notin R
    BY <1>1, <2>1
  <2>3. QED
    BY <2>2 DEF Orders
<1>2. r \in Injection(S, 0..n - 1)
  <2>1. r \in [S -> 0..n - 1]
    BY <1>1
  <2>2. \A x, z \in S : r[x] = r[z] => x = z
    BY <1>a
  <2>3. QED
    BY <2>1, <2>2 DEF Injection, IsInjective
<1>3. IsFiniteSet(0..n - 1) /\ Cardinality(0..n - 1) = n
  BY <1>0, FS_Interval
<1>4. r \in Surjection(S, 0..n - 1)
  BY <1>2, <1>3, FS_Injection DEF n
<1>5. \A m \in 0..n - 1 : \E x \in S : Rank(x) = m
  BY <1>4 DEF Surjection
<1>6. \A k \in 1..n : k - 1 \in 0..n - 1
  BY <1>0
<1>7. \A k \in 1..n : \E x \in S : Rank(x) = k - 1
  BY <1>5, <1>6
<1>8. \A k \in 1..n : f[k] \in S /\ Rank(f[k]) = k - 1
  BY <1>7
<1>9. Arranged(S, R) = f
  BY TabulatedIs DEF Arranged, n, Rank
<1>10. f \in [1..n -> S]
  BY <1>8
<1> HIDE DEF f
<1>11. ASSUME NEW x \in S
       PROVE  \E k \in 1..n : f[k] = x
  <2>1. Rank(x) + 1 \in 1..n
    BY <1>0, <1>1
  <2>2. f[Rank(x) + 1] \in S /\ Rank(f[Rank(x) + 1]) = Rank(x)
    BY <1>0, <1>1, <1>8, <2>1
  <2>3. f[Rank(x) + 1] = x
    BY <1>a, <2>2
  <2>4. QED
    BY <2>1, <2>3
<1>12. ASSUME NEW j \in 1..n, NEW k \in 1..n, j < k
       PROVE  <<f[j], f[k]>> \in R
  <2>1. f[j] \in S /\ f[k] \in S /\ Rank(f[j]) = j - 1 /\ Rank(f[k]) = k - 1
    BY <1>8
  <2>2. Rank(f[j]) < Rank(f[k])
    BY <1>0, <1>12, <2>1
  <2>3. f[j] # f[k] /\ ~(<<f[k], f[j]>> \in R)
    BY <1>0, <1>1, <2>1, <2>2
  <2>4. QED
    BY <2>1, <2>3 DEF Orders
<1>13. QED
  BY <1>0, <1>9, <1>10, <1>11, <1>12 DEF n

LEMMA AscendingIs ==
  ASSUME NEW I \in SUBSET Int, IsFiniteSet(I)
  PROVE  /\ Cardinality(I) \in Nat
         /\ Ascending(I) \in [1..Cardinality(I) -> I]
         /\ \A x \in I : \E k \in 1..Cardinality(I) : Ascending(I)[k] = x
         /\ \A j, k \in 1..Cardinality(I) : j < k => Ascending(I)[j] < Ascending(I)[k]
<1> DEFINE R == {x \in I \X I : x[1] < x[2]}
<1>1. \A i, j \in I : <<i, j>> \in R <=> i < j
  OBVIOUS
<1>2. Orders(R, I)
  BY <1>1 DEF Orders
<1>3. Ascending(I) = Arranged(I, R)
  BY DEF Ascending
<1> HIDE DEF R
<1>4. /\ Cardinality(I) \in Nat
      /\ Ascending(I) \in [1..Cardinality(I) -> I]
      /\ \A x \in I : \E k \in 1..Cardinality(I) : Ascending(I)[k] = x
      /\ \A j, k \in 1..Cardinality(I) : j < k => <<Ascending(I)[j], Ascending(I)[k]>> \in R
  BY <1>2, <1>3, ArrangedIs
<1>5. \A j, k \in 1..Cardinality(I) : Ascending(I)[j] \in I /\ Ascending(I)[k] \in I
  BY <1>4
<1>6. \A j, k \in 1..Cardinality(I) : j < k => Ascending(I)[j] < Ascending(I)[k]
  BY <1>1, <1>4, <1>5
<1>7. QED
  BY <1>4, <1>6

\* The greatest and the least of finitely many integers.
LEMMA MaxIs ==
  ASSUME NEW I \in SUBSET Int, IsFiniteSet(I), I # {}
  PROVE  Max(I) \in I /\ \A x \in I : x <= Max(I)
<1>1. PICK x \in I : TRUE
  OBVIOUS
<1>2. PICK m \in 1..Cardinality(I) : Ascending(I)[m] = x
  BY AscendingIs
<1>3. /\ Cardinality(I) \in Nat /\ Cardinality(I) \in 1..Cardinality(I)
  BY <1>2, AscendingIs
<1>4. \A y \in I : Ascending(I)[Cardinality(I)] >= y
  <2>1. TAKE y \in I
  <2>2. PICK k \in 1..Cardinality(I) : Ascending(I)[k] = y
    BY AscendingIs
  <2>3. k = Cardinality(I) \/ k < Cardinality(I)
    BY <1>3
  <2>4. Ascending(I)[Cardinality(I)] \in I /\ Ascending(I)[k] \in I
    BY <1>3, AscendingIs
  <2>5. k < Cardinality(I) => Ascending(I)[k] < Ascending(I)[Cardinality(I)]
    BY <1>3, AscendingIs
  <2>6. \A z \in I : z \in Int
    OBVIOUS
  <2>7. CASE k = Cardinality(I)
    <3>1. Ascending(I)[Cardinality(I)] = y
      BY <2>2, <2>7
    <3>2. QED
      BY <2>6, <3>1
  <2>8. CASE k < Cardinality(I)
    <3>1. Ascending(I)[k] \in Int /\ Ascending(I)[Cardinality(I)] \in Int
      BY <2>4, <2>6
    <3>2. Ascending(I)[k] < Ascending(I)[Cardinality(I)]
      BY <2>5, <2>8
    <3>3. y < Ascending(I)[Cardinality(I)]
      BY <2>2, <3>2
    <3>4. QED
      BY <2>6, <3>1, <3>3
  <2>9. QED
    BY <2>3, <2>7, <2>8
<1>5. Ascending(I)[Cardinality(I)] \in I
  BY <1>3, AscendingIs
<1>6. QED
  BY <1>4, <1>5 DEF Max

LEMMA MinIs ==
  ASSUME NEW I \in SUBSET Int, IsFiniteSet(I), I # {}
  PROVE  Min(I) \in I /\ \A x \in I : Min(I) <= x
<1>1. PICK x \in I : TRUE
  OBVIOUS
<1>2. PICK m \in 1..Cardinality(I) : Ascending(I)[m] = x
  BY AscendingIs
<1>3. /\ Cardinality(I) \in Nat /\ 1 \in 1..Cardinality(I)
  BY <1>2, AscendingIs
<1>4. \A y \in I : Ascending(I)[1] <= y
  <2>1. TAKE y \in I
  <2>2. PICK k \in 1..Cardinality(I) : Ascending(I)[k] = y
    BY AscendingIs
  <2>3. k = 1 \/ 1 < k
    BY <1>3
  <2>4. Ascending(I)[1] \in I /\ Ascending(I)[k] \in I
    BY <1>3, AscendingIs
  <2>5. 1 < k => Ascending(I)[1] < Ascending(I)[k]
    BY <1>3, AscendingIs
  <2>6. \A z \in I : z \in Int
    OBVIOUS
  <2>7. CASE k = 1
    <3>1. Ascending(I)[1] = y
      BY <2>2, <2>7
    <3>2. QED
      BY <2>6, <3>1
  <2>8. CASE 1 < k
    <3>1. Ascending(I)[k] \in Int /\ Ascending(I)[1] \in Int
      BY <2>4, <2>6
    <3>2. Ascending(I)[1] < Ascending(I)[k]
      BY <2>5, <2>8
    <3>3. Ascending(I)[1] < y
      BY <2>2, <3>2
    <3>4. QED
      BY <2>6, <3>1, <3>3
  <2>9. QED
    BY <2>3, <2>7, <2>8
<1>5. Ascending(I)[1] \in I
  BY <1>3, AscendingIs
<1>6. QED
  BY <1>4, <1>5 DEF Min

\* A subset of the positions of a sequence is a finite set of integers.
LEMMA PlacesFinite ==
  ASSUME NEW n \in Nat, NEW I \in SUBSET (1..n)
  PROVE  I \in SUBSET Int /\ IsFiniteSet(I)
<1>1. IsFiniteSet(1..n)
  BY FS_Interval
<1>2. IsFiniteSet(I)
  BY <1>1, FS_Subset
<1>3. I \in SUBSET Int
  OBVIOUS
<1>4. QED
  BY <1>2, <1>3

\* Picking keeps the order of the sequence and takes every wanted position once.
LEMMA PickedIs ==
  ASSUME NEW s, NEW I \in SUBSET Int, IsFiniteSet(I)
  PROVE  /\ DOMAIN Picked(s, I) = 1..Cardinality(I)
         /\ \A k \in 1..Cardinality(I) : Picked(s, I)[k] = s[Ascending(I)[k]]
         /\ \A T : (\A i \in I : s[i] \in T) => Picked(s, I) \in Seq(T)
<1> DEFINE n == Cardinality(I)
           p == Ascending(I)
           q == [k \in 1..n |-> s[p[k]]]
<1>1. n \in Nat /\ p \in [1..n -> I]
  BY AscendingIs
<1>2. Picked(s, I) = q
  BY <1>1, TabulatedIs DEF Picked
<1>3. \A k \in 1..n : q[k] = s[p[k]] /\ p[k] \in I
  BY <1>1
<1>4. ASSUME NEW T, \A i \in I : s[i] \in T
      PROVE  q \in Seq(T)
  <2>1. \A k \in 1..n : s[p[k]] \in T
    BY <1>3, <1>4
  <2>2. q \in [1..n -> T]
    BY <2>1
  <2>3. QED
    BY <1>1, <2>2
<1>5. QED
  BY <1>2, <1>3, <1>4

-----------------------------------------------------------------------------
(* Lists of records. *)

Times(s) == {s[i].at : i \in DOMAIN s}
Repeats(s) == \E i, j \in DOMAIN s : i # j /\ s[i].at = s[j].at
InOrder(s) == \A i, j \in DOMAIN s : i < j => s[i].at <= s[j].at

\* The first position with a time.
LEMMA PositionIs ==
  ASSUME NEW T, NEW s \in Seq(T), NEW t, Holds(s, t)
  PROVE  /\ Position(s, t) \in DOMAIN s
         /\ s[Position(s, t)].at = t
         /\ \A i \in DOMAIN s : s[i].at = t => Position(s, t) <= i
<1> DEFINE I == {i \in DOMAIN s : s[i].at = t}
<1>1. Len(s) \in Nat /\ I \in SUBSET (1..Len(s)) /\ I # {}
  BY DEF Holds
<1>2. I \in SUBSET Int /\ IsFiniteSet(I)
  BY <1>1, PlacesFinite
<1>3. Min(I) \in I /\ \A i \in I : Min(I) <= i
  BY <1>1, <1>2, MinIs
<1>4. QED
  BY <1>3 DEF Position

\* What _fetch_records adds to the records: the new times, and nothing twice that
\* was not there twice.
LEMMA JoinedIs ==
  ASSUME NEW T, NEW records \in Seq(T), NEW answer \in Seq(T)
  PROVE  /\ Joined(records, answer) \in Seq(T)
         /\ Times(Joined(records, answer)) = Times(records) \cup Times(answer)
         /\ Repeats(Joined(records, answer)) <=> Repeats(records) \/ Repeats(answer)
<1> DEFINE Latest(r) == IF Holds(answer, r.at) THEN answer[Position(answer, r.at)] ELSE r
           added == {i \in DOMAIN answer : \/ ~Holds(records, answer[i].at)
                                           \/ Position(answer, answer[i].at) < i}
           old == [i \in DOMAIN records |-> Latest(records[i])]
           new == Picked(answer, added)
           n == Len(records)
           m == Cardinality(added)
           p == Ascending(added)
           j == Joined(records, answer)
<1>1. n \in Nat /\ DOMAIN records = 1..n /\ Len(answer) \in Nat /\ DOMAIN answer = 1..Len(answer)
  OBVIOUS
<1>2. \A i \in 1..n : Latest(records[i]) \in T /\ Latest(records[i]).at = records[i].at
  BY <1>1, PositionIs
<1>3. old \in [1..n -> T]
  BY <1>1, <1>2
<1>4. old \in Seq(T) /\ Len(old) = n
  BY <1>1, <1>3, LenProperties
<1>5. added \in SUBSET Int /\ IsFiniteSet(added) /\ added \in SUBSET DOMAIN answer
  BY <1>1, PlacesFinite
<1>6. /\ m \in Nat /\ p \in [1..m -> added]
      /\ \A x \in added : \E k \in 1..m : p[k] = x
      /\ \A k, l \in 1..m : k < l => p[k] < p[l]
  BY <1>5, AscendingIs
<1>7. /\ DOMAIN new = 1..m /\ new \in Seq(T)
      /\ \A k \in 1..m : new[k] = answer[p[k]]
  <2>1. \A i \in added : answer[i] \in T
    BY <1>1
  <2>2. QED
    BY <1>5, <2>1, PickedIs
<1>8. j = old \o new
  BY DEF Joined
<1>9. Len(new) = m
  BY <1>6, <1>7, LenProperties
<1> HIDE DEF old, new, j, p, m, added, n, Latest
<1>10. /\ j \in Seq(T) /\ Len(j) = n + m
       /\ \A i \in 1..n : j[i] = old[i]
       /\ \A k \in 1..m : j[n + k] = new[k]
  <2>1. /\ j \in Seq(T) /\ Len(j) = Len(old) + Len(new)
        /\ \A i \in 1..Len(old) + Len(new) :
             j[i] = IF i <= Len(old) THEN old[i] ELSE new[i - Len(old)]
    BY <1>4, <1>7, <1>8, ConcatProperties
  <2>2. /\ j \in Seq(T) /\ Len(j) = n + m
        /\ \A i \in 1..n + m : j[i] = IF i <= n THEN old[i] ELSE new[i - n]
    <3>1. Len(old) = n /\ Len(new) = m
      BY <1>4, <1>9
    <3>2. QED
      BY <2>1, <3>1
  <2>3. \A i \in 1..n : i \in 1..n + m /\ i <= n
    BY <1>1, <1>6
  <2>4. \A k \in 1..m : n + k \in 1..n + m /\ ~(n + k <= n) /\ n + k - n = k
    BY <1>1, <1>6
  <2>5. \A i \in 1..n : j[i] = old[i]
    BY <2>2, <2>3
  <2>6. ASSUME NEW k \in 1..m
        PROVE  j[n + k] = new[k]
    <3> DEFINE i == n + k
    <3>3. i \in 1..n + m /\ ~(i <= n) /\ i - n = k
      BY <1>1, <1>6
    <3> HIDE DEF i
    <3>4. j[i] = new[i - n]
      BY <2>2, <3>3
    <3>5. QED
      BY <3>3, <3>4 DEF i
  <2>7. QED
    BY <2>2, <2>5, <2>6
<1>11. DOMAIN j = 1..n + m
  BY <1>10, LenProperties
<1>12. /\ \A i \in 1..n : j[i].at = records[i].at
       /\ \A k \in 1..m : j[n + k].at = answer[p[k]].at /\ p[k] \in added /\ p[k] \in DOMAIN answer
  <2>1. \A i \in 1..n : old[i] = Latest(records[i])
    BY <1>1 DEF old
  <2>2. \A k \in 1..m : p[k] \in added /\ p[k] \in DOMAIN answer
    BY <1>5, <1>6
  <2>3. QED
    BY <1>2, <1>7, <1>10, <2>1, <2>2
<1>13. \A x \in 1..n + m : x \in 1..n \/ \E k \in 1..m : x = n + k
  <2>1. \A x \in 1..n + m : x \in 1..n \/ (x - n \in 1..m /\ x = n + (x - n))
    BY <1>1, <1>6
  <2>2. QED
    BY <2>1
<1>14. \A k \in 1..m : n + k \in 1..n + m
  BY <1>1, <1>6
<1>15. \A i \in 1..n : i \in 1..n + m
  BY <1>1, <1>6
<1>16. \A i \in DOMAIN answer : i \in added \/ Holds(records, answer[i].at)
  BY DEF added
<1>17. Times(j) = Times(records) \cup Times(answer)
  <2>1. \A x \in 1..n + m : j[x].at \in Times(records) \cup Times(answer)
    <3>1. TAKE x \in 1..n + m
    <3>2. CASE x \in 1..n
      BY <1>1, <1>12, <3>2 DEF Times
    <3>3. ASSUME NEW k \in 1..m, x = n + k
          PROVE  j[x].at \in Times(answer)
      BY <1>12, <3>3 DEF Times
    <3>4. QED
      BY <1>13, <3>2, <3>3
  <2>2. \A i \in 1..n : records[i].at \in Times(j)
    BY <1>11, <1>12, <1>15 DEF Times
  <2>3. \A i \in DOMAIN answer : answer[i].at \in Times(j)
    <3>1. TAKE i \in DOMAIN answer
    <3>2. CASE i \in added
      <4>1. PICK k \in 1..m : p[k] = i
        BY <1>6, <3>2
      <4>2. j[n + k].at = answer[i].at
        BY <1>12, <4>1
      <4>3. QED
        BY <1>11, <1>14, <4>2 DEF Times
    <3>3. CASE Holds(records, answer[i].at)
      BY <1>1, <2>2, <3>3 DEF Holds
    <3>4. QED
      BY <1>16, <3>2, <3>3
  <2>4. QED
    BY <1>1, <1>11, <2>1, <2>2, <2>3 DEF Times
<1>18. ASSUME Repeats(records)
       PROVE  Repeats(j)
  <2>1. PICK x, y \in 1..n : x # y /\ records[x].at = records[y].at
    BY <1>1, <1>18 DEF Repeats
  <2>2. QED
    BY <1>11, <1>12, <1>15, <2>1 DEF Repeats
<1>19. ASSUME Repeats(answer)
       PROVE  Repeats(j)
  <2>1. PICK x, y \in DOMAIN answer : x # y /\ answer[x].at = answer[y].at
    BY <1>19 DEF Repeats
  <2>2. DEFINE t == answer[x].at
               a == Position(answer, t)
  <2>3. Holds(answer, t)
    BY DEF Holds
  <2>4. a \in DOMAIN answer /\ answer[a].at = t /\ a <= x /\ a <= y
    BY <2>1, <2>3, PositionIs
  <2>5. \E b \in DOMAIN answer : a < b /\ answer[b].at = t
    <3>1. a < x \/ a < y
      BY <1>1, <2>1, <2>4
    <3>2. QED
      BY <2>1, <3>1
  <2>6. PICK b \in DOMAIN answer : a < b /\ answer[b].at = t
    BY <2>5
  <2>7. b \in added
    BY <2>6 DEF added
  <2>8. PICK k \in 1..m : p[k] = b
    BY <1>6, <2>7
  <2>9. j[n + k].at = t /\ n + k \in 1..n + m
    BY <1>12, <1>14, <2>6, <2>8
  <2>10. CASE Holds(records, t)
    <3>1. PICK i \in 1..n : records[i].at = t
      BY <1>1, <2>10 DEF Holds
    <3>2. i # n + k
      BY <1>1, <1>6
    <3>3. QED
      BY <1>11, <1>12, <1>15, <2>9, <3>1, <3>2 DEF Repeats
  <2>11. CASE ~Holds(records, t)
    <3>1. a \in added
      BY <2>4, <2>11 DEF added
    <3>2. PICK l \in 1..m : p[l] = a
      BY <1>6, <3>1
    <3>3. j[n + l].at = t /\ n + l \in 1..n + m
      BY <1>12, <1>14, <2>4, <3>2
    <3>4. n + l # n + k
      <4>1. a # b
        BY <1>1, <2>4, <2>6
      <4>2. l # k
        BY <2>8, <3>2, <4>1
      <4>3. QED
        BY <1>1, <1>6, <4>2
    <3>5. QED
      BY <1>11, <2>9, <3>3, <3>4 DEF Repeats
  <2>12. QED
    BY <2>10, <2>11
<1>20. ASSUME Repeats(j)
       PROVE  Repeats(records) \/ Repeats(answer)
  <2>1. PICK x, y \in 1..n + m : x # y /\ j[x].at = j[y].at
    BY <1>11, <1>20 DEF Repeats
  <2>2. CASE x \in 1..n /\ y \in 1..n
    BY <1>1, <1>12, <2>1, <2>2 DEF Repeats
  <2>3. ASSUME NEW i \in 1..n, NEW k \in 1..m, j[i].at = j[n + k].at
        PROVE  Repeats(answer)
    <3>1. /\ p[k] \in added /\ p[k] \in DOMAIN answer
          /\ records[i].at = answer[p[k]].at
      BY <1>12, <2>3
    <3>2. Holds(records, answer[p[k]].at)
      BY <1>1, <3>1 DEF Holds
    <3>3. Position(answer, answer[p[k]].at) < p[k]
      BY <3>1, <3>2 DEF added
    <3>4. Holds(answer, answer[p[k]].at)
      BY <3>1 DEF Holds
    <3>5. /\ Position(answer, answer[p[k]].at) \in DOMAIN answer
          /\ answer[Position(answer, answer[p[k]].at)].at = answer[p[k]].at
      BY <3>4, PositionIs
    <3>6. Position(answer, answer[p[k]].at) # p[k]
      BY <1>1, <3>1, <3>3, <3>5
    <3>7. QED
      BY <3>1, <3>5, <3>6 DEF Repeats
  <2>4. ASSUME NEW k \in 1..m, NEW l \in 1..m, k # l, j[n + k].at = j[n + l].at
        PROVE  Repeats(answer)
    <3>1. /\ p[k] \in DOMAIN answer /\ p[l] \in DOMAIN answer
          /\ answer[p[k]].at = answer[p[l]].at
      BY <1>12, <2>4
    <3>2. k < l \/ l < k
      BY <1>6, <2>4
    <3>3. p[k] < p[l] \/ p[l] < p[k]
      BY <1>6, <3>2
    <3>4. p[k] # p[l]
      BY <1>1, <3>1, <3>3
    <3>5. QED
      BY <3>1, <3>4 DEF Repeats
  <2>5. QED
    BY <1>13, <2>1, <2>2, <2>3, <2>4
<1>21. QED
  BY <1>10, <1>17, <1>18, <1>19, <1>20 DEF j

-----------------------------------------------------------------------------
(* What Home Assistant recorded and answers. *)

IsRecording(r) == DOMAIN r \subseteq Int /\ IsFiniteSet(DOMAIN r)

\* The records that tell the state in force at their time.
Told(recording) == {[at |-> t, report |-> InForce(recording, t)] : t \in Int}

LEMMA ToldIs ==
  ASSUME NEW recording, NEW x \in Told(recording)
  PROVE  x.at \in Int /\ x.report = InForce(recording, x.at)
BY DEF Told

LEMMA InForceIs ==
  ASSUME NEW recording, IsRecording(recording), NEW t \in Int
  PROVE  LET earlier == {u \in Reported(recording) : u <= t}
         IN /\ earlier = {} => InForce(recording, t) = Silent
            /\ earlier # {} => /\ Max(earlier) \in earlier
                               /\ \A u \in earlier : u <= Max(earlier)
                               /\ InForce(recording, t) = recording[Max(earlier)]
                               /\ InForce(recording, t) # Silent
<1> DEFINE earlier == {u \in Reported(recording) : u <= t}
<1>1. earlier \in SUBSET Int /\ earlier \in SUBSET DOMAIN recording
  BY DEF IsRecording, Reported
<1>2. IsFiniteSet(earlier)
  BY <1>1, FS_Subset DEF IsRecording
<1>3. earlier # {} => Max(earlier) \in earlier /\ \A u \in earlier : u <= Max(earlier)
  BY <1>1, <1>2, MaxIs
<1>4. InForce(recording, t) = IF earlier = {} THEN Silent ELSE recording[Max(earlier)]
  BY DEF InForce
<1>5. \A u \in earlier : recording[u] # Silent
  BY DEF Reported
<1> HIDE DEF earlier
<1>6. earlier # {} => InForce(recording, t) # Silent
  BY <1>3, <1>4, <1>5
<1>7. QED
  BY <1>3, <1>4, <1>6 DEF earlier

\* The state changes only where a report is recorded.
LEMMA InForceStays ==
  ASSUME NEW recording, IsRecording(recording), NEW a \in Int, NEW t \in Int, a <= t
  PROVE  /\ InForce(recording, a) # Silent => InForce(recording, t) # Silent
         /\ (\A u \in Reported(recording) : u <= a \/ t < u) =>
              InForce(recording, t) = InForce(recording, a)
<1> DEFINE E(x) == {u \in Reported(recording) : u <= x}
<1>1. \A u \in Reported(recording) : u \in Int
  BY DEF IsRecording, Reported
<1>2. E(a) \subseteq E(t)
  BY <1>1
<1>3. InForce(recording, a) # Silent => E(a) # {}
  BY InForceIs
<1>4. E(t) # {} => InForce(recording, t) # Silent
  BY InForceIs
<1>5. (\A u \in Reported(recording) : u <= a \/ t < u) => E(t) = E(a)
  BY <1>1
<1>6. \A x \in {a, t} : InForce(recording, x) = IF E(x) = {} THEN Silent ELSE recording[Max(E(x))]
  BY DEF InForce
<1>7. QED
  BY <1>2, <1>3, <1>4, <1>5, <1>6

LEMMA ReportedInForce ==
  ASSUME NEW recording, IsRecording(recording), NEW t \in Reported(recording)
  PROVE  t \in Int /\ InForce(recording, t) = recording[t] /\ InForce(recording, t) # Silent
<1>1. t \in Int
  BY DEF IsRecording, Reported
<1> DEFINE E == {u \in Reported(recording) : u <= t}
<1>2. t \in E
  BY <1>1
<1>3. /\ Max(E) \in E /\ t <= Max(E)
      /\ InForce(recording, t) = recording[Max(E)] /\ InForce(recording, t) # Silent
  BY <1>1, <1>2, InForceIs
<1>4. Max(E) \in Int /\ Max(E) <= t
  BY <1>3 DEF IsRecording, Reported
<1>5. Max(E) = t
  BY <1>1, <1>3, <1>4
<1>6. QED
  BY <1>1, <1>3, <1>5

\* An answer tells the state in force at its start and every change after it, each
\* once, with at most a change at its very end in doubt.
LEMMA AnswerIs ==
  ASSUME NEW recording, IsRecording(recording),
         NEW from \in Int, NEW to \in Int, from < to, NEW closing \in BOOLEAN
  PROVE  LET answer == Answer(recording, from, to, closing)
         IN /\ answer \in Seq(Told(recording))
            /\ \A i \in DOMAIN answer : /\ answer[i].at \in from..to
                                        /\ answer[i].report # Silent
            /\ InForce(recording, from) # Silent => from \in Times(answer)
            /\ \A t \in Reported(recording) : from <= t /\ t < to => t \in Times(answer)
            /\ closing => \A t \in Reported(recording) :
                            from <= t /\ t <= to => t \in Times(answer)
            /\ \A i, j \in DOMAIN answer : i < j => answer[i].at < answer[j].at
<1> DEFINE Answered(t) == \/ t = from /\ InForce(recording, t) # Silent
                          \/ t > from /\ t \in Reported(recording) /\ (t < to \/ closing)
           I == {t \in from..to : Answered(t)}
           n == Cardinality(I)
           p == Ascending(I)
           a == [i \in 1..n |-> [at |-> p[i], report |-> InForce(recording, p[i])]]
<1>1. I \in SUBSET Int /\ IsFiniteSet(I)
  <2>1. IsFiniteSet(from..to)
    BY FS_Interval
  <2>2. IsFiniteSet(I)
    BY <2>1, FS_Subset
  <2>3. QED
    BY <2>2
<1>2. \A t \in I : t \in from..to /\ t \in Int /\ InForce(recording, t) # Silent
  BY <1>1, ReportedInForce
<1>3. InForce(recording, from) # Silent => from \in I
  OBVIOUS
<1>4. \A t \in Reported(recording) : from <= t /\ t < to => t \in I
  <2>1. TAKE t \in Reported(recording)
  <2>2. t \in Int /\ InForce(recording, t) # Silent
    BY ReportedInForce
  <2>3. QED
    BY <2>2
<1>5. closing => \A t \in Reported(recording) : from <= t /\ t <= to => t \in I
  <2>1. SUFFICES ASSUME closing, NEW t \in Reported(recording), from <= t, t <= to
                 PROVE  t \in I
    OBVIOUS
  <2>2. t \in Int /\ InForce(recording, t) # Silent
    BY ReportedInForce
  <2>3. QED
    BY <2>1, <2>2
<1> HIDE DEF I
<1>6. /\ n \in Nat /\ p \in [1..n -> I]
      /\ \A x \in I : \E k \in 1..n : p[k] = x
      /\ \A j, k \in 1..n : j < k => p[j] < p[k]
  BY <1>1, AscendingIs
<1>7. Answer(recording, from, to, closing) = a
  <2>1. DOMAIN p = 1..n
    BY <1>6
  <2>2. Answer(recording, from, to, closing)
          = Tabulated([i \in DOMAIN p |-> [at |-> p[i], report |-> InForce(recording, p[i])]])
    BY DEF Answer, I
  <2>3. QED
    BY <2>1, <2>2, TabulatedIs
<1>8. \A i \in 1..n : /\ a[i].at = p[i] /\ p[i] \in I
                      /\ a[i].report = InForce(recording, p[i])
                      /\ a[i] \in Told(recording)
  <2>1. TAKE i \in 1..n
  <2>2. p[i] \in I /\ p[i] \in Int
    BY <1>1, <1>6
  <2>3. a[i] = [at |-> p[i], report |-> InForce(recording, p[i])]
    OBVIOUS
  <2>4. QED
    BY <2>2, <2>3 DEF Told
<1>9. a \in [1..n -> Told(recording)] /\ DOMAIN a = 1..n
  BY <1>8
<1>10. a \in Seq(Told(recording))
  BY <1>6, <1>9
<1>11. \A t \in I : t \in Times(a)
  <2>1. TAKE t \in I
  <2>2. PICK k \in 1..n : p[k] = t
    BY <1>6
  <2>3. QED
    BY <1>8, <1>9, <2>2 DEF Times
<1> HIDE DEF a
<1>12. \A i \in 1..n : a[i].at \in from..to /\ a[i].report # Silent
  BY <1>2, <1>8
<1>13. \A i, j \in 1..n : i < j => a[i].at < a[j].at
  BY <1>6, <1>8
<1>14. QED
  BY <1>3, <1>4, <1>7, <1>9, <1>10, <1>11, <1>12, <1>13, <1>5

\* A sorted history has the same records in the order of time.
LEMMA SortedIs ==
  ASSUME NEW T, NEW records \in Seq(T), \A x \in T : x.at \in Int
  PROVE  /\ Sorted(records) \in Seq(T)
         /\ Times(Sorted(records)) = Times(records)
         /\ InOrder(Sorted(records))
         /\ Repeats(Sorted(records)) <=> Repeats(records)
         /\ \A i \in DOMAIN Sorted(records) :
              \E k \in DOMAIN records : Sorted(records)[i] = records[k]
<1> DEFINE D == DOMAIN records
           R == {x \in D \X D : \/ records[x[1]].at < records[x[2]].at
                                \/ records[x[1]].at = records[x[2]].at /\ x[1] < x[2]}
           n == Cardinality(D)
           p == Arranged(D, R)
           s == [k \in 1..n |-> records[p[k]]]
<1>1. Len(records) \in Nat /\ D = 1..Len(records)
  OBVIOUS
<1>2. D \in SUBSET Int /\ IsFiniteSet(D)
  BY <1>1, PlacesFinite
<1>3. \A i \in D : records[i] \in T /\ records[i].at \in Int /\ i \in Int
  BY <1>1
<1>4. \A i, j \in D : <<i, j>> \in R <=> \/ records[i].at < records[j].at
                                         \/ records[i].at = records[j].at /\ i < j
  OBVIOUS
<1>5. Sorted(records) = Tabulated([k \in DOMAIN p |-> records[p[k]]])
  BY DEF Sorted
<1> HIDE DEF D, R
<1>6. Orders(R, D)
  BY <1>3, <1>4 DEF Orders
<1>7. /\ n \in Nat /\ p \in [1..n -> D]
      /\ \A x \in D : \E k \in 1..n : p[k] = x
      /\ \A j, k \in 1..n : j < k => <<p[j], p[k]>> \in R
  BY <1>2, <1>6, ArrangedIs
<1>8. Sorted(records) = s
  BY <1>5, <1>7, TabulatedIs
<1> HIDE DEF p
<1>9. \A k \in 1..n : s[k] = records[p[k]] /\ p[k] \in D /\ s[k] \in T
  BY <1>3, <1>7
<1>10. s \in [1..n -> T] /\ DOMAIN s = 1..n
  BY <1>9
<1>11. s \in Seq(T)
  BY <1>7, <1>10
<1> HIDE DEF s
<1>12. Times(s) = Times(records)
  <2>1. \A k \in 1..n : s[k].at \in Times(records)
    BY <1>9 DEF Times, D
  <2>2. \A i \in D : records[i].at \in Times(s)
    <3>1. TAKE i \in D
    <3>2. PICK k \in 1..n : p[k] = i
      BY <1>7
    <3>3. QED
      BY <1>9, <1>10, <3>2 DEF Times
  <2>3. QED
    BY <1>10, <2>1, <2>2 DEF Times, D
<1>13. \A i, j \in 1..n : i < j => s[i].at <= s[j].at
  <2>1. TAKE i, j \in 1..n
  <2>2. HAVE i < j
  <2>3. <<p[i], p[j]>> \in R
    BY <1>7, <2>2
  <2>4. records[p[i]].at <= records[p[j]].at
    BY <1>3, <1>4, <1>9, <2>3
  <2>5. QED
    BY <1>9, <2>4
<1>14. \A i, j \in 1..n : i # j => p[i] # p[j]
  <2>1. TAKE i, j \in 1..n
  <2>2. HAVE i # j
  <2>3. i < j \/ j < i
    BY <1>7, <2>2
  <2>4. <<p[i], p[j]>> \in R \/ <<p[j], p[i]>> \in R
    BY <1>7, <2>3
  <2>5. QED
    BY <1>6, <1>9, <2>4 DEF Orders
<1>15. Repeats(s) => Repeats(records)
  <2>1. HAVE Repeats(s)
  <2>2. PICK i, j \in 1..n : i # j /\ s[i].at = s[j].at
    BY <1>10, <2>1 DEF Repeats
  <2>3. p[i] # p[j] /\ records[p[i]].at = records[p[j]].at /\ p[i] \in D /\ p[j] \in D
    BY <1>9, <1>14, <2>2
  <2>4. QED
    BY <2>3 DEF Repeats, D
<1>16. Repeats(records) => Repeats(s)
  <2>1. HAVE Repeats(records)
  <2>2. PICK i, j \in D : i # j /\ records[i].at = records[j].at
    BY <2>1 DEF Repeats, D
  <2>3. PICK k \in 1..n : p[k] = i
    BY <1>7
  <2>4. PICK l \in 1..n : p[l] = j
    BY <1>7
  <2>5. k # l /\ s[k].at = s[l].at
    BY <1>9, <2>2, <2>3, <2>4
  <2>6. QED
    BY <1>10, <2>5 DEF Repeats
<1>17. QED
  BY <1>8, <1>9, <1>10, <1>11, <1>12, <1>13, <1>15, <1>16 DEF InOrder, D

-----------------------------------------------------------------------------
(* Windows. *)

\* The sample in force at t is the one at the last position up to t.
LEMMA SampleAtIs ==
  ASSUME NEW T, NEW s \in Seq(T), NEW t, NEW k \in DOMAIN s, s[k].at <= t,
         \A l \in DOMAIN s : s[l].at <= t => l <= k
  PROVE  SampleAt(s, t) = s[k]
<1> DEFINE U == {i \in DOMAIN s : s[i].at <= t}
<1>1. Len(s) \in Nat /\ U \in SUBSET (1..Len(s)) /\ k \in U
  OBVIOUS
<1>2. U \in SUBSET Int /\ IsFiniteSet(U)
  BY <1>1, PlacesFinite
<1>3. Max(U) \in U /\ k <= Max(U)
  BY <1>1, <1>2, MaxIs
<1>4. Max(U) = k
  BY <1>1, <1>3
<1>5. QED
  BY <1>4 DEF SampleAt

LEMMA SampleAtFound ==
  ASSUME NEW T, NEW s \in Seq(T), NEW t, \E i \in DOMAIN s : s[i].at <= t
  PROVE  \E k \in DOMAIN s : /\ s[k].at <= t
                             /\ \A l \in DOMAIN s : s[l].at <= t => l <= k
                             /\ SampleAt(s, t) = s[k]
<1> DEFINE U == {i \in DOMAIN s : s[i].at <= t}
<1>1. Len(s) \in Nat /\ U \in SUBSET (1..Len(s)) /\ U # {}
  OBVIOUS
<1>2. U \in SUBSET Int /\ IsFiniteSet(U)
  BY <1>1, PlacesFinite
<1>3. Max(U) \in U /\ \A i \in U : i <= Max(U)
  BY <1>1, <1>2, MaxIs
<1>4. QED
  BY <1>3 DEF SampleAt

\* What an own request would have stamped with the start of its period.
AsOf(sample, from) == IF sample.at < from THEN [sample EXCEPT !.at = from] ELSE sample

\* At every time of a window the sample in force is the one of the whole history.
LEMMA WindowIs ==
  ASSUME NEW T, NEW samples \in Seq(T), \A x \in T : x.at \in Int, InOrder(samples),
         \A x \in T : \A v \in Int : [x EXCEPT !.at = v].at = v,
         NEW from \in Int, NEW to \in Int, NEW t \in from..to
  PROVE  LET window == Window(samples, from, to)
         IN /\ (\E i \in DOMAIN window : window[i].at <= t)
                 <=> \E i \in DOMAIN samples : samples[i].at <= t
            /\ (\E i \in DOMAIN samples : samples[i].at <= t) =>
                 /\ SampleAt(window, t) = AsOf(SampleAt(samples, t), from)
                 /\ \E i \in DOMAIN samples : SampleAt(samples, t) = samples[i]
<1> DEFINE D == DOMAIN samples
           I == {i \in D : from <= samples[i].at /\ samples[i].at <= to}
           B == Before(samples, from)
           b == Max(B)
           n == Cardinality(I)
           p == Ascending(I)
           inside == Inside(samples, from, to)
           stamp == [samples[b] EXCEPT !.at = from]
           W == Window(samples, from, to)
           stamps == B # {} /\ (inside = <<>> \/ Head(inside).at > from)
           S == T \cup {stamp}
<1>1. Len(samples) \in Nat /\ D = 1..Len(samples)
  OBVIOUS
<1>2. \A i \in D : samples[i] \in T /\ samples[i].at \in Int /\ i \in Int
  BY <1>1
<1>3. I \in SUBSET Int /\ IsFiniteSet(I) /\ I \in SUBSET D
  BY <1>1, PlacesFinite
<1>4. B \in SUBSET Int /\ IsFiniteSet(B) /\ B \in SUBSET D
  BY <1>1, PlacesFinite DEF Before
<1>5. B # {} => b \in B /\ \A i \in B : i <= b
  BY <1>4, MaxIs
<1>6. \A i \in D : /\ i \in I <=> from <= samples[i].at /\ samples[i].at <= to
                   /\ i \in B <=> samples[i].at < from
  BY DEF Before
<1>7. /\ n \in Nat /\ p \in [1..n -> I]
      /\ \A x \in I : \E k \in 1..n : p[k] = x
      /\ \A j, k \in 1..n : j < k => p[j] < p[k]
  BY <1>3, AscendingIs
<1>8. /\ DOMAIN inside = 1..n /\ inside \in Seq(T)
      /\ \A k \in 1..n : inside[k] = samples[p[k]] /\ p[k] \in I /\ p[k] \in D
  <2>1. \A i \in I : samples[i] \in T
    BY <1>2
  <2>2. inside = Picked(samples, I)
    BY DEF Inside
  <2> HIDE DEF I, inside
  <2>3. /\ DOMAIN inside = 1..n /\ inside \in Seq(T)
        /\ \A k \in 1..n : inside[k] = samples[p[k]]
    BY <1>3, <2>1, <2>2, PickedIs
  <2>4. QED
    BY <1>3, <1>7, <2>3
<1>9. Len(inside) = n
  BY <1>7, <1>8, LenProperties
<1>10. \A k, l \in 1..n : p[k] <= p[l] => k <= l
  <2>1. TAKE k, l \in 1..n
  <2>2. p[k] \in Int /\ p[l] \in Int
    BY <1>2, <1>8
  <2>3. l < k => p[l] < p[k]
    BY <1>7
  <2>4. QED
    BY <1>7, <2>2, <2>3
<1>11. W = IF stamps THEN <<stamp>> \o inside ELSE inside
  BY DEF Window, Stamped
<1>12. inside # <<>> => n >= 1 /\ Head(inside) = inside[1]
  BY <1>7, <1>8, <1>9, HeadTailProperties, EmptySeq
<1>13. \A i, j \in D : i < j => samples[i].at <= samples[j].at
  BY DEF InOrder
<1> HIDE DEF I, B, n, p, inside, b, W, D, stamp
<1>20. ASSUME stamps
       PROVE  /\ W \in Seq(S) /\ DOMAIN W = 1..n + 1
              /\ W[1] = stamp
              /\ \A k \in 1..n : W[k + 1] = samples[p[k]]
  <2>1. <<stamp>> \in Seq(S) /\ Len(<<stamp>>) = 1 /\ <<stamp>>[1] = stamp
    OBVIOUS
  <2>2. inside \in Seq(S)
    BY <1>8
  <2>3. W = <<stamp>> \o inside
    BY <1>11, <1>20
  <2>4. /\ W \in Seq(S) /\ Len(W) = n + 1
        /\ \A i \in 1..n + 1 : W[i] = IF i <= 1 THEN <<stamp>>[i] ELSE inside[i - 1]
    <3>1. /\ W \in Seq(S) /\ Len(W) = Len(<<stamp>>) + Len(inside)
          /\ \A i \in 1..Len(<<stamp>>) + Len(inside) :
               W[i] = IF i <= Len(<<stamp>>) THEN <<stamp>>[i] ELSE inside[i - Len(<<stamp>>)]
      BY <2>1, <2>2, <2>3, ConcatProperties
    <3>2. Len(<<stamp>>) + Len(inside) = n + 1
      BY <1>7, <1>9, <2>1
    <3>3. QED
      BY <2>1, <3>1, <3>2
  <2>5. DOMAIN W = 1..n + 1
    BY <2>4, LenProperties
  <2>6. W[1] = stamp
    BY <1>7, <2>1, <2>4
  <2>7. ASSUME NEW k \in 1..n
        PROVE  W[k + 1] = samples[p[k]]
    <3> DEFINE i == k + 1
    <3>1. i \in 1..n + 1 /\ ~(i <= 1) /\ i - 1 = k
      BY <1>7
    <3> HIDE DEF i
    <3>2. W[i] = inside[k]
      BY <2>4, <3>1
    <3>3. QED
      BY <1>8, <3>2 DEF i
  <2>8. QED
    BY <2>4, <2>5, <2>6, <2>7
<1>21. stamps => samples[b] \in T /\ stamp.at = from /\ b \in D /\ samples[b].at < from
  BY <1>2, <1>4, <1>5, <1>6 DEF stamp
<1>22. ASSUME NEW u \in D, samples[u].at <= t, \A i \in D : samples[i].at <= t => i <= u
       PROVE  /\ \E i \in DOMAIN W : W[i].at <= t
              /\ SampleAt(W, t) = AsOf(samples[u], from)
  <2>1. samples[u].at \in Int /\ t \in Int /\ from <= t /\ t <= to
    BY <1>2
  <2>2. CASE samples[u].at >= from
    <3>1. u \in I /\ AsOf(samples[u], from) = samples[u]
      BY <1>6, <1>22, <2>1, <2>2 DEF AsOf
    <3>2. PICK k \in 1..n : p[k] = u
      BY <1>7, <3>1
    <3>3. \A l \in 1..n : samples[p[l]].at <= t => l <= k
      BY <1>8, <1>10, <1>22, <3>2
    <3>4. CASE stamps
      <4>1. k + 1 \in DOMAIN W /\ W[k + 1] = samples[u]
        <5>1. k + 1 \in 1..n + 1
          BY <1>7
        <5>2. QED
          BY <1>20, <3>2, <3>4, <5>1
      <4>2. \A l \in DOMAIN W : W[l].at <= t => l <= k + 1
        <5>1. TAKE l \in DOMAIN W
        <5>2. HAVE W[l].at <= t
        <5>3. l = 1 \/ l - 1 \in 1..n
          <6>1. l \in 1..n + 1
            BY <1>20, <3>4
          <6>2. QED
            BY <1>7, <6>1
        <5>4. CASE l = 1
          BY <1>7, <5>4
        <5>5. ASSUME NEW m \in 1..n, l - 1 = m
              PROVE  l <= k + 1
          <6>1. l = m + 1
            BY <1>7, <1>20, <3>4, <5>5
          <6>2. samples[p[m]].at <= t
            BY <1>20, <3>4, <5>2, <6>1
          <6>3. QED
            BY <1>7, <3>3, <6>1, <6>2
        <5>6. QED
          BY <5>3, <5>4, <5>5
      <4>3. W[k + 1].at <= t
        BY <1>22, <4>1
      <4>4. SampleAt(W, t) = W[k + 1]
        BY <1>20, <3>4, <4>1, <4>2, <4>3, SampleAtIs
      <4>5. QED
        BY <3>1, <4>1, <4>3, <4>4
    <3>5. CASE ~stamps
      <4>1. W = inside
        BY <1>11, <3>5
      <4>2. k \in DOMAIN W /\ W[k] = samples[u] /\ W[k].at <= t /\ W \in Seq(T)
        BY <1>8, <1>22, <3>2, <4>1
      <4>3. \A l \in DOMAIN W : W[l].at <= t => l <= k
        BY <1>8, <3>3, <4>1
      <4>4. SampleAt(W, t) = W[k]
        BY <4>2, <4>3, SampleAtIs
      <4>5. QED
        BY <3>1, <4>2, <4>4
    <3>6. QED
      BY <3>4, <3>5
  <2>3. CASE samples[u].at < from
    <3>1. u \in B /\ B # {}
      BY <1>6, <2>3
    <3>2. b \in B /\ b \in D /\ u <= b /\ samples[b].at < from
      BY <1>4, <1>5, <1>6, <3>1
    <3>3. samples[b].at <= t
      BY <1>2, <2>1, <3>2
    <3>4. b = u
      BY <1>2, <1>22, <3>2, <3>3
    <3>5. \A k \in 1..n : ~(samples[p[k]].at <= t)
      <4>1. TAKE k \in 1..n
      <4>2. SUFFICES ASSUME samples[p[k]].at <= t PROVE FALSE
        OBVIOUS
      <4>3. p[k] <= u /\ p[k] \in D /\ p[k] \in I /\ samples[p[k]].at >= from
        BY <1>6, <1>8, <1>22, <4>2
      <4>4. samples[p[k]].at <= samples[u].at
        BY <1>2, <1>13, <4>3
      <4>5. QED
        BY <1>2, <2>3, <4>3, <4>4
    <3>6. stamps
      <4>1. SUFFICES ASSUME inside # <<>> PROVE Head(inside).at > from
        BY <3>1
      <4>2. 1 \in 1..n /\ Head(inside) = samples[p[1]] /\ p[1] \in D /\ p[1] \in I
        BY <1>7, <1>8, <1>12, <4>1
      <4>3. ~(samples[p[1]].at <= t) /\ samples[p[1]].at \in Int
        BY <1>2, <3>5, <4>2
      <4>4. QED
        BY <2>1, <4>2, <4>3
    <3>7. 1 \in DOMAIN W /\ W[1] = stamp /\ W[1].at = from /\ W[1].at <= t
      BY <1>7, <1>20, <1>21, <2>1, <3>6
    <3>8. \A l \in DOMAIN W : W[l].at <= t => l <= 1
      <4>1. TAKE l \in DOMAIN W
      <4>2. HAVE W[l].at <= t
      <4>3. l = 1 \/ l - 1 \in 1..n
        BY <1>7, <1>20, <3>6
      <4>4. ASSUME NEW m \in 1..n, l - 1 = m
            PROVE  FALSE
        <5>1. l = m + 1
          BY <1>7, <1>20, <3>6, <4>4
        <5>2. QED
          BY <1>20, <3>5, <3>6, <4>2, <5>1
      <4>5. QED
        BY <4>3, <4>4
    <3>9. SampleAt(W, t) = W[1]
      BY <1>20, <3>6, <3>7, <3>8, SampleAtIs
    <3>10. stamp = AsOf(samples[u], from)
      BY <2>3, <3>4 DEF AsOf, stamp
    <3>11. QED
      BY <3>7, <3>9, <3>10
  <2>4. QED
    BY <2>1, <2>2, <2>3
<1>23. ASSUME NEW i \in DOMAIN W, W[i].at <= t
       PROVE  \E j \in D : samples[j].at <= t
  <2>1. CASE stamps
    BY <1>2, <1>21, <2>1
  <2>2. CASE ~stamps
    <3>1. W = inside
      BY <1>11, <2>2
    <3>2. QED
      BY <1>8, <1>23, <3>1
  <2>3. QED
    BY <2>1, <2>2
<1>24. ASSUME \E i \in D : samples[i].at <= t
       PROVE  /\ \E i \in DOMAIN W : W[i].at <= t
              /\ SampleAt(W, t) = AsOf(SampleAt(samples, t), from)
              /\ \E i \in D : SampleAt(samples, t) = samples[i]
  <2>1. PICK u \in D : /\ samples[u].at <= t
                       /\ \A i \in D : samples[i].at <= t => i <= u
                       /\ SampleAt(samples, t) = samples[u]
    BY <1>24, SampleAtFound DEF D
  <2>2. QED
    BY <1>22, <2>1
<1>25. QED
  BY <1>23, <1>24 DEF D, W

-----------------------------------------------------------------------------
(* A period that was asked for as a whole. *)

WholeWindow(recording, from, to) == Window(Answer(recording, from, to, TRUE), from, to)

\* The window of the whole answer is the answer.
LEMMA WholeWindowIs ==
  ASSUME NEW recording, IsRecording(recording), NEW from \in Int, NEW to \in Int, from < to
  PROVE  LET samples == WholeWindow(recording, from, to)
         IN /\ samples \in Seq(Told(recording))
            /\ \A i \in DOMAIN samples : /\ from <= samples[i].at /\ samples[i].at <= to
                                         /\ samples[i].report # Silent
            /\ \A i, j \in DOMAIN samples : i < j => samples[i].at < samples[j].at
            /\ \A t \in Reported(recording) :
                 from <= t /\ t <= to => t \in Times(samples)
<1> DEFINE a == Answer(recording, from, to, TRUE)
           n == Len(a)
           I == {i \in DOMAIN a : from <= a[i].at /\ a[i].at <= to}
           s == Window(a, from, to)
<1>1. /\ a \in Seq(Told(recording))
      /\ \A i \in DOMAIN a : a[i].at \in from..to /\ a[i].report # Silent
      /\ \A t \in Reported(recording) : from <= t /\ t <= to => t \in Times(a)
      /\ \A i, j \in DOMAIN a : i < j => a[i].at < a[j].at
  BY AnswerIs
<1> HIDE DEF a
<1>2. n \in Nat /\ DOMAIN a = 1..n
  BY <1>1
<1>3. I = 1..n /\ Before(a, from) = {}
  <2>1. \A i \in DOMAIN a : from <= a[i].at /\ a[i].at <= to /\ ~(a[i].at < from)
    BY <1>1
  <2>2. QED
    BY <1>2, <2>1 DEF Before
<1>4. IsFiniteSet(1..n) /\ Cardinality(1..n) = n /\ 1..n \in SUBSET Int
  <2>1. /\ IsFiniteSet(1..n)
        /\ Cardinality(1..n) = IF 1 > n THEN 0 ELSE n - 1 + 1
    BY <1>2, FS_Interval
  <2>2. QED
    BY <1>2, <2>1
<1>5. s = Picked(a, 1..n)
  <2>1. s = Window(a, from, to)
    BY DEF s
  <2>2. Inside(a, from, to) = Picked(a, I)
    BY DEF Inside
  <2>3. Window(a, from, to) = Inside(a, from, to)
    BY <1>3 DEF Window
  <2>4. QED
    BY <1>3, <2>1, <2>2, <2>3
<1> HIDE DEF I, s
<1> DEFINE p == Ascending(1..n)
<1>6. /\ p \in [1..n -> 1..n]
      /\ \A x \in 1..n : \E k \in 1..n : p[k] = x
      /\ \A j, k \in 1..n : j < k => p[j] < p[k]
  BY <1>4, AscendingIs
<1>7. /\ DOMAIN s = 1..n
      /\ \A k \in 1..n : s[k] = a[p[k]]
      /\ (\A i \in 1..n : a[i] \in Told(recording)) => s \in Seq(Told(recording))
  BY <1>4, <1>5, PickedIs
<1>8. s \in Seq(Told(recording))
  BY <1>1, <1>2, <1>7
<1>9. \A i \in DOMAIN s : from <= s[i].at /\ s[i].at <= to /\ s[i].report # Silent
  <2>1. \A i \in 1..n : from <= a[i].at /\ a[i].at <= to /\ a[i].report # Silent
    BY <1>1, <1>2
  <2>2. \A k \in 1..n : p[k] \in 1..n
    BY <1>6
  <2>3. QED
    BY <1>7, <2>1, <2>2
<1>10. \A i, j \in DOMAIN s : i < j => s[i].at < s[j].at
  <2>1. TAKE i, j \in DOMAIN s
  <2>2. HAVE i < j
  <2>3. p[i] \in 1..n /\ p[j] \in 1..n /\ p[i] < p[j]
    BY <1>6, <1>7, <2>2
  <2>4. a[p[i]].at < a[p[j]].at
    BY <1>1, <1>2, <2>3
  <2>5. QED
    BY <1>7, <2>4
<1>11. ASSUME NEW t \in Reported(recording), from <= t, t <= to
       PROVE  t \in Times(s)
  <2>1. PICK x \in 1..n : a[x].at = t
    BY <1>1, <1>2, <1>11 DEF Times
  <2>2. PICK k \in 1..n : p[k] = x
    BY <1>6
  <2>3. s[k].at = t /\ k \in DOMAIN s
    BY <1>7, <2>1, <2>2
  <2>4. QED
    BY <2>3 DEF Times
<1>12. QED
  BY <1>8, <1>9, <1>10, <1>11 DEF s, a, WholeWindow

\* Its sample at any time tells the state in force then.
LEMMA SampleOfWhole ==
  ASSUME NEW recording, IsRecording(recording), NEW from \in Int, NEW to \in Int, from < to,
         NEW t \in from..to,
         \E i \in DOMAIN WholeWindow(recording, from, to) :
           WholeWindow(recording, from, to)[i].at <= t
  PROVE  LET samples == WholeWindow(recording, from, to)
         IN \E k \in DOMAIN samples :
              /\ samples[k].at <= t
              /\ \A l \in DOMAIN samples : samples[l].at <= t => l <= k
              /\ SampleAt(samples, t) = samples[k]
              /\ samples[k].report = InForce(recording, t)
              /\ samples[k].report # Silent
<1> DEFINE s == WholeWindow(recording, from, to)
<1>1. /\ s \in Seq(Told(recording))
      /\ \A i \in DOMAIN s : /\ from <= s[i].at /\ s[i].at <= to /\ s[i].report # Silent
      /\ \A i, j \in DOMAIN s : i < j => s[i].at < s[j].at
      /\ \A u \in Reported(recording) : from <= u /\ u <= to => u \in Times(s)
  BY WholeWindowIs
<1> HIDE DEF s
<1>2. PICK k \in DOMAIN s : /\ s[k].at <= t
                           /\ \A l \in DOMAIN s : s[l].at <= t => l <= k
                           /\ SampleAt(s, t) = s[k]
  BY <1>1, SampleAtFound DEF s
<1> DEFINE v == s[k].at
<1>3. v \in Int /\ s[k].report = InForce(recording, v) /\ v <= t /\ from <= v
  <2>1. s[k] \in Told(recording)
    BY <1>1, <1>2
  <2>2. QED
    BY <1>1, <1>2, <2>1, ToldIs
<1> HIDE DEF v
<1>4. ASSUME NEW u \in Reported(recording)
      PROVE  u <= v \/ t < u
  <2>1. u \in Int
    BY ReportedInForce
  <2>2. CASE u < from \/ t < u
    BY <1>3, <2>1, <2>2
  <2>3. CASE from <= u /\ u <= t
    <3>1. PICK i \in DOMAIN s : s[i].at = u
      BY <1>1, <2>1, <2>3 DEF Times
    <3>2. i <= k
      BY <1>2, <2>3, <3>1
    <3>3. i \in Int /\ k \in Int
      BY <1>1, <1>2, <3>1
    <3>4. i = k \/ i < k
      BY <3>2, <3>3
    <3>5. i < k => u < v
      BY <1>1, <1>2, <3>1 DEF v
    <3>6. QED
      BY <1>3, <2>1, <3>1, <3>4, <3>5 DEF v
  <2>4. QED
    BY <2>1, <2>2, <2>3
<1>5. InForce(recording, t) = InForce(recording, v)
  BY <1>3, <1>4, InForceStays
<1>6. QED
  BY <1>1, <1>2, <1>3, <1>5 DEF s

\* What is left of a recording whose early states were purged tells no other state.
LEMMA PurgedIs ==
  ASSUME NEW recording, IsRecording(recording), NEW kept \in Int
  PROVE  LET held == [t \in DOMAIN recording |-> IF t < kept THEN Silent ELSE recording[t]]
         IN /\ IsRecording(held)
            /\ \A t \in Int : InForce(held, t) # Silent =>
                 InForce(held, t) = InForce(recording, t)
<1> DEFINE held == [t \in DOMAIN recording |-> IF t < kept THEN Silent ELSE recording[t]]
<1>1. DOMAIN held = DOMAIN recording
  OBVIOUS
<1>2. IsRecording(held)
  BY <1>1 DEF IsRecording
<1>3. /\ \A u \in Reported(held) : u \in Reported(recording) /\ u \in Int /\ kept <= u
      /\ \A u \in Reported(recording) : kept <= u =>
           u \in Reported(held) /\ held[u] = recording[u]
  <2>1. \A u \in DOMAIN recording : u \in Int
    BY DEF IsRecording
  <2>2. \A u \in DOMAIN recording :
          held[u] = IF u < kept THEN Silent ELSE recording[u]
    OBVIOUS
  <2>3. QED
    BY <1>1, <2>1, <2>2 DEF Reported
<1> HIDE DEF held
<1>4. ASSUME NEW t \in Int, InForce(held, t) # Silent
      PROVE  InForce(held, t) = InForce(recording, t)
  <2> DEFINE H == {u \in Reported(held) : u <= t}
             R == {u \in Reported(recording) : u <= t}
  <2>1. H # {}
    BY <1>2, <1>4, InForceIs
  <2>2. /\ Max(H) \in H /\ \A u \in H : u <= Max(H)
        /\ InForce(held, t) = held[Max(H)]
    BY <1>2, <2>1, InForceIs
  <2>3. H \subseteq R
    BY <1>3
  <2>4. R # {}
    BY <2>1, <2>3
  <2>5. /\ Max(R) \in R /\ \A u \in R : u <= Max(R)
        /\ InForce(recording, t) = recording[Max(R)]
    BY <2>4, InForceIs
  <2> DEFINE h == Max(H)
             r == Max(R)
  <2>6. h \in Reported(held) /\ h \in Int /\ kept <= h /\ h <= r
    BY <1>3, <2>2, <2>3, <2>5
  <2>7. r \in Reported(recording) /\ r \in Int /\ r <= t
    <3>1. r \in R
      BY <2>5
    <3>2. QED
      BY <3>1, ReportedInForce
  <2>8. kept <= r
    <3> HIDE DEF h, r
    <3>1. QED
      BY <2>6, <2>7
  <2>9. r \in Reported(held) /\ held[r] = recording[r]
    BY <1>3, <2>7, <2>8
  <2>10. r \in H
    BY <2>7, <2>9
  <2>11. r <= h
    BY <2>2, <2>10
  <2>12. r = h
    <3> HIDE DEF h, r
    <3>1. QED
      BY <2>6, <2>7, <2>11
  <2>13. QED
    BY <2>2, <2>5, <2>9, <2>12
<1>5. QED
  BY <1>2, <1>4 DEF held

-----------------------------------------------------------------------------
(* Times in hours. *)

\* Whole hours and order.
LEMMA HourTimes ==
  ASSUME NEW w \in Nat \ {0}, NEW a \in Int, NEW b \in Int
  PROVE  /\ a * w \in Int
         /\ a < b => a * w < b * w
         /\ a <= b => a * w <= b * w
         /\ a * w < b * w => a < b
         /\ a * w <= b * w => a <= b
         /\ (a + 1) * w = a * w + w
OBVIOUS

\* The hour a time lies in.
LEMMA HourDivision ==
  ASSUME NEW w \in Nat \ {0}, NEW t \in Int
  PROVE  /\ t \div w \in Int
         /\ (t \div w) * w <= t
         /\ t < (t \div w) * w + w
OBVIOUS

\* The hour that begins at a boundary.
LEMMA HourOfBoundary ==
  ASSUME NEW w \in Nat \ {0}, NEW a \in Int
  PROVE  (a * w) \div w = a
<1> DEFINE q == (a * w) \div w
<1>1. q \in Int /\ q * w <= a * w /\ a * w < (q + 1) * w
  BY HourTimes, HourDivision
<1> HIDE DEF q
<1>2. q <= a /\ a < q + 1
  BY <1>1, HourTimes
<1>3. QED
  BY <1>1, <1>2 DEF q

-----------------------------------------------------------------------------
(* Sums. *)

\* A function that sums f over every subset of S, element by element as Folds does.
SumsOver(f, S, sum) ==
  sum = [s \in SUBSET S |->
           IF s = {} THEN 0
           ELSE f[CHOOSE x \in s : TRUE] + sum[s \ {CHOOSE x \in s : TRUE}]]

LEMMA ChosenIs ==
  ASSUME NEW S, IsFiniteSet(S), NEW s \in SUBSET S, s # {}
  PROVE  LET x == CHOOSE x \in s : TRUE
         IN /\ x \in s /\ x \in S /\ s \ {x} \in SUBSET S
            /\ Cardinality(s) \in Nat
            /\ Cardinality(s \ {x}) \in Nat /\ Cardinality(s \ {x}) = Cardinality(s) - 1
<1> DEFINE x == CHOOSE x \in s : TRUE
<1>1. x \in s
  OBVIOUS
<1>2. IsFiniteSet(s) /\ Cardinality(s) \in Nat
  BY FS_Subset, FS_CardinalityType
<1> HIDE DEF x
<1>3. Cardinality(s \ {x}) = Cardinality(s) - 1 /\ IsFiniteSet(s \ {x})
  BY <1>1, <1>2, FS_RemoveElement
<1>4. Cardinality(s \ {x}) \in Nat
  BY <1>3, FS_CardinalityType
<1>5. QED
  BY <1>1, <1>2, <1>3, <1>4 DEF x

\* Such a function exists.
LEMMA SumsExist ==
  ASSUME NEW f, NEW S, IsFiniteSet(S), \A x \in S : f[x] \in Int
  PROVE  \E sum \in [SUBSET S -> Int] : SumsOver(f, S, sum)
<1> DEFINE Pick(s) == CHOOSE x \in s : TRUE
           Small(n) == {s \in SUBSET S : Cardinality(s) <= n}
           Sums(n, sum) == /\ sum \in [Small(n) -> Int]
                           /\ \A s \in Small(n) :
                                sum[s] = IF s = {} THEN 0
                                         ELSE f[Pick(s)] + sum[s \ {Pick(s)}]
           bad == {n \in Nat : ~\E sum : Sums(n, sum)}
<1>1. \A s \in SUBSET S : IsFiniteSet(s) /\ Cardinality(s) \in Nat
  BY FS_Subset, FS_CardinalityType
<1>2. \A s \in SUBSET S : s # {} =>
        /\ Pick(s) \in s /\ Pick(s) \in S /\ s \ {Pick(s)} \in SUBSET S
        /\ Cardinality(s \ {Pick(s)}) = Cardinality(s) - 1
  BY ChosenIs
<1> HIDE DEF Pick
<1>3. \E sum : Sums(0, sum)
  <2>1. \A s \in Small(0) : s = {}
    BY <1>1, FS_EmptySet
  <2>2. Sums(0, [s \in Small(0) |-> 0])
    BY <2>1
  <2>3. QED
    BY <2>2
<1>4. ASSUME NEW n \in Nat, NEW sum, Sums(n, sum)
      PROVE  \E next : Sums(n + 1, next)
  <2> DEFINE Sum(s) == IF s = {} THEN 0 ELSE f[Pick(s)] + sum[s \ {Pick(s)}]
             next == [s \in Small(n + 1) |-> Sum(s)]
  <2>1. ASSUME NEW s \in Small(n + 1), s # {}
        PROVE  s \ {Pick(s)} \in Small(n) /\ s \ {Pick(s)} \in Small(n + 1)
    BY <1>1, <1>2, <2>1
  <2>2. \A s \in Small(n + 1) : Sum(s) \in Int
    <3>1. ASSUME NEW s \in Small(n + 1), s # {}
          PROVE  f[Pick(s)] \in Int /\ sum[s \ {Pick(s)}] \in Int
      BY <1>2, <1>4, <2>1, <3>1
    <3> HIDE DEF Small
    <3>2. QED
      BY <3>1
  <2>3. \A s \in Small(n) : Sum(s) = sum[s] /\ s \in Small(n + 1)
    <3>1. \A s \in Small(n) : s \in Small(n + 1)
      BY <1>1
    <3>2. QED
      BY <1>4, <3>1
  <2> HIDE DEF Sum
  <2>4. next \in [Small(n + 1) -> Int]
    <3> HIDE DEF Small
    <3>1. QED
      BY <2>2
  <2>5. ASSUME NEW s \in Small(n + 1)
        PROVE  next[s] = IF s = {} THEN 0 ELSE f[Pick(s)] + next[s \ {Pick(s)}]
    <3>1. s # {} => next[s \ {Pick(s)}] = sum[s \ {Pick(s)}]
      <4> HIDE DEF Small
      <4>1. QED
        BY <2>1, <2>3
    <3>2. next[s] = Sum(s)
      OBVIOUS
    <3> HIDE DEF next
    <3>3. QED
      BY <3>1, <3>2 DEF Sum
  <2> HIDE DEF next
  <2>6. Sums(n + 1, next)
    BY <2>4, <2>5
  <2>7. QED
    BY <2>6
<1>5. bad = {}
  <2>1. SUFFICES ASSUME bad # {} PROVE FALSE
    OBVIOUS
  <2>2. PICK m \in bad : \A n \in bad : m <= n
    BY <2>1, LeastNat
  <2> HIDE DEF Sums
  <2>3. m # 0 /\ m - 1 \in Nat /\ m - 1 \notin bad
    BY <1>3, <2>2
  <2>4. \E sum : Sums(m - 1 + 1, sum)
    BY <1>4, <2>3
  <2>5. QED
    BY <2>2, <2>4
<1>6. PICK sum : Sums(Cardinality(S), sum)
  <2> HIDE DEF Sums
  <2>1. Cardinality(S) \in Nat
    BY FS_CardinalityType
  <2>2. QED
    BY <1>5, <2>1
<1>7. Small(Cardinality(S)) = SUBSET S
  BY FS_Subset
<1> HIDE DEF Small
<1>8. /\ sum \in [SUBSET S -> Int]
      /\ \A s \in SUBSET S :
           sum[s] = IF s = {} THEN 0 ELSE f[Pick(s)] + sum[s \ {Pick(s)}]
  BY <1>6, <1>7
<1>9. SumsOver(f, S, sum)
  BY <1>8 DEF SumsOver, Pick
<1>10. QED
  BY <1>8, <1>9

\* There is only one: a subset has the same sum in all of them.
LEMMA SumsAgree ==
  ASSUME NEW f, NEW S, IsFiniteSet(S), NEW T \in SUBSET S,
         NEW a, NEW b, SumsOver(f, S, a), SumsOver(f, T, b)
  PROVE  \A s \in SUBSET T : a[s] = b[s]
<1> DEFINE Pick(s) == CHOOSE x \in s : TRUE
           wrong == {s \in SUBSET T : a[s] # b[s]}
           sizes == {Cardinality(s) : s \in wrong}
<1>1. SUFFICES ASSUME wrong # {} PROVE FALSE
  OBVIOUS
<1>2. IsFiniteSet(T)
  BY FS_Subset
<1>3. sizes \in SUBSET Nat /\ sizes # {}
  BY <1>1, <1>2, FS_Subset, FS_CardinalityType
<1> HIDE DEF sizes
<1>4. PICK m \in sizes : \A n \in sizes : m <= n
  BY <1>3, LeastNat
<1>5. PICK s \in wrong : Cardinality(s) = m
  BY <1>4 DEF sizes
<1>6. s \in SUBSET S /\ s \in SUBSET T
  BY <1>5
<1>7. s # {}
  BY <1>5, <1>6 DEF SumsOver
<1>8. /\ s \ {Pick(s)} \in SUBSET T
      /\ Cardinality(s) \in Nat /\ Cardinality(s \ {Pick(s)}) = Cardinality(s) - 1
  BY <1>2, <1>6, <1>7, ChosenIs
<1>9. s \ {Pick(s)} \notin wrong
  BY <1>3, <1>4, <1>5, <1>8 DEF sizes
<1>10. a[s \ {Pick(s)}] = b[s \ {Pick(s)}]
  BY <1>8, <1>9
<1>11. a[s] = f[Pick(s)] + a[s \ {Pick(s)}] /\ b[s] = f[Pick(s)] + b[s \ {Pick(s)}]
  BY <1>6, <1>7 DEF SumsOver
<1>12. QED
  BY <1>5, <1>10, <1>11

\* SumFunctionOnSet sums.
LEMMA SumOnSubsets ==
  ASSUME NEW f, NEW S, IsFiniteSet(S), \A x \in S : f[x] \in Int,
         NEW sum, SumsOver(f, S, sum)
  PROVE  \A T \in SUBSET S : SumFunctionOnSet(f, T) = sum[T]
<1> SUFFICES ASSUME NEW T \in SUBSET S PROVE SumFunctionOnSet(f, T) = sum[T]
  OBVIOUS
<1> DEFINE iter == CHOOSE g : SumsOver(f, T, g)
<1>1. IsFiniteSet(T) /\ \A x \in T : f[x] \in Int
  BY FS_Subset
<1>2. SumsOver(f, T, iter)
  BY <1>1, SumsExist
<1>3. SumFunctionOnSet(f, T) = iter[T]
  BY DEF SumFunctionOnSet, FoldFunctionOnSet, MapThenFoldSet, SumsOver
<1> HIDE DEF iter
<1>4. sum[T] = iter[T]
  BY <1>2, SumsAgree
<1>5. QED
  BY <1>3, <1>4

\* A sum of integers is an integer, and that of nothing is 0.
LEMMA SumType ==
  ASSUME NEW f, NEW S, IsFiniteSet(S), \A x \in S : f[x] \in Int
  PROVE  SumFunctionOnSet(f, S) \in Int /\ SumFunctionOnSet(f, {}) = 0
<1>1. PICK sum \in [SUBSET S -> Int] : SumsOver(f, S, sum)
  BY SumsExist
<1>2. sum[{}] = 0
  BY <1>1 DEF SumsOver
<1>3. QED
  BY <1>1, <1>2, SumOnSubsets

\* Any element may be taken out of a sum.
LEMMA SumWithout ==
  ASSUME NEW f, NEW S, IsFiniteSet(S), \A x \in S : f[x] \in Int, NEW e \in S
  PROVE  SumFunctionOnSet(f, S) = f[e] + SumFunctionOnSet(f, S \ {e})
<1> DEFINE Pick(s) == CHOOSE x \in s : TRUE
<1>1. PICK sum \in [SUBSET S -> Int] : SumsOver(f, S, sum)
  BY SumsExist
<1> DEFINE Right(s) == \A x \in s : sum[s] = f[x] + sum[s \ {x}]
           wrong == {s \in SUBSET S : ~Right(s)}
           sizes == {Cardinality(s) : s \in wrong}
<1>2. wrong = {}
  <2>1. SUFFICES ASSUME wrong # {} PROVE FALSE
    OBVIOUS
  <2>2. sizes \in SUBSET Nat /\ sizes # {}
    BY <2>1, FS_Subset, FS_CardinalityType
  <2> HIDE DEF sizes
  <2>3. PICK m \in sizes : \A n \in sizes : m <= n
    BY <2>2, LeastNat
  <2>4. PICK s \in wrong : Cardinality(s) = m
    BY <2>3 DEF sizes
  <2>5. PICK x \in s : sum[s] # f[x] + sum[s \ {x}]
    BY <2>4
  <2> DEFINE y == Pick(s)
             t == s \ {x, y}
  <2>6. s \in SUBSET S /\ s # {} /\ x \in S
    BY <2>4, <2>5
  <2>7. /\ y \in s /\ y \in S /\ s \ {y} \in SUBSET S /\ Cardinality(s) \in Nat
        /\ Cardinality(s \ {y}) \in Nat /\ Cardinality(s \ {y}) = Cardinality(s) - 1
    BY <2>6, ChosenIs
  <2>8. sum[s] = f[y] + sum[s \ {y}]
    BY <1>1, <2>6 DEF SumsOver
  <2> HIDE DEF y
  <2>9. x # y
    BY <2>5, <2>8
  <2>10. ASSUME NEW z \in s
         PROVE  /\ s \ {z} \in SUBSET S
                /\ Right(s \ {z})
    <3>1. IsFiniteSet(s) /\ Cardinality(s) \in Nat
      BY <2>6, FS_Subset, FS_CardinalityType
    <3>2. Cardinality(s \ {z}) = Cardinality(s) - 1
      BY <3>1, FS_RemoveElement
    <3>3. s \ {z} \in SUBSET S
      BY <2>6
    <3> HIDE DEF Right
    <3>4. s \ {z} \notin wrong
      BY <2>2, <2>3, <2>4, <3>1, <3>2 DEF sizes
    <3>5. QED
      BY <3>3, <3>4
  <2>11. sum[s \ {y}] = f[x] + sum[t]
    <3>1. x \in s \ {y} /\ (s \ {y}) \ {x} = t
      BY <2>9
    <3>2. QED
      BY <2>7, <2>10, <3>1
  <2>12. sum[s \ {x}] = f[y] + sum[t]
    <3>1. y \in s \ {x} /\ (s \ {x}) \ {y} = t
      BY <2>7, <2>9
    <3>2. QED
      BY <2>5, <2>10, <3>1
  <2>13. f[x] \in Int /\ f[y] \in Int /\ sum[t] \in Int
    BY <1>1, <2>6, <2>7
  <2>14. QED
    BY <2>5, <2>8, <2>11, <2>12, <2>13
<1>3. sum[S] = f[e] + sum[S \ {e}]
  BY <1>2
<1>4. QED
  BY <1>1, <1>3, SumOnSubsets

\* Sums of equal terms are equal.
LEMMA SumExtends ==
  ASSUME NEW f, NEW g, NEW S, IsFiniteSet(S),
         \A x \in S : f[x] \in Int /\ g[x] = f[x]
  PROVE  SumFunctionOnSet(g, S) = SumFunctionOnSet(f, S)
<1>1. PICK sum \in [SUBSET S -> Int] : SumsOver(f, S, sum)
  BY SumsExist
<1>2. \A s \in SUBSET S : s # {} => g[CHOOSE x \in s : TRUE] = f[CHOOSE x \in s : TRUE]
  BY ChosenIs
<1>3. SumsOver(g, S, sum)
  BY <1>1, <1>2 DEF SumsOver
<1>4. QED
  BY <1>1, <1>3, SumOnSubsets

\* Sums whose terms differ by at most a bound differ by at most as many of it.
LEMMA SumsDiffer ==
  ASSUME NEW f, NEW g, NEW S, IsFiniteSet(S), NEW K \in Nat,
         \A x \in S : f[x] \in Int /\ g[x] \in Int /\ f[x] - g[x] \in -K..K
  PROVE  SumFunctionOnSet(f, S) - SumFunctionOnSet(g, S)
           \in -(K * Cardinality(S))..K * Cardinality(S)
<1> DEFINE Pick(s) == CHOOSE x \in s : TRUE
<1>1. PICK a \in [SUBSET S -> Int] : SumsOver(f, S, a)
  BY SumsExist
<1>2. PICK b \in [SUBSET S -> Int] : SumsOver(g, S, b)
  BY SumsExist
<1> DEFINE Near(s) == a[s] - b[s] \in -(K * Cardinality(s))..K * Cardinality(s)
           wrong == {s \in SUBSET S : ~Near(s)}
           sizes == {Cardinality(s) : s \in wrong}
<1> HIDE DEF Near
<1>3. wrong = {}
  <2>1. SUFFICES ASSUME wrong # {} PROVE FALSE
    OBVIOUS
  <2>2. sizes \in SUBSET Nat /\ sizes # {}
    <3>1. \A s \in wrong : Cardinality(s) \in Nat
      BY FS_Subset, FS_CardinalityType
    <3>2. QED
      BY <2>1, <3>1
  <2> HIDE DEF sizes
  <2>3. PICK m \in sizes : \A n \in sizes : m <= n
    BY <2>2, LeastNat
  <2>4. PICK s \in wrong : Cardinality(s) = m
    BY <2>3 DEF sizes
  <2>5. s \in SUBSET S /\ ~Near(s)
    BY <2>4
  <2>6. s # {}
    <3>1. SUFFICES ASSUME s = {} PROVE FALSE
      OBVIOUS
    <3>2. a[s] = 0 /\ b[s] = 0 /\ Cardinality(s) = 0
      BY <1>1, <1>2, <2>5, <3>1, FS_EmptySet DEF SumsOver
    <3>3. K * 0 = 0
      OBVIOUS
    <3>4. QED
      BY <2>5, <3>2, <3>3 DEF Near
  <2> DEFINE y == Pick(s)
             t == s \ {y}
  <2>7. /\ y \in S /\ t \in SUBSET S
        /\ Cardinality(s) \in Nat /\ Cardinality(t) \in Nat
        /\ Cardinality(t) = Cardinality(s) - 1
    BY <2>5, <2>6, ChosenIs
  <2>8. a[s] = f[y] + a[t] /\ b[s] = g[y] + b[t]
    BY <1>1, <1>2, <2>5, <2>6 DEF SumsOver
  <2> HIDE DEF y, t
  <2>9. Near(t)
    <3>1. t \notin wrong
      <4>1. SUFFICES ASSUME t \in wrong PROVE FALSE
        OBVIOUS
      <4>2. Cardinality(t) \in sizes
        BY <4>1 DEF sizes
      <4>3. QED
        BY <2>3, <2>4, <2>7, <4>2
    <3>2. QED
      BY <2>7, <3>1
  <2>10. /\ f[y] \in Int /\ g[y] \in Int /\ f[y] - g[y] \in -K..K
         /\ a[t] \in Int /\ b[t] \in Int
    BY <1>1, <1>2, <2>7
  <2>11. K * Cardinality(s) = K * Cardinality(t) + K /\ K * Cardinality(t) \in Nat
    <3>1. \A n \in Nat : K * (n + 1) = K * n + K /\ K * n \in Nat
      OBVIOUS
    <3>2. Cardinality(s) = Cardinality(t) + 1
      BY <2>7
    <3>3. QED
      BY <2>7, <3>1, <3>2
  <2>12. QED
    BY <2>5, <2>8, <2>9, <2>10, <2>11 DEF Near
<1>4. Near(S)
  BY <1>3
<1>5. SumFunctionOnSet(f, S) = a[S] /\ SumFunctionOnSet(g, S) = b[S]
  BY <1>1, <1>2, SumOnSubsets
<1>6. QED
  BY <1>4, <1>5 DEF Near

\* f and g differ, place by place, by what v changes.
ChangesOf(f, g, v, from, to) ==
  /\ \A i \in from..to : f[i] \in Int /\ g[i] \in Int /\ f[i] - g[i] = v[i + 1] - v[i]
  /\ \A i \in from..to + 1 : v[i] \in Int

\* Sums over an interval of changes differ by what changed from its first to its last.
LEMMA SumTelescopes ==
  ASSUME NEW f, NEW g, NEW v, NEW from \in Int, NEW to \in Int, from <= to + 1,
         ChangesOf(f, g, v, from, to)
  PROVE  SumFunctionOnSet(f, from..to) - SumFunctionOnSet(g, from..to) = v[to + 1] - v[from]
<1> SUFFICES ASSUME \A i \in from..to :
                      f[i] \in Int /\ g[i] \in Int /\ f[i] - g[i] = v[i + 1] - v[i],
                    \A i \in from..to + 1 : v[i] \in Int
             PROVE  SumFunctionOnSet(f, from..to) - SumFunctionOnSet(g, from..to)
                      = v[to + 1] - v[from]
  BY DEF ChangesOf
<1> DEFINE Telescopes(n) == from + n - 1 <= to =>
             SumFunctionOnSet(f, from..from + n - 1)
               - SumFunctionOnSet(g, from..from + n - 1) = v[from + n] - v[from]
           wrong == {n \in Nat : ~Telescopes(n)}
<1>1. Telescopes(0)
  <2>1. from..from + 0 - 1 = {} /\ from + 0 = from
    OBVIOUS
  <2>2. IsFiniteSet({}) /\ \A x \in {} : f[x] \in Int /\ g[x] \in Int
    BY FS_EmptySet
  <2>3. SumFunctionOnSet(f, {}) = 0 /\ SumFunctionOnSet(g, {}) = 0
    BY <2>2, SumType
  <2>4. v[from] - v[from] = 0
    OBVIOUS
  <2>5. QED
    BY <2>1, <2>3, <2>4
<1>2. ASSUME NEW n \in Nat, Telescopes(n)
      PROVE  Telescopes(n + 1)
  <2> DEFINE S == from..from + n - 1
             T == from..from + n
             i == from + n
  <2>1. from + (n + 1) - 1 = i /\ from + (n + 1) = i + 1
    OBVIOUS
  <2>2. SUFFICES ASSUME i <= to
                 PROVE  SumFunctionOnSet(f, T) - SumFunctionOnSet(g, T)
                          = v[i + 1] - v[from]
    BY <2>1
  <2>3. T \ {i} = S /\ i \in T /\ T \subseteq from..to /\ S \subseteq from..to
    BY <2>2
  <2>4. IsFiniteSet(T) /\ IsFiniteSet(S)
    BY FS_Interval
  <2>5. SumFunctionOnSet(f, S) - SumFunctionOnSet(g, S) = v[i] - v[from]
    BY <1>2, <2>2
  <2> HIDE DEF S, T, i, Telescopes
  <2>6. /\ SumFunctionOnSet(f, S) \in Int /\ SumFunctionOnSet(g, S) \in Int
    BY <2>3, <2>4, SumType
  <2>7. /\ SumFunctionOnSet(f, T) = f[i] + SumFunctionOnSet(f, S)
        /\ SumFunctionOnSet(g, T) = g[i] + SumFunctionOnSet(g, S)
    <3>1. IsFiniteSet(T) /\ i \in T /\ T \ {i} = S
      BY <2>3, <2>4
    <3>2. \A x \in T : f[x] \in Int
      BY <2>3
    <3>3. \A x \in T : g[x] \in Int
      BY <2>3
    <3>4. SumFunctionOnSet(f, T) = f[i] + SumFunctionOnSet(f, T \ {i})
      BY ONLY <3>1, <3>2, SumWithout
    <3>5. SumFunctionOnSet(g, T) = g[i] + SumFunctionOnSet(g, T \ {i})
      BY ONLY <3>1, <3>3, SumWithout
    <3>6. QED
      BY ONLY <3>1, <3>4, <3>5
  <2>8. f[i] \in Int /\ g[i] \in Int /\ f[i] - g[i] = v[i + 1] - v[i]
    BY <2>3
  <2>9. v[i] \in Int /\ v[i + 1] \in Int /\ v[from] \in Int
    BY <2>2 DEF i
  <2>10. QED
    BY <2>5, <2>6, <2>7, <2>8, <2>9
<1> HIDE DEF Telescopes
<1>3. wrong = {}
  <2>1. SUFFICES ASSUME wrong # {} PROVE FALSE
    OBVIOUS
  <2>2. PICK m \in wrong : \A n \in wrong : m <= n
    BY <2>1, LeastNat
  <2>3. m # 0 /\ m - 1 \in Nat /\ m - 1 \notin wrong
    BY <1>1, <2>2
  <2>4. Telescopes(m - 1 + 1)
    BY <1>2, <2>3
  <2>5. QED
    BY <2>2, <2>4
<1>4. to + 1 - from \in Nat
  OBVIOUS
<1>5. Telescopes(to + 1 - from)
  BY <1>3, <1>4
<1>6. from + (to + 1 - from) - 1 = to /\ from + (to + 1 - from) = to + 1
  OBVIOUS
<1>7. QED
  BY <1>5, <1>6 DEF Telescopes
=============================================================================
