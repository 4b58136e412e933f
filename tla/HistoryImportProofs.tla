------------------------- MODULE HistoryImportProofs -------------------------
(***************************************************************************)
(* Theorems about HistoryImport, for any recordings of any length, any     *)
(* needs of any number of sources and any length of the chunks: slicing    *)
(* the shared series gives every source what an own request would have     *)
(* given it, only a repeated record makes a repeated sample, failures stay *)
(* with their entities, and nothing is asked after a rejected token.       *)
(***************************************************************************)
EXTENDS HistoryImport, HistorySeriesProofs

-----------------------------------------------------------------------------
(* The needs of a cycle. *)

Kinds == {"counter", "state"}
Requests == [entity : Entities, kind : Kinds, from : Int, to : Int]

LEMMA NeedsType ==
  ASSUME needs \in Plans
  PROVE  /\ needs \in Seq(Seq(Requests))
         /\ Len(needs) \in Nat /\ DOMAIN needs = 1..Len(needs)
         /\ \A i \in DOMAIN needs : /\ needs[i] \in Seq(Requests)
                                    /\ Len(needs[i]) \in Nat
                                    /\ DOMAIN needs[i] = 1..Len(needs[i])
         /\ \A i \in DOMAIN needs : \A j \in DOMAIN needs[i] :
              needs[i][j] \in Requests /\ needs[i][j].from < needs[i][j].to
<1>1. /\ needs \in Seq(Seq(Requests))
      /\ \A source \in Range(needs) : \A need \in Range(source) : need.from < need.to
  BY NeedAssumption DEF Requests, Kinds
<1>2. Len(needs) \in Nat /\ DOMAIN needs = 1..Len(needs)
  BY <1>1
<1>3. \A i \in DOMAIN needs : needs[i] \in Seq(Requests) /\ needs[i] \in Range(needs)
  BY <1>1 DEF Range
<1>4. \A i \in DOMAIN needs : Len(needs[i]) \in Nat /\ DOMAIN needs[i] = 1..Len(needs[i])
  BY <1>3
<1>5. \A i \in DOMAIN needs : \A j \in DOMAIN needs[i] :
        needs[i][j] \in Requests /\ needs[i][j] \in Range(needs[i])
  BY <1>3, <1>4 DEF Range
<1>6. QED
  BY <1>1, <1>2, <1>3, <1>4, <1>5

LEMMA PlacesAre ==
  ASSUME needs \in Plans
  PROVE  /\ IsFiniteSet(Places)
         /\ \A p \in Places : /\ p[1] \in DOMAIN needs /\ p[1] \in Nat
                              /\ p[2] \in DOMAIN needs[p[1]] /\ p[2] \in Nat
                              /\ p = <<p[1], p[2]>>
         /\ \A i \in DOMAIN needs : \A j \in DOMAIN needs[i] : <<i, j>> \in Places
<1> DEFINE n == Len(needs)
           Row(i) == {i} \X (DOMAIN needs[i])
           rows == {Row(i) : i \in DOMAIN needs}
           f == [i \in 1..n |-> Row(i)]
<1>1. n \in Nat /\ DOMAIN needs = 1..n
  BY NeedsType
<1>2. f \in Surjection(1..n, rows)
  BY <1>1 DEF Surjection
<1>3. IsFiniteSet(1..n)
  BY <1>1, FS_Interval
<1>4. IsFiniteSet(rows)
  BY <1>2, <1>3, FS_Surjection
<1>5. ASSUME NEW i \in DOMAIN needs
      PROVE  IsFiniteSet(Row(i))
  <2>1. Len(needs[i]) \in Nat /\ DOMAIN needs[i] = 1..Len(needs[i])
    BY NeedsType
  <2>2. IsFiniteSet(DOMAIN needs[i])
    BY <2>1, FS_Interval
  <2>3. IsFiniteSet({i})
    BY FS_Singleton
  <2>4. QED
    BY <2>2, <2>3, FS_Product
<1>6. IsFiniteSet(UNION rows)
  BY <1>4, <1>5, FS_UNION
<1>7. ASSUME NEW p \in Places
      PROVE  /\ p[1] \in DOMAIN needs /\ p[1] \in Nat
             /\ p[2] \in DOMAIN needs[p[1]] /\ p[2] \in Nat
             /\ p = <<p[1], p[2]>>
  <2>1. PICK i \in DOMAIN needs : p \in Row(i)
    BY DEF Places
  <2>2. p[1] = i /\ p[2] \in DOMAIN needs[i] /\ p = <<p[1], p[2]>>
    BY <2>1
  <2>3. Len(needs[i]) \in Nat /\ DOMAIN needs[i] = 1..Len(needs[i])
    BY NeedsType
  <2>4. QED
    BY <1>1, <2>2, <2>3
<1>8. \A i \in DOMAIN needs : \A j \in DOMAIN needs[i] : <<i, j>> \in Places
  BY DEF Places
<1>9. QED
  BY <1>6, <1>7, <1>8 DEF Places

LEMMA NeededAre ==
  ASSUME needs \in Plans
  PROVE  /\ \A p \in Places : NeedAt(p) \in Needed
         /\ \A n \in Needed : /\ n \in Requests /\ n.from < n.to
                              /\ \E p \in Places : n = NeedAt(p)
         /\ \A i \in DOMAIN needs : \A n \in Range(needs[i]) : n \in Needed
<1>1. \A p \in Places : NeedAt(p) \in Needed
  BY DEF Needed
<1>2. \A p \in Places : NeedAt(p) \in Requests /\ NeedAt(p).from < NeedAt(p).to
  BY PlacesAre, NeedsType DEF NeedAt
<1>3. \A i \in DOMAIN needs : \A n \in Range(needs[i]) : n \in Needed
  <2>1. TAKE i \in DOMAIN needs
  <2>2. TAKE n \in Range(needs[i])
  <2>3. PICK j \in DOMAIN needs[i] : n = needs[i][j]
    BY DEF Range
  <2>4. <<i, j>> \in Places /\ NeedAt(<<i, j>>) = n
    BY <2>3, PlacesAre DEF NeedAt
  <2>5. QED
    BY <1>1, <2>4
<1>4. QED
  BY <1>1, <1>2, <1>3 DEF Needed

\* The order of the needs.
LEMMA EarlierOrders ==
  ASSUME needs \in Plans, NEW S \in SUBSET Places
  PROVE  Orders({x \in S \X S : Earlier(x[1], x[2])}, S)
<1> DEFINE R == {x \in S \X S : Earlier(x[1], x[2])}
<1>1. \A p, q \in S : <<p, q>> \in R <=> \/ p[1] < q[1]
                                         \/ p[1] = q[1] /\ p[2] < q[2]
  BY DEF Earlier
<1>2. \A p \in S : p[1] \in Int /\ p[2] \in Int /\ p = <<p[1], p[2]>>
  BY PlacesAre
<1>3. \A p, q \in S : p[1] = q[1] /\ p[2] = q[2] => p = q
  BY <1>2
<1> HIDE DEF R
<1>4. \A p \in S : <<p, p>> \notin R
  BY <1>1, <1>2
<1>5. \A p, q, r \in S : <<p, q>> \in R /\ <<q, r>> \in R => <<p, r>> \in R
  BY <1>1, <1>2
<1>6. \A p, q \in S : p = q \/ <<p, q>> \in R \/ <<q, p>> \in R
  <2>1. TAKE p, q \in S
  <2>2. p[1] < q[1] \/ q[1] < p[1] \/ p[1] = q[1]
    BY <1>2
  <2>3. p[2] < q[2] \/ q[2] < p[2] \/ p[2] = q[2]
    BY <1>2
  <2>4. QED
    BY <1>1, <1>3, <2>2, <2>3
<1>7. QED
  BY <1>4, <1>5, <1>6 DEF Orders, R

\* A set of places has a first one.
LEMMA FirstOf ==
  ASSUME needs \in Plans, NEW S \in SUBSET Places, S # {}
  PROVE  \E p \in S : \A q \in S : ~Earlier(q, p)
<1> DEFINE A == {p[1] : p \in S}
<1>1. A \in SUBSET Nat /\ A # {}
  BY PlacesAre
<1>2. PICK i \in A : \A a \in A : i <= a
  BY <1>1, LeastNat
<1> DEFINE B == {p[2] : p \in {p \in S : p[1] = i}}
<1>3. B \in SUBSET Nat /\ B # {}
  BY PlacesAre
<1>4. PICK j \in B : \A b \in B : j <= b
  BY <1>3, LeastNat
<1>5. PICK p \in S : p[1] = i /\ p[2] = j
  OBVIOUS
<1>6. \A q \in S : q[1] \in Nat /\ q[2] \in Nat /\ i <= q[1] /\ (q[1] = i => j <= q[2])
  BY <1>2, <1>4, PlacesAre
<1>7. \A q \in S : ~Earlier(q, p)
  BY <1>5, <1>6 DEF Earlier
<1>8. QED
  BY <1>7

\* The entities, each once.
LEMMA DistinctIs ==
  ASSUME needs \in Plans
  PROVE  /\ Len(Distinct) \in Nat /\ DOMAIN Distinct = 1..Len(Distinct)
         /\ \A k \in DOMAIN Distinct : Distinct[k] \in Needed
         /\ \A k, l \in DOMAIN Distinct :
              k # l => Distinct[k].entity # Distinct[l].entity
         /\ \A n \in Needed : \E k \in DOMAIN Distinct : Distinct[k].entity = n.entity
<1> DEFINE F == FirstPlaces
           R == {x \in F \X F : Earlier(x[1], x[2])}
           m == Cardinality(F)
           p == Arranged(F, R)
           d == [k \in 1..m |-> NeedAt(p[k])]
<1>1. F \in SUBSET Places /\ IsFiniteSet(F)
  BY PlacesAre, FS_Subset DEF FirstPlaces
<1>2. Orders(R, F)
  BY <1>1, EarlierOrders
<1> HIDE DEF F, R
<1>3. /\ m \in Nat /\ p \in [1..m -> F]
      /\ \A x \in F : \E k \in 1..m : p[k] = x
      /\ \A j, k \in 1..m : j < k => <<p[j], p[k]>> \in R
  BY <1>1, <1>2, ArrangedIs
<1>4. Distinct = d
  BY <1>3 DEF Distinct, F, R
<1>5. \A k \in 1..m : d[k] = NeedAt(p[k]) /\ p[k] \in F /\ p[k] \in Places /\ d[k] \in Needed
  BY <1>1, <1>3, NeededAre
<1>6. d \in Seq(Needed) /\ DOMAIN d = 1..m /\ Len(d) = m
  BY <1>3, <1>5
<1>7. \A x, y \in F : NeedAt(x).entity = NeedAt(y).entity => ~Earlier(x, y)
  BY DEF FirstPlaces, F
<1>8. \A k, l \in 1..m : k # l => d[k].entity # d[l].entity
  <2>1. TAKE k, l \in 1..m
  <2>2. HAVE k # l
  <2>3. k < l \/ l < k
    BY <1>3, <2>2
  <2>4. Earlier(p[k], p[l]) \/ Earlier(p[l], p[k])
    <3>1. /\ p[k] \in F /\ p[l] \in F
          /\ <<p[k], p[l]>> \in R \/ <<p[l], p[k]>> \in R
      BY <1>3, <2>3
    <3>2. QED
      BY <3>1 DEF R
  <2>5. QED
    BY <1>5, <1>7, <2>4
<1>9. ASSUME NEW n \in Needed
      PROVE  \E k \in 1..m : d[k].entity = n.entity
  <2> DEFINE Q == {q \in Places : NeedAt(q).entity = n.entity}
  <2>1. Q \in SUBSET Places /\ Q # {}
    BY NeededAre
  <2>2. PICK q \in Q : \A x \in Q : ~Earlier(x, q)
    BY <2>1, FirstOf
  <2>3. q \in F
    BY <2>2 DEF FirstPlaces, F
  <2>4. PICK k \in 1..m : p[k] = q
    BY <1>3, <2>3
  <2>5. QED
    BY <1>5, <2>2, <2>4
<1> HIDE DEF d, m
<1>10. Len(d) \in Nat /\ DOMAIN d = 1..Len(d)
  BY <1>3, <1>6
<1>11. QED
  BY <1>4, <1>5, <1>6, <1>8, <1>9, <1>10

\* A range covers the needs of its entity and no more than they do at its end.
RangeOk(r) ==
  /\ r \in Requests /\ r.from < r.to
  /\ \A n \in NeedsOf(r.entity) : r.from <= n.from /\ n.to <= r.to
  /\ \E n \in NeedsOf(r.entity) : n.kind = r.kind
  /\ \E n \in NeedsOf(r.entity) : n.to = r.to

\* The ranges of the needs of an entity have a least start and a greatest end.
LEMMA WholeIs ==
  ASSUME needs \in Plans, NEW n \in Needed
  PROVE  Whole(n).entity = n.entity /\ RangeOk(Whole(n))
<1> DEFINE N == NeedsOf(n.entity)
           from == {m.from : m \in N}
           to == {m.to : m \in N}
<1>1. n \in N /\ \A m \in N : m \in Requests /\ m.from < m.to /\ m \in Needed
  BY NeededAre DEF NeedsOf
<1>2. IsFiniteSet(N)
  <2> DEFINE f == [p \in Places |-> NeedAt(p)]
  <2>1. f \in Surjection(Places, Needed)
    BY DEF Surjection, Needed
  <2>2. IsFiniteSet(Needed)
    BY <2>1, PlacesAre, FS_Surjection
  <2>3. QED
    BY <2>2, FS_Subset DEF NeedsOf
<1>3. IsFiniteSet(from) /\ from \in SUBSET Int /\ from # {}
  <2> DEFINE f == [m \in N |-> m.from]
  <2>1. f \in Surjection(N, from)
    BY DEF Surjection
  <2>2. IsFiniteSet(from)
    BY <1>2, <2>1, FS_Surjection
  <2>3. QED
    BY <1>1, <2>2 DEF Requests
<1>4. IsFiniteSet(to) /\ to \in SUBSET Int /\ to # {}
  <2> DEFINE f == [m \in N |-> m.to]
  <2>1. f \in Surjection(N, to)
    BY DEF Surjection
  <2>2. IsFiniteSet(to)
    BY <1>2, <2>1, FS_Surjection
  <2>3. QED
    BY <1>1, <2>2 DEF Requests
<1>5. /\ Min(from) \in from /\ \A x \in from : Min(from) <= x
      /\ Max(to) \in to /\ \A x \in to : x <= Max(to)
  BY <1>3, <1>4, MinIs, MaxIs
<1>6. Whole(n) = [entity |-> n.entity, kind |-> n.kind, from |-> Min(from), to |-> Max(to)]
  BY DEF Whole
<1>7. /\ \A m \in N : Min(from) <= m.from /\ m.to <= Max(to)
      /\ \E m \in N : m.to = Max(to)
      /\ Min(from) \in Int /\ Max(to) \in Int
  BY <1>3, <1>4, <1>5
<1>8. Min(from) < Max(to)
  <2>1. n.from \in Int /\ n.to \in Int /\ n.from < n.to
    BY <1>1 DEF Requests
  <2>2. Min(from) <= n.from /\ n.to <= Max(to)
    BY <1>1, <1>7
  <2>3. QED
    BY <1>7, <2>1, <2>2
<1>9. Whole(n) \in Requests
  BY <1>1, <1>6, <1>7 DEF Requests
<1> HIDE DEF from, to
<1>10. QED
  BY <1>1, <1>6, <1>7, <1>8, <1>9 DEF RangeOk

\* One range per entity.
LEMMA MergedIs ==
  ASSUME needs \in Plans
  PROVE  /\ Merged \in Seq(Requests)
         /\ \A k \in DOMAIN Merged : RangeOk(Merged[k])
         /\ \A k, l \in DOMAIN Merged : k # l => Merged[k].entity # Merged[l].entity
         /\ \A n \in Needed : \E k \in DOMAIN Merged : Merged[k].entity = n.entity
<1>1. Len(Distinct) \in Nat /\ DOMAIN Distinct = 1..Len(Distinct)
  BY DistinctIs
<1>2. DOMAIN Merged = DOMAIN Distinct
  BY DEF Merged
<1>3. \A k \in DOMAIN Distinct : /\ Merged[k] = Whole(Distinct[k])
                                 /\ Merged[k].entity = Distinct[k].entity
                                 /\ RangeOk(Merged[k])
  BY DistinctIs, WholeIs DEF Merged
<1>4. \A k \in DOMAIN Distinct : Merged[k] \in Requests
  BY <1>3 DEF RangeOk
<1>5. Merged \in Seq(Requests)
  <2>1. Merged = [k \in 1..Len(Distinct) |-> Merged[k]]
    BY <1>1 DEF Merged
  <2>2. Merged \in [1..Len(Distinct) -> Requests]
    BY <1>1, <1>4, <2>1
  <2>3. QED
    BY <1>1, <2>2
<1>6. QED
  BY <1>2, <1>3, <1>5, DistinctIs

-----------------------------------------------------------------------------
(* The records of one entity. *)

\* The records that tell the state in force within a period.
Within(recording, from, upto) ==
  {x \in Told(recording) : x.at \in from..upto /\ x.report # Silent}

\* The records of the chunks from from up to upto.
Gathered(recs, recording, from, upto) ==
  /\ recs \in Seq(Within(recording, from, upto))
  /\ from < upto /\ InForce(recording, from) # Silent => from \in Times(recs)
  /\ \A t \in Reported(recording) : from <= t /\ t < upto => t \in Times(recs)

\* The same for samples, which are in the order of time.
Sampled(samples, recording, from, to) ==
  /\ samples \in Seq({samples[i] : i \in DOMAIN samples})
  /\ InOrder(samples)
  /\ \A i \in DOMAIN samples :
       /\ samples[i].at \in from..to /\ InForce(recording, samples[i].at) # Silent
       /\ samples[i] = [at |-> samples[i].at, recorded |-> samples[i].at,
                        state |-> InForce(recording, samples[i].at).state,
                        invalid |-> samples[i].invalid, unit |-> samples[i].unit]
  /\ InForce(recording, from) # Silent => from \in Times(samples)
  /\ \A t \in Reported(recording) : from <= t /\ t < to => t \in Times(samples)

LEMMA WithinIs ==
  ASSUME NEW recording, NEW from \in Int, NEW upto \in Int,
         NEW x \in Within(recording, from, upto)
  PROVE  /\ x.at \in Int /\ from <= x.at /\ x.at <= upto
         /\ x.report = InForce(recording, x.at) /\ x.report # Silent
  BY ToldIs DEF Within

\* An answer for a chunk, as it comes.
LEMMA ChunkIs ==
  ASSUME NEW recording, IsRecording(recording),
         NEW from \in Int, NEW to \in Int, from < to, NEW closing \in BOOLEAN
  PROVE  LET answer == Answer(recording, from, to, closing)
         IN Gathered(answer, recording, from, to) /\ ~Repeats(answer)
<1> DEFINE a == Answer(recording, from, to, closing)
<1>1. /\ a \in Seq(Told(recording))
      /\ \A i \in DOMAIN a : a[i].at \in from..to /\ a[i].report # Silent
      /\ InForce(recording, from) # Silent => from \in Times(a)
      /\ \A t \in Reported(recording) : from <= t /\ t < to => t \in Times(a)
      /\ \A i, j \in DOMAIN a : i < j => a[i].at < a[j].at
  BY AnswerIs
<1> HIDE DEF a
<1>2. \A i \in DOMAIN a : a[i] \in Within(recording, from, to)
  BY <1>1 DEF Within
<1>3. a \in Seq(Within(recording, from, to))
  <2>1. a \in [1..Len(a) -> Within(recording, from, to)] /\ Len(a) \in Nat
    BY <1>1, <1>2
  <2>2. QED
    BY <2>1
<1>4. ~Repeats(a)
  <2>1. SUFFICES ASSUME NEW i \in DOMAIN a, NEW j \in DOMAIN a, i # j, a[i].at = a[j].at
                 PROVE  FALSE
    BY DEF Repeats
  <2>2. i \in Int /\ j \in Int /\ a[i].at \in Int /\ a[j].at \in Int
    BY <1>1
  <2>3. i < j \/ j < i
    BY <2>1, <2>2
  <2>4. a[i].at < a[j].at \/ a[j].at < a[i].at
    BY <1>1, <2>3
  <2>5. QED
    BY <2>1, <2>2, <2>4
<1>5. QED
  BY <1>1, <1>3, <1>4 DEF Gathered, a

\* An answer that repeats its last record.
LEMMA RepeatedIs ==
  ASSUME NEW T, NEW a \in Seq(T), a # <<>>
  PROVE  LET b == a \o <<a[Len(a)]>>
         IN b \in Seq(T) /\ Times(b) = Times(a) /\ Repeats(b)
<1> DEFINE n == Len(a)
           last == a[n]
           b == a \o <<last>>
<1>1. n \in Nat /\ n \in 1..n /\ DOMAIN a = 1..n /\ last \in T
  BY EmptySeq
<1>2. <<last>> \in Seq(T) /\ Len(<<last>>) = 1 /\ <<last>>[1] = last
  BY <1>1
<1> HIDE DEF last
<1>3. /\ b \in Seq(T) /\ Len(b) = n + 1
      /\ \A i \in 1..n + 1 : b[i] = IF i <= n THEN a[i] ELSE <<last>>[i - n]
  <2>1. /\ b \in Seq(T) /\ Len(b) = Len(a) + Len(<<last>>)
        /\ \A i \in 1..Len(a) + Len(<<last>>) :
             b[i] = IF i <= Len(a) THEN a[i] ELSE <<last>>[i - Len(a)]
    BY <1>2, ConcatProperties
  <2>2. QED
    BY <1>2, <2>1
<1> HIDE DEF n, b
<1>4. DOMAIN b = 1..n + 1
  BY <1>3, LenProperties
<1>5. \A i \in 1..n : i \in 1..n + 1 /\ b[i] = a[i]
  BY <1>1, <1>3
<1>6. n + 1 \in 1..n + 1 /\ b[n + 1] = last
  <2> DEFINE i == n + 1
  <2>1. i \in 1..n + 1 /\ ~(i <= n) /\ i - n = 1
    BY <1>1
  <2> HIDE DEF i
  <2>2. b[i] = <<last>>[i - n]
    BY <1>3, <2>1
  <2>3. QED
    BY <1>2, <2>1, <2>2 DEF i
<1>7. \A i \in 1..n + 1 : i \in 1..n \/ i = n + 1
  BY <1>1
<1>8. last = a[n] /\ n # n + 1
  BY <1>1 DEF last
<1>9. Times(b) = Times(a)
  <2>1. \A i \in 1..n + 1 : b[i].at \in Times(a)
    BY <1>1, <1>5, <1>6, <1>7, <1>8 DEF Times
  <2>2. \A i \in 1..n : a[i].at \in Times(b)
    BY <1>4, <1>5 DEF Times
  <2>3. QED
    BY <1>1, <1>4, <2>1, <2>2 DEF Times
<1>10. Repeats(b)
  BY <1>1, <1>4, <1>5, <1>6, <1>8 DEF Repeats
<1>11. QED
  BY <1>3, <1>9, <1>10 DEF b, n, last

\* The records after one more chunk.
LEMMA JoinedGathered ==
  ASSUME NEW recording, IsRecording(recording),
         NEW from \in Int, NEW c \in Int, NEW d \in Int, from <= c, c < d,
         NEW recs, Gathered(recs, recording, from, c),
         NEW answer, Gathered(answer, recording, c, d)
  PROVE  /\ Gathered(Joined(recs, answer), recording, from, d)
         /\ Repeats(Joined(recs, answer)) <=> Repeats(recs) \/ Repeats(answer)
         /\ Joined(recs, answer) = <<>> => Times(answer) = {} /\ Times(recs) = {}
<1> DEFINE T == Within(recording, from, d)
           j == Joined(recs, answer)
<1>1. Within(recording, from, c) \subseteq T /\ Within(recording, c, d) \subseteq T
  <2>1. ASSUME NEW x \in Within(recording, from, c)
        PROVE  x \in T
    BY WithinIs DEF Within
  <2>2. ASSUME NEW x \in Within(recording, c, d)
        PROVE  x \in T
    BY WithinIs DEF Within
  <2>3. QED
    BY <2>1, <2>2
<1> HIDE DEF T
<1>2. recs \in Seq(T) /\ answer \in Seq(T)
  BY <1>1, SeqMonotonic DEF Gathered
<1>3. /\ j \in Seq(T)
      /\ Times(j) = Times(recs) \cup Times(answer)
      /\ Repeats(j) <=> Repeats(recs) \/ Repeats(answer)
  BY <1>2, JoinedIs
<1>4. InForce(recording, from) # Silent => from \in Times(j)
  <2>1. CASE from < c
    BY <1>3, <2>1 DEF Gathered
  <2>2. CASE from = c
    BY <1>3, <2>2 DEF Gathered
  <2>3. QED
    BY <2>1, <2>2
<1>5. \A t \in Reported(recording) : from <= t /\ t < d => t \in Times(j)
  <2>1. TAKE t \in Reported(recording)
  <2>2. t \in Int
    BY ReportedInForce
  <2>3. CASE t < c
    BY <1>3, <2>3 DEF Gathered
  <2>4. CASE c <= t
    BY <1>3, <2>4 DEF Gathered
  <2>5. QED
    BY <2>2, <2>3, <2>4
<1>6. j = <<>> => Times(j) = {}
  BY DEF Times
<1>7. QED
  BY <1>3, <1>4, <1>5, <1>6 DEF Gathered, T

\* Cleaning keeps the times and the states.
LEMMA CleanedIs ==
  ASSUME NEW recording, NEW from \in Int, NEW to \in Int, from < to,
         NEW recs, Gathered(recs, recording, from, to), NEW kind
  PROVE  /\ Sampled(Cleaned(kind, recs), recording, from, to)
         /\ Repeats(Cleaned(kind, recs)) <=> Repeats(recs)
<1> DEFINE T == Within(recording, from, to)
           s == Sorted(recs)
           c == Cleaned(kind, recs)
<1>1. recs \in Seq(T) /\ \A x \in T : x.at \in Int
  BY WithinIs DEF Gathered
<1>2. /\ s \in Seq(T) /\ Times(s) = Times(recs) /\ InOrder(s)
      /\ Repeats(s) <=> Repeats(recs)
  BY <1>1, SortedIs
<1>3. DOMAIN s = 1..Len(s) /\ Len(s) \in Nat /\ \A i \in DOMAIN s : s[i] \in T
  BY <1>2
<1>4. /\ DOMAIN c = DOMAIN s
      /\ \A i \in DOMAIN s :
           /\ c[i].at = s[i].at
           /\ c[i] = [at |-> c[i].at, recorded |-> c[i].at, state |-> s[i].report.state,
                      invalid |-> c[i].invalid, unit |-> c[i].unit]
  BY DEF Cleaned
<1>5. c \in Seq({c[i] : i \in DOMAIN c})
  <2>1. c = [i \in 1..Len(s) |-> c[i]]
    BY <1>3 DEF Cleaned
  <2> HIDE DEF c
  <2>2. c \in [1..Len(s) -> {c[i] : i \in DOMAIN c}]
    BY <1>3, <1>4, <2>1
  <2>3. QED
    BY <1>3, <2>2
<1> HIDE DEF c, s
<1>6. Times(c) = Times(s)
  BY <1>4 DEF Times
<1>7. InOrder(c) /\ (Repeats(c) <=> Repeats(s))
  BY <1>2, <1>4 DEF InOrder, Repeats
<1>8. \A i \in DOMAIN s : /\ s[i].at \in from..to
                          /\ s[i].report = InForce(recording, s[i].at)
                          /\ s[i].report # Silent
  BY <1>3, WithinIs
<1>9. \A i \in DOMAIN c :
        /\ c[i].at \in from..to /\ InForce(recording, c[i].at) # Silent
        /\ c[i] = [at |-> c[i].at, recorded |-> c[i].at,
                   state |-> InForce(recording, c[i].at).state,
                   invalid |-> c[i].invalid, unit |-> c[i].unit]
  BY <1>4, <1>8
<1>10. QED
  BY <1>2, <1>5, <1>6, <1>7, <1>9 DEF Sampled, Gathered, c, s

-----------------------------------------------------------------------------
(* The invariant. *)

Outcomes == {"answered", "repeated", "failed", "rejected"}
Asks == [entity : Entities, from : Int, to : Int, outcome : Outcomes]

TypeInv ==
  /\ recorder \in Recorders /\ needs \in Plans
  /\ phase \in {"merge", "import", "build"}
  /\ planError = (phase # "merge" /\ Contradictory)
  /\ ranges \in Seq(Requests) /\ asked \in Seq(Asks)
  /\ results \in Seq({"built", "failed", "misplanned"}) /\ Len(results) <= Len(needs)

Rejection == \E a \in Range(asked) : a.outcome = "rejected"
Repeated(e) == \E a \in Range(asked) : a.entity = e /\ a.outcome = "repeated"

\* Nothing is there before the needs are merged, no result before the import is over.
Phases ==
  /\ phase = "merge" => /\ asked = <<>>
                        /\ DOMAIN series = {} /\ DOMAIN failures = {}
  /\ phase = "import" <=> ranges # <<>>
  /\ results # <<>> \/ Rejection => phase = "build"

\* The entities that are not imported yet are different ones, no request was sent for
\* them but for the first.
Pending ==
  /\ \A k \in DOMAIN ranges : /\ RangeOk(ranges[k])
                              /\ ranges[k].entity \notin DOMAIN series \cup DOMAIN failures
  /\ \A k, l \in DOMAIN ranges : k # l => ranges[k].entity # ranges[l].entity
  /\ \A k \in DOMAIN ranges : k > 1 =>
       \A a \in Range(asked) : a.entity # ranges[k].entity

\* The entity being imported.
Current ==
  phase = "import" =>
    /\ cursor \in Int /\ Entity.from <= cursor /\ cursor < Entity.to
    /\ Gathered(records, recorder[Entity.entity], Entity.from, cursor)
    /\ Repeats(records) <=> Repeated(Entity.entity)

\* No entity is forgotten.
Accounted ==
  phase # "merge" /\ ~planError =>
    \A n \in Needed : n.entity \in DOMAIN series \cup DOMAIN failures
                                     \cup {ranges[k].entity : k \in DOMAIN ranges}

SeriesOk(e) ==
  LET s == series[e]
  IN /\ RangeOk([entity |-> e, kind |-> s.kind, from |-> s.from, to |-> s.to])
     /\ Sampled(s.samples, recorder[e], s.from, s.to)
     /\ Repeats(s.samples) <=> Repeated(e)

\* What was built was read.
BuiltRead ==
  \A i \in DOMAIN results : results[i] = "built" =>
    \A n \in Range(needs[i]) : Read(n) = "read"

ImportInv ==
  /\ TypeInv /\ Phases /\ Pending /\ Current /\ Accounted
  /\ \A e \in DOMAIN series : SeriesOk(e)
  /\ \A e \in DOMAIN failures : OwnFailure(e)
  /\ FailuresStayLocal /\ BuiltRead

LEMMA RecordingIs ==
  ASSUME recorder \in Recorders, NEW e \in Entities
  PROVE  IsRecording(recorder[e])
BY RecorderAssumption DEF IsRecording

\* A request adds itself to those that were sent.
LEMMA AskIs ==
  ASSUME ImportInv, phase = "import", NEW o \in Outcomes, Ask(o)
  PROVE  LET a == [entity |-> Entity.entity, from |-> cursor, to |-> ChunkEnd, outcome |-> o]
         IN /\ asked' \in Seq(Asks)
            /\ Range(asked') = Range(asked) \cup {a}
            /\ cursor < ChunkEnd /\ ChunkEnd \in Int /\ ChunkEnd <= Entity.to
            /\ ranges # <<>> /\ Entity \in Requests /\ RangeOk(Entity)
            /\ Entity = ranges[1] /\ 1 \in DOMAIN ranges
            /\ Entity.entity \notin DOMAIN series \cup DOMAIN failures
<1>1. /\ ranges \in Seq(Requests) /\ ranges # <<>> /\ asked \in Seq(Asks)
  BY DEF ImportInv, TypeInv, Phases
<1>2. Entity = ranges[1] /\ 1 \in DOMAIN ranges /\ Entity \in Requests
  BY <1>1, EmptySeq DEF Entity
<1>3. RangeOk(Entity) /\ Entity.entity \notin DOMAIN series \cup DOMAIN failures
  BY <1>2 DEF ImportInv, Pending
<1>4. cursor \in Int /\ cursor < Entity.to /\ Entity.to \in Int /\ Entity.entity \in Entities
  BY <1>2 DEF ImportInv, Current, Requests
<1>5. ChunkEnd \in {cursor + Chunk, Entity.to} /\ cursor < ChunkEnd /\ ChunkEnd <= Entity.to
  <2> DEFINE I == {cursor + Chunk, Entity.to}
  <2>1. Chunk \in Nat \ {0}
    BY ChunkAssumption
  <2>2. I \in SUBSET Int /\ I # {}
    BY <1>4, <2>1
  <2>3. IsFiniteSet(I)
    <3>1. IsFiniteSet({cursor + Chunk}) /\ IsFiniteSet({Entity.to})
      BY FS_Singleton
    <3>2. I = {cursor + Chunk} \cup {Entity.to}
      OBVIOUS
    <3>3. QED
      BY <3>1, <3>2, FS_Union
  <2>4. Min(I) \in I /\ Min(I) <= Entity.to
    BY <2>2, <2>3, MinIs
  <2>5. Min(I) = cursor + Chunk \/ Min(I) = Entity.to
    BY <2>4
  <2>6. cursor < Min(I)
    BY <1>4, <2>1, <2>5
  <2>7. QED
    BY <2>4, <2>6 DEF ChunkEnd
<1>6. ChunkEnd \in Int
  BY <1>4, <1>5, ChunkAssumption
<1> DEFINE a == [entity |-> Entity.entity, from |-> cursor, to |-> ChunkEnd, outcome |-> o]
<1>7. a \in Asks
  BY <1>4, <1>6 DEF Asks
<1>8. asked' = Append(asked, a)
  BY DEF Ask
<1> HIDE DEF a
<1>9. /\ asked' \in Seq(Asks) /\ Len(asked') = Len(asked) + 1 /\ Len(asked) \in Nat
      /\ \A i \in 1..Len(asked) : asked'[i] = asked[i]
      /\ asked'[Len(asked) + 1] = a
      /\ DOMAIN asked = 1..Len(asked) /\ DOMAIN asked' = 1..Len(asked')
  BY <1>1, <1>7, <1>8, AppendProperties
<1>10. Range(asked') = Range(asked) \cup {a}
  <2>1. \A i \in 1..Len(asked) + 1 : i \in 1..Len(asked) \/ i = Len(asked) + 1
    BY <1>9
  <2>2. \A i \in 1..Len(asked) : i \in 1..Len(asked) + 1
    BY <1>9
  <2>3. Len(asked) + 1 \in 1..Len(asked) + 1
    BY <1>9
  <2>4. \A i \in DOMAIN asked' : asked'[i] \in Range(asked) \cup {a}
    BY <1>9, <2>1 DEF Range
  <2>5. \A i \in DOMAIN asked : asked[i] \in Range(asked')
    BY <1>9, <2>2 DEF Range
  <2>6. a \in Range(asked')
    BY <1>9, <2>3 DEF Range
  <2>7. Range(asked') = {asked'[i] : i \in DOMAIN asked'}
        /\ Range(asked) = {asked[i] : i \in DOMAIN asked}
    BY DEF Range
  <2>8. QED
    BY <2>4, <2>5, <2>6, <2>7
<1>11. QED
  BY <1>1, <1>2, <1>3, <1>5, <1>6, <1>9, <1>10 DEF a

\* What a request does to what is known of the entities: nothing for the others, and
\* a failure stays explained.
LEMMA AskedMore ==
  ASSUME ImportInv, phase = "import", NEW o \in Outcomes, Ask(o), UNCHANGED inputs
  PROVE  /\ \A e : Repeated(e)' <=> Repeated(e) \/ (e = Entity.entity /\ o = "repeated")
         /\ \A e : OwnFailure(e) => OwnFailure(e)'
         /\ o = "failed" => \A e : e = Entity.entity => OwnFailure(e)'
         /\ o = "rejected" => \A e : OwnFailure(e)'
         /\ Rejection' <=> Rejection \/ o = "rejected"
         /\ \A r : RangeOk(r)' <=> RangeOk(r)
<1> DEFINE a == [entity |-> Entity.entity, from |-> cursor, to |-> ChunkEnd, outcome |-> o]
<1>1. Range(asked') = Range(asked) \cup {a}
  BY AskIs
<1>2. a.entity = Entity.entity /\ a.outcome = o
  OBVIOUS
<1> HIDE DEF a
<1>3. recorder' = recorder /\ needs' = needs
  BY DEF inputs
<1>4. \A e : NeedsOf(e)' = NeedsOf(e)
  BY <1>3 DEF NeedsOf, Needed, Places, NeedAt
<1>5. \A r : RangeOk(r)' <=> RangeOk(r)
  BY <1>4 DEF RangeOk
<1>6. \A e : Repeated(e)' <=> Repeated(e) \/ (e = Entity.entity /\ o = "repeated")
  BY <1>1, <1>2 DEF Repeated
<1>7. Rejection' <=> Rejection \/ o = "rejected"
  BY <1>1, <1>2 DEF Rejection
<1>8. \A e : OwnFailure(e) => OwnFailure(e)'
  BY <1>1, <1>3, <1>4 DEF OwnFailure
<1>9. o = "failed" => \A e : e = Entity.entity => OwnFailure(e)'
  BY <1>1, <1>2 DEF OwnFailure
<1>10. o = "rejected" => \A e : OwnFailure(e)'
  BY <1>1, <1>2 DEF OwnFailure
<1>11. QED
  BY <1>5, <1>6, <1>7, <1>8, <1>9, <1>10

-----------------------------------------------------------------------------
(* Every step keeps the invariant. *)

LEMMA ImportInit == Init => ImportInv
<1>1. SUFFICES ASSUME Init PROVE ImportInv
  OBVIOUS
<1>2. /\ recorder \in Recorders /\ needs \in Plans /\ phase = "merge" /\ planError = FALSE
      /\ ranges = <<>> /\ asked = <<>> /\ results = <<>>
      /\ series = << >> /\ failures = << >>
  BY <1>1 DEF Init
<1>a. DOMAIN series = {} /\ DOMAIN failures = {}
  BY <1>2
<1>3. Len(needs) \in Nat
  BY <1>2, NeedsType
<1>b. planError = (phase # "merge" /\ Contradictory)
  <2>1. (phase # "merge" /\ Contradictory) = FALSE
    BY <1>2
  <2>2. QED
    BY <1>2, <2>1, Zenon
<1>c. ranges \in Seq(Requests) /\ asked \in Seq(Asks) /\ Len(results) <= Len(needs)
      /\ results \in Seq({"built", "failed", "misplanned"})
  BY <1>2, <1>3
<1>4. TypeInv
  BY <1>2, <1>b, <1>c DEF TypeInv
<1>5. DOMAIN ranges = {} /\ DOMAIN results = {} /\ DOMAIN asked = {} /\ Range(asked) = {}
  BY <1>2 DEF Range
<1>6. Phases
  BY <1>2, <1>a, <1>5 DEF Phases, Rejection
<1>7. Pending /\ Current /\ Accounted
  BY <1>2, <1>5 DEF Pending, Current, Accounted
<1>8. FailuresStayLocal /\ BuiltRead
  BY <1>5 DEF FailuresStayLocal, BuiltRead
<1>9. QED
  BY <1>2, <1>a, <1>4, <1>6, <1>7, <1>8 DEF ImportInv

LEMMA NeedsSame ==
  ASSUME UNCHANGED inputs
  PROVE  /\ recorder' = recorder /\ needs' = needs
         /\ Needed' = Needed /\ (Contradictory' <=> Contradictory)
         /\ \A e : NeedsOf(e)' = NeedsOf(e)
         /\ \A r : RangeOk(r)' <=> RangeOk(r)
<1>1. recorder' = recorder /\ needs' = needs
  BY DEF inputs
<1>2. Needed' = Needed
  BY <1>1 DEF Needed, Places, NeedAt
<1>3. \A e : NeedsOf(e)' = NeedsOf(e)
  BY <1>2 DEF NeedsOf
<1>4. QED
  BY <1>1, <1>2, <1>3 DEF Contradictory, RangeOk

\* Nothing is gathered before the first chunk.
LEMMA NothingGathered ==
  ASSUME NEW recording, IsRecording(recording), NEW from \in Int
  PROVE  Gathered(<<>>, recording, from, from) /\ ~Repeats(<<>>)
<1>1. <<>> \in Seq(Within(recording, from, from)) /\ DOMAIN <<>> = {}
  BY EmptySeq
<1>2. \A t \in Reported(recording) : t \in Int
  BY ReportedInForce
<1>3. \A t \in Reported(recording) : ~(from <= t /\ t < from)
  BY <1>2
<1>4. QED
  BY <1>1, <1>3 DEF Gathered, Repeats

\* An import begins without a result, and keeps the record of what was built.
LEMMA NoResultsYet ==
  ASSUME results' = <<>>
  PROVE  FailuresStayLocal' /\ BuiltRead'
<1>1. DOMAIN results' = {}
  OBVIOUS
<1>2. QED
  BY <1>1 DEF FailuresStayLocal, BuiltRead

LEMMA MergeNeedsKeeps ==
  ASSUME ImportInv, MergeNeeds
  PROVE  ImportInv'
<1>1. /\ phase = "merge" /\ UNCHANGED inputs
      /\ series' = series /\ failures' = failures /\ asked' = asked /\ results' = results
      /\ planError' = Contradictory
  BY DEF MergeNeeds
<1>2. /\ recorder' = recorder /\ needs' = needs /\ Needed' = Needed
      /\ (Contradictory' <=> Contradictory) /\ \A r : RangeOk(r)' <=> RangeOk(r)
  BY <1>1, NeedsSame
<1>3. /\ recorder \in Recorders /\ needs \in Plans
      /\ ranges \in Seq(Requests) /\ asked \in Seq(Asks)
      /\ results \in Seq({"built", "failed", "misplanned"}) /\ Len(results) <= Len(needs)
      /\ ranges = <<>> /\ asked = <<>> /\ results = <<>>
      /\ DOMAIN series = {} /\ DOMAIN failures = {} /\ ~Rejection
  BY <1>1 DEF ImportInv, TypeInv, Phases
<1>4. FailuresStayLocal' /\ BuiltRead'
  BY <1>1, <1>3, NoResultsYet
<1>5. /\ DOMAIN series' = {} /\ DOMAIN failures' = {} /\ ~Rejection' /\ Range(asked') = {}
  BY <1>1, <1>3 DEF Rejection, Range
<1>6. CASE Needed = {} \/ Contradictory
  <2>1. phase' = "build" /\ ranges' = ranges
    BY <1>6 DEF MergeNeeds, progress
  <2>2. DOMAIN ranges' = {}
    BY <1>3, <2>1
  <2>a. planError' = (phase' # "merge" /\ Contradictory')
    <3>1. (phase' # "merge" /\ Contradictory') = Contradictory
      BY <1>2, <2>1 DEF Contradictory
    <3>2. QED
      BY <1>1, <3>1, Zenon
  <2>3. TypeInv'
    BY <1>1, <1>2, <1>3, <2>1, <2>a DEF TypeInv
  <2>4. Phases' /\ Pending' /\ Current'
    BY <1>1, <1>3, <1>5, <2>1, <2>2 DEF Phases, Pending, Current
  <2>5. Accounted'
    BY <1>1, <1>2, <1>6, <2>1 DEF Accounted
  <2>6. QED
    BY <1>4, <1>5, <2>3, <2>4, <2>5 DEF ImportInv
<1>7. CASE ~(Needed = {} \/ Contradictory)
  <2>1. /\ phase' = "import" /\ ranges' = Merged /\ records' = <<>>
        /\ cursor' = ranges'[1].from
    BY <1>7 DEF MergeNeeds
  <2>2. /\ ranges' \in Seq(Requests)
        /\ \A k \in DOMAIN ranges' : RangeOk(ranges'[k])
        /\ \A k, l \in DOMAIN ranges' : k # l => ranges'[k].entity # ranges'[l].entity
        /\ \A n \in Needed : \E k \in DOMAIN ranges' : ranges'[k].entity = n.entity
    BY <1>3, <2>1, MergedIs
  <2>3. ranges' # <<>>
    <3>1. PICK n \in Needed : TRUE
      BY <1>7
    <3>2. PICK k \in DOMAIN ranges' : TRUE
      BY <2>2, <3>1
    <3>3. QED
      BY <3>2
  <2>4. 1 \in DOMAIN ranges' /\ Entity' = ranges'[1]
    BY <2>2, <2>3, EmptySeq DEF Entity
  <2>a. planError' = (phase' # "merge" /\ Contradictory')
    <3>1. (phase' # "merge" /\ Contradictory') = Contradictory
      BY <1>2, <2>1 DEF Contradictory
    <3>2. QED
      BY <1>1, <3>1, Zenon
  <2>5. TypeInv'
    BY <1>1, <1>2, <1>3, <2>1, <2>2, <2>a DEF TypeInv
  <2>6. Phases'
    BY <1>1, <1>3, <1>5, <2>1, <2>3 DEF Phases
  <2>7. Pending'
    BY <1>2, <1>5, <2>2 DEF Pending
  <2>8. Current'
    <3>1. /\ Entity'.from \in Int /\ Entity'.to \in Int /\ Entity'.from < Entity'.to
          /\ cursor' = Entity'.from /\ IsRecording(recorder[Entity'.entity])
      BY <1>3, <2>1, <2>2, <2>4, RecordingIs DEF RangeOk, Requests
    <3>2. Gathered(<<>>, recorder[Entity'.entity], Entity'.from, Entity'.from)
          /\ ~Repeats(<<>>)
      BY <3>1, NothingGathered
    <3>3. \A e : ~Repeated(e)'
      BY <1>5 DEF Repeated
    <3>4. QED
      BY <1>2, <2>1, <3>1, <3>2, <3>3 DEF Current
  <2>9. Accounted'
    BY <1>2, <2>2 DEF Accounted
  <2>10. QED
    BY <1>4, <1>5, <2>5, <2>6, <2>7, <2>8, <2>9 DEF ImportInv
<1>8. QED
  BY <1>6, <1>7

\* The next entity follows one that is done.
LEMMA EntityDone ==
  ASSUME ImportInv, phase = "import", NextEntity, NEW o \in Outcomes, o # "rejected",
         Ask(o), UNCHANGED <<inputs, planError, results>>,
         DOMAIN series' \cup DOMAIN failures'
           = DOMAIN series \cup DOMAIN failures \cup {Entity.entity}
  PROVE  /\ TypeInv' /\ Phases' /\ Pending' /\ Current' /\ Accounted'
         /\ FailuresStayLocal' /\ BuiltRead'
<1>1. /\ recorder' = recorder /\ needs' = needs /\ Needed' = Needed
      /\ (Contradictory' <=> Contradictory) /\ \A r : RangeOk(r)' <=> RangeOk(r)
  BY NeedsSame
<1>2. /\ asked' \in Seq(Asks) /\ Entity = ranges[1] /\ ranges # <<>>
      /\ Range(asked') = Range(asked) \cup {[entity |-> Entity.entity, from |-> cursor,
                                             to |-> ChunkEnd, outcome |-> o]}
  BY AskIs
<1>3. /\ recorder \in Recorders /\ needs \in Plans /\ ranges \in Seq(Requests)
      /\ planError = (phase # "merge" /\ Contradictory)
      /\ results \in Seq({"built", "failed", "misplanned"}) /\ Len(results) <= Len(needs)
      /\ results = <<>> /\ ~Rejection
  BY DEF ImportInv, TypeInv, Phases
<1>4. FailuresStayLocal' /\ BuiltRead'
  BY <1>3, NoResultsYet
<1>5. /\ ranges' = Tail(ranges) /\ records' = <<>>
      /\ IF ranges' = <<>> THEN phase' = "build" /\ cursor' = 0
                           ELSE phase' = "import" /\ cursor' = Head(ranges').from
  BY DEF NextEntity
<1>6. /\ ranges' \in Seq(Requests) /\ Len(ranges) \in Nat /\ DOMAIN ranges = 1..Len(ranges)
      /\ DOMAIN ranges' = 1..Len(ranges) - 1
      /\ \A i \in DOMAIN ranges' : ranges'[i] = ranges[i + 1]
  BY <1>2, <1>3, <1>5, HeadTailProperties, LenProperties
<1>7. \A i \in DOMAIN ranges' : i + 1 \in DOMAIN ranges /\ i + 1 > 1 /\ i + 1 # 1 /\ 1 \in DOMAIN ranges
  BY <1>6
<1>8. \A i \in DOMAIN ranges : i = 1 \/ (i - 1 \in DOMAIN ranges' /\ (i - 1) + 1 = i)
  BY <1>6
<1>9. TypeInv'
  BY <1>1, <1>2, <1>3, <1>5, <1>6 DEF TypeInv
<1>10. ~Rejection'
  BY <1>3, AskedMore
<1>11. Phases'
  BY <1>3, <1>5, <1>10 DEF Phases
<1>12. \A i \in DOMAIN ranges' : ranges'[i].entity # Entity.entity
  BY <1>2, <1>6, <1>7 DEF ImportInv, Pending
<1>13. \A i \in DOMAIN ranges' : \A a \in Range(asked') : a.entity # ranges'[i].entity
  <2>1. TAKE i \in DOMAIN ranges'
  <2>2. TAKE a \in Range(asked')
  <2>3. a \in Range(asked) \/ a.entity = Entity.entity
    BY <1>2
  <2>4. a \in Range(asked) => a.entity # ranges[i + 1].entity
    BY <1>7 DEF ImportInv, Pending
  <2>5. QED
    BY <1>6, <1>12, <2>3, <2>4
<1>14. Pending'
  <2>1. \A i \in DOMAIN ranges' :
          /\ RangeOk(ranges'[i])
          /\ ranges'[i].entity \notin DOMAIN series' \cup DOMAIN failures'
    BY <1>6, <1>7, <1>12 DEF ImportInv, Pending
  <2>2. \A k, l \in DOMAIN ranges' : k # l => ranges'[k].entity # ranges'[l].entity
    <3>1. TAKE k, l \in DOMAIN ranges'
    <3>2. HAVE k # l
    <3>3. k + 1 # l + 1 /\ k + 1 \in DOMAIN ranges /\ l + 1 \in DOMAIN ranges
      BY <1>6, <1>7, <3>2
    <3>4. ranges[k + 1].entity # ranges[l + 1].entity
      BY <3>3 DEF ImportInv, Pending
    <3>5. QED
      BY <1>6, <3>4
  <2>3. QED
    BY <1>1, <1>13, <2>1, <2>2 DEF Pending
<1>15. Current'
  <2>1. SUFFICES ASSUME phase' = "import" PROVE Current'
    BY DEF Current
  <2>2. ranges' # <<>> /\ cursor' = Head(ranges').from
    BY <1>5, <2>1
  <2>3. 1 \in DOMAIN ranges' /\ Entity' = ranges'[1] /\ Head(ranges') = ranges'[1]
    BY <1>6, <2>2, EmptySeq DEF Entity
  <2>4. /\ Entity'.from \in Int /\ Entity'.to \in Int /\ Entity'.from < Entity'.to
        /\ cursor' = Entity'.from /\ IsRecording(recorder[Entity'.entity])
    BY <1>1, <1>3, <1>14, <2>2, <2>3, RecordingIs DEF Pending, RangeOk, Requests
  <2>5. Gathered(<<>>, recorder[Entity'.entity], Entity'.from, Entity'.from)
        /\ ~Repeats(<<>>)
    BY <2>4, NothingGathered
  <2>6. ~(\E a \in Range(asked') : a.entity = Entity'.entity /\ a.outcome = "repeated")
    BY <1>13, <2>3
  <2>7. QED
    BY <1>1, <1>5, <2>4, <2>5, <2>6 DEF Current, Repeated
<1>16. Accounted'
  <2>1. SUFFICES ASSUME ~planError', NEW n \in Needed
                 PROVE  n.entity \in DOMAIN series' \cup DOMAIN failures'
                                       \cup {ranges'[k].entity : k \in DOMAIN ranges'}
    BY <1>1 DEF Accounted
  <2>2. n.entity \in DOMAIN series \cup DOMAIN failures \cup {ranges[k].entity : k \in DOMAIN ranges}
    BY <2>1 DEF ImportInv, Accounted
  <2>3. ASSUME NEW k \in DOMAIN ranges, n.entity = ranges[k].entity, k # 1
        PROVE  n.entity \in {ranges'[i].entity : i \in DOMAIN ranges'}
    <3>1. k - 1 \in DOMAIN ranges' /\ (k - 1) + 1 = k
      BY <1>8, <2>3
    <3>2. ranges'[k - 1] = ranges[k]
      BY <1>6, <3>1
    <3>3. QED
      BY <2>3, <3>1, <3>2
  <2>4. QED
    BY <1>2, <2>2, <2>3
<1>17. QED
  BY <1>4, <1>9, <1>11, <1>14, <1>15, <1>16

\* An imported series stays as it is while others are asked for.
LEMMA SeriesKept ==
  ASSUME ImportInv, phase = "import", NEW o \in Outcomes, Ask(o), UNCHANGED inputs,
         NEW x \in DOMAIN series, series'[x] = series[x]
  PROVE  SeriesOk(x)'
<1>1. SeriesOk(x) /\ x # Entity.entity
  BY AskIs DEF ImportInv
<1>2. recorder' = recorder /\ \A r : RangeOk(r)' <=> RangeOk(r)
  BY NeedsSame
<1>3. Repeated(x)' <=> Repeated(x)
  BY <1>1, AskedMore
<1>4. QED
  BY <1>1, <1>2, <1>3 DEF SeriesOk

LEMMA FailingIs ==
  ASSUME NEW E, NEW why, failures' = Failing(E, why)
  PROVE  DOMAIN failures' = DOMAIN failures \cup E
<1> DEFINE g == [e \in E |-> why]
<1>1. failures' = Over(g, failures) /\ DOMAIN g = E
  BY DEF Failing
<1> HIDE DEF g
<1>2. DOMAIN Over(g, failures) = DOMAIN g \cup DOMAIN failures
  BY OverIs
<1>3. QED
  BY <1>1, <1>2

LEMMA RequestFailsKeeps ==
  ASSUME ImportInv, RequestFails
  PROVE  ImportInv'
<1>1. /\ phase = "import" /\ Ask("failed") /\ NextEntity /\ "failed" \in Outcomes
      /\ failures' = Failing({Entity.entity}, "request failed")
      /\ UNCHANGED <<inputs, series, planError, results>>
  BY DEF RequestFails, Outcomes
<1>2. DOMAIN failures' = DOMAIN failures \cup {Entity.entity}
  BY <1>1, FailingIs
<1>3. DOMAIN series' \cup DOMAIN failures'
        = DOMAIN series \cup DOMAIN failures \cup {Entity.entity}
  BY <1>1, <1>2
<1>4. /\ TypeInv' /\ Phases' /\ Pending' /\ Current' /\ Accounted'
      /\ FailuresStayLocal' /\ BuiltRead'
  BY <1>1, <1>3, EntityDone
<1>5. \A x \in DOMAIN series' : SeriesOk(x)'
  BY <1>1, SeriesKept
<1>6. \A x \in DOMAIN failures' : OwnFailure(x)'
  BY <1>1, <1>2, AskedMore DEF ImportInv
<1>7. QED
  BY <1>4, <1>5, <1>6 DEF ImportInv

LEMMA RequestRejectedKeeps ==
  ASSUME ImportInv, RequestRejected
  PROVE  ImportInv'
<1>1. /\ phase = "import" /\ Ask("rejected") /\ "rejected" \in Outcomes
      /\ failures' = Failing({r.entity : r \in Range(ranges)}, "rejected")
      /\ phase' = "build" /\ ranges' = <<>>
      /\ UNCHANGED <<inputs, series, planError, results>>
  BY DEF RequestRejected, Rejected, Outcomes
<1>2. /\ recorder' = recorder /\ needs' = needs /\ Needed' = Needed
      /\ (Contradictory' <=> Contradictory)
  BY <1>1, NeedsSame
<1>3. DOMAIN failures' = DOMAIN failures \cup {r.entity : r \in Range(ranges)}
  BY <1>1, FailingIs
<1>4. {ranges[k].entity : k \in DOMAIN ranges} = {r.entity : r \in Range(ranges)}
  BY DEF Range
<1>5. asked' \in Seq(Asks) /\ ranges' \in Seq(Requests)
  BY <1>1, AskIs
<1>6. results = <<>> /\ planError = (phase # "merge" /\ Contradictory)
  BY <1>1 DEF ImportInv, Phases, TypeInv
<1>7. planError' = (phase' # "merge" /\ Contradictory')
  <2>1. planError = (phase # "merge" /\ Contradictory) /\ phase # "merge" /\ phase' # "merge"
    BY <1>1, <1>6
  <2>2. (phase # "merge" /\ Contradictory) = (phase' # "merge" /\ Contradictory')
    BY <1>2, <2>1 DEF Contradictory
  <2>3. QED
    BY <1>1, <2>1, <2>2, Zenon
<1>8. TypeInv'
  BY <1>1, <1>2, <1>5, <1>7 DEF ImportInv, TypeInv
<1>9. Phases' /\ Pending' /\ Current'
  <2>1. DOMAIN ranges' = {}
    BY <1>1
  <2>2. QED
    BY <1>1, <2>1 DEF Phases, Pending, Current
<1>10. Accounted'
  BY <1>1, <1>2, <1>3, <1>4 DEF ImportInv, Accounted
<1>11. FailuresStayLocal' /\ BuiltRead'
  BY <1>1, <1>6, NoResultsYet
<1>12. \A x \in DOMAIN series' : SeriesOk(x)'
  BY <1>1, SeriesKept
<1>13. \A x \in DOMAIN failures' : OwnFailure(x)'
  BY <1>1, AskedMore
<1>14. QED
  BY <1>8, <1>9, <1>10, <1>11, <1>12, <1>13 DEF ImportInv

\* What is gathered with one more chunk.
LEMMA ReceivedIs ==
  ASSUME ImportInv, NEW closing \in BOOLEAN, NEW repeat \in BOOLEAN, Receive(closing, repeat)
  PROVE  LET answer == Answer(recorder[Entity.entity], cursor, ChunkEnd, closing)
             joined == Joined(records, IF repeat THEN answer \o <<answer[Len(answer)]>>
                                                 ELSE answer)
             o == IF repeat THEN "repeated" ELSE "answered"
         IN /\ Gathered(joined, recorder[Entity.entity], Entity.from, ChunkEnd)
            /\ Repeats(joined) <=> Repeated(Entity.entity) \/ repeat
            /\ o \in Outcomes /\ Ask(o) /\ o # "rejected" /\ (o = "repeated" <=> repeat)
            /\ phase = "import"
<1> DEFINE e == Entity.entity
           answer == Answer(recorder[e], cursor, ChunkEnd, closing)
           came == IF repeat THEN answer \o <<answer[Len(answer)]>> ELSE answer
           o == IF repeat THEN "repeated" ELSE "answered"
           T == Within(recorder[e], cursor, ChunkEnd)
<1>1. /\ phase = "import" /\ (repeat => answer # <<>>) /\ Ask(o)
      /\ o \in Outcomes /\ o # "rejected" /\ (o = "repeated" <=> repeat)
  BY DEF Receive, Outcomes
<1>2. /\ cursor < ChunkEnd /\ ChunkEnd \in Int /\ Entity \in Requests
  BY <1>1, AskIs
<1>3. /\ cursor \in Int /\ Entity.from \in Int /\ Entity.from <= cursor
      /\ Gathered(records, recorder[e], Entity.from, cursor)
      /\ Repeats(records) <=> Repeated(e)
      /\ recorder \in Recorders /\ e \in Entities
  BY <1>1, <1>2 DEF ImportInv, Current, Requests, TypeInv
<1>4. IsRecording(recorder[e])
  BY <1>3, RecordingIs
<1>5. Gathered(answer, recorder[e], cursor, ChunkEnd) /\ ~Repeats(answer)
  BY <1>2, <1>3, <1>4, ChunkIs
<1>6. Gathered(came, recorder[e], cursor, ChunkEnd) /\ (Repeats(came) <=> repeat)
  <2>1. CASE repeat
    <3>1. answer \in Seq(T) /\ answer # <<>>
      BY <1>1, <1>5, <2>1 DEF Gathered
    <3>2. came \in Seq(T) /\ Times(came) = Times(answer) /\ Repeats(came)
      BY <2>1, <3>1, RepeatedIs
    <3>3. QED
      BY <1>5, <2>1, <3>2 DEF Gathered
  <2>2. CASE ~repeat
    BY <1>5, <2>2
  <2>3. QED
    BY <2>1, <2>2
<1> HIDE DEF e, came, answer
<1>7. /\ Gathered(Joined(records, came), recorder[e], Entity.from, ChunkEnd)
      /\ Repeats(Joined(records, came)) <=> Repeats(records) \/ Repeats(came)
  BY <1>2, <1>3, <1>4, <1>6, JoinedGathered
<1>8. QED
  BY <1>1, <1>3, <1>6, <1>7 DEF e, came, answer

\* One more chunk of the same entity.
LEMMA ChunkKeeps ==
  ASSUME ImportInv, phase = "import", NEW o \in Outcomes, Ask(o), o # "rejected",
         UNCHANGED <<inputs, phase, ranges, series, failures, planError, results>>,
         cursor' = ChunkEnd, ChunkEnd < Entity.to,
         Gathered(records', recorder[Entity.entity], Entity.from, ChunkEnd),
         Repeats(records') <=> Repeated(Entity.entity) \/ o = "repeated"
  PROVE  ImportInv'
<1>1. /\ recorder' = recorder /\ needs' = needs /\ Needed' = Needed
      /\ Contradictory' = Contradictory /\ \A r : RangeOk(r)' <=> RangeOk(r)
  BY NeedsSame DEF Contradictory
<1>2. /\ asked' \in Seq(Asks) /\ Entity = ranges[1] /\ 1 \in DOMAIN ranges
      /\ Range(asked') = Range(asked) \cup {[entity |-> Entity.entity, from |-> cursor,
                                             to |-> ChunkEnd, outcome |-> o]}
      /\ cursor < ChunkEnd /\ ChunkEnd \in Int
  BY AskIs
<1>3. Entity' = Entity
  BY DEF Entity
<1>4. TypeInv'
  BY <1>1, <1>2 DEF ImportInv, TypeInv
<1>5. results = <<>> /\ ~Rejection' /\ ranges # <<>>
  BY AskedMore DEF ImportInv, Phases
<1>6. Phases'
  BY <1>5 DEF Phases
<1>7. Pending'
  <2>1. ASSUME NEW k \in DOMAIN ranges, k > 1, NEW a \in Range(asked')
        PROVE  a.entity # ranges[k].entity
    <3>1. k # 1
      BY <2>1
    <3>2. a \in Range(asked) \/ a.entity = ranges[1].entity
      BY <1>2
    <3>3. QED
      BY <1>2, <2>1, <3>1, <3>2 DEF ImportInv, Pending
  <2>2. QED
    BY <1>1, <2>1 DEF ImportInv, Pending
<1>8. Current'
  <2>1. Entity.from <= cursor /\ cursor \in Int /\ Entity.from \in Int
    BY AskIs DEF ImportInv, Current, Requests
  <2>2. Entity.from <= ChunkEnd
    BY <1>2, <2>1
  <2>3. \A x : Repeated(x)' <=> Repeated(x) \/ (x = Entity.entity /\ o = "repeated")
    BY AskedMore
  <2>4. Repeated(Entity.entity)' <=> Repeated(Entity.entity) \/ o = "repeated"
    BY <1>3, <2>3 DEF Repeated
  <2>5. QED
    BY <1>1, <1>2, <1>3, <2>2, <2>4 DEF Current
<1>9. Accounted'
  BY <1>1 DEF ImportInv, Accounted
<1>10. \A x \in DOMAIN series' : SeriesOk(x)'
  BY SeriesKept
<1>11. \A x \in DOMAIN failures' : OwnFailure(x)'
  BY AskedMore DEF ImportInv
<1>12. FailuresStayLocal' /\ BuiltRead'
  BY <1>5, NoResultsYet
<1>13. QED
  BY <1>4, <1>6, <1>7, <1>8, <1>9, <1>10, <1>11, <1>12 DEF ImportInv

\* Nothing is recorded up to the end of a period whose answers are all empty.
LEMMA NoHistory ==
  ASSUME NEW recording, IsRecording(recording), NEW from \in Int, NEW to \in Int, from < to,
         Gathered(<<>>, recording, from, to),
         NEW t \in DOMAIN recording, t < to
  PROVE  recording[t] = Silent
<1>1. SUFFICES ASSUME recording[t] # Silent PROVE FALSE
  OBVIOUS
<1>2. t \in Reported(recording) /\ t \in Int
  BY <1>1 DEF Reported, IsRecording
<1>3. DOMAIN <<>> = {}
  BY EmptySeq
<1>4. Times(<<>>) = {}
  BY <1>3 DEF Times
<1>5. InForce(recording, from) = Silent /\ ~(from <= t)
  BY <1>2, <1>4 DEF Gathered
<1>6. InForce(recording, t) # Silent /\ t <= from
  BY <1>2, <1>5, ReportedInForce
<1>7. QED
  BY <1>2, <1>5, <1>6, InForceStays

LEMMA BeforeEnd ==
  ASSUME NEW a \in Int, NEW b \in Int, NEW c \in Int, a < b, b <= c
  PROVE  a < c
OBVIOUS

\* The last chunk of an entity without history.
LEMMA EmptyKeeps ==
  ASSUME ImportInv, phase = "import", NEW o \in Outcomes, Ask(o), o # "rejected", NextEntity,
         UNCHANGED <<inputs, series, planError, results>>,
         failures' = Failing({Entity.entity}, "no history"),
         Gathered(<<>>, recorder[Entity.entity], Entity.from, Entity.to)
  PROVE  ImportInv'
<1>1. DOMAIN failures' = DOMAIN failures \cup {Entity.entity}
  BY FailingIs
<1>2. DOMAIN series' \cup DOMAIN failures'
        = DOMAIN series \cup DOMAIN failures \cup {Entity.entity}
  BY <1>1
<1>3. /\ TypeInv' /\ Phases' /\ Pending' /\ Current' /\ Accounted'
      /\ FailuresStayLocal' /\ BuiltRead'
  BY <1>2, EntityDone
<1>4. \A x \in DOMAIN series' : SeriesOk(x)'
  BY SeriesKept
<1>5. ASSUME NEW e, e = Entity.entity
      PROVE  OwnFailure(e)'
  <2>1. /\ Entity.from \in Int /\ Entity.to \in Int /\ Entity.from < Entity.to /\ e \in Entities
        /\ \A n \in NeedsOf(e) : n.to <= Entity.to /\ n.to \in Int
    <3>1. RangeOk(Entity) /\ needs \in Plans
      BY AskIs DEF ImportInv, TypeInv
    <3>2. \A n \in NeedsOf(e) : n \in Requests
      BY <3>1, NeededAre DEF NeedsOf
    <3>3. QED
      BY <1>5, <3>1, <3>2 DEF RangeOk, Requests
  <2>2. IsRecording(recorder[e])
    BY <2>1, RecordingIs DEF ImportInv, TypeInv
  <2>3. \A t \in DOMAIN recorder[e] : t \in Int
    BY <2>2 DEF IsRecording
  <2>4. \A t \in DOMAIN recorder[e] : t < Entity.to => recorder[e][t] = Silent
    <3>1. Gathered(<<>>, recorder[e], Entity.from, Entity.to)
      BY <1>5
    <3>2. QED
      BY <2>1, <2>2, <3>1, NoHistory
  <2>5. ASSUME NEW t \in DOMAIN recorder[e], NEW n \in NeedsOf(e), t < n.to
        PROVE  recorder[e][t] = Silent
    <3>1. t \in Int /\ n.to \in Int /\ Entity.to \in Int /\ n.to <= Entity.to
      BY <2>1, <2>3
    <3>2. t < Entity.to
      BY <2>5, <3>1, BeforeEnd
    <3>3. QED
      BY <2>4, <3>2
  <2>6. recorder' = recorder /\ NeedsOf(e)' = NeedsOf(e)
    BY NeedsSame
  <2>7. QED
    BY <2>5, <2>6 DEF OwnFailure
<1>6. \A x \in DOMAIN failures' : OwnFailure(x)'
  BY <1>1, <1>5, AskedMore DEF ImportInv
<1>7. QED
  BY <1>3, <1>4, <1>6 DEF ImportInv

\* The last chunk of an entity with history.
LEMMA LastChunkKeeps ==
  ASSUME ImportInv, phase = "import", NEW o \in Outcomes, Ask(o), o # "rejected", NextEntity,
         UNCHANGED <<inputs, failures, planError, results>>,
         NEW joined,
         series' = Over([e \in {Entity.entity} |-> Imported(joined)], series),
         Gathered(joined, recorder[Entity.entity], Entity.from, Entity.to),
         Repeats(joined) <=> Repeated(Entity.entity) \/ o = "repeated"
  PROVE  ImportInv'
<1> DEFINE e == Entity.entity
           g == [x \in {e} |-> Imported(joined)]
<1>1. /\ DOMAIN g = {e} /\ g[e] = Imported(joined) /\ series' = Over(g, series)
      /\ e \notin DOMAIN series
  BY AskIs
<1> HIDE DEF g
<1>2. /\ DOMAIN series' = DOMAIN series \cup {e} /\ series'[e] = Imported(joined)
      /\ \A x \in DOMAIN series : series'[x] = series[x]
  <2>1. /\ DOMAIN Over(g, series) = DOMAIN g \cup DOMAIN series
        /\ \A x \in DOMAIN g : Over(g, series)[x] = g[x]
        /\ \A x \in DOMAIN series \ DOMAIN g : Over(g, series)[x] = series[x]
    BY OverIs
  <2>2. QED
    BY <1>1, <2>1
<1>3. DOMAIN series' \cup DOMAIN failures'
        = DOMAIN series \cup DOMAIN failures \cup {Entity.entity}
  BY <1>2
<1>4. /\ TypeInv' /\ Phases' /\ Pending' /\ Current' /\ Accounted'
      /\ FailuresStayLocal' /\ BuiltRead'
  BY <1>3, EntityDone
<1>5. \A x \in DOMAIN series : SeriesOk(x)'
  BY <1>2, SeriesKept
<1>6. ASSUME NEW x, x = e
      PROVE  SeriesOk(x)'
  <2> DEFINE s == Imported(joined)
  <2>1. /\ s.kind = Entity.kind /\ s.from = Entity.from /\ s.to = Entity.to
        /\ s.samples = Cleaned(Entity.kind, joined)
    BY DEF Imported
  <2> HIDE DEF s
  <2>2. /\ Entity \in Requests /\ RangeOk(Entity)
        /\ Entity = [entity |-> Entity.entity, kind |-> Entity.kind,
                     from |-> Entity.from, to |-> Entity.to]
        /\ Entity.from \in Int /\ Entity.to \in Int /\ Entity.from < Entity.to
    BY AskIs DEF Requests, RangeOk
  <2>3. /\ RangeOk([entity |-> x, kind |-> s.kind, from |-> s.from, to |-> s.to])
    BY <1>6, <2>1, <2>2
  <2>4. /\ Sampled(s.samples, recorder[x], s.from, s.to)
        /\ Repeats(s.samples) <=> Repeats(joined)
    BY <1>6, <2>1, <2>2, CleanedIs
  <2>5. Repeated(x)' <=> Repeated(Entity.entity) \/ o = "repeated"
    BY <1>6, AskedMore
  <2>6. series'[x] = s
    BY <1>2, <1>6 DEF s
  <2>7. recorder' = recorder /\ \A r : RangeOk(r)' <=> RangeOk(r)
    BY NeedsSame
  <2>8. QED
    BY <2>3, <2>4, <2>5, <2>6, <2>7 DEF SeriesOk
<1>7. \A x \in DOMAIN series' : SeriesOk(x)'
  BY <1>2, <1>5, <1>6
<1>8. \A x \in DOMAIN failures' : OwnFailure(x)'
  BY AskedMore DEF ImportInv
<1>9. QED
  BY <1>4, <1>7, <1>8 DEF ImportInv

LEMMA ReceiveKeeps ==
  ASSUME ImportInv, NEW closing \in BOOLEAN, NEW repeat \in BOOLEAN, Receive(closing, repeat)
  PROVE  ImportInv'
<1> DEFINE answer == Answer(recorder[Entity.entity], cursor, ChunkEnd, closing)
           joined == Joined(records, IF repeat THEN answer \o <<answer[Len(answer)]>>
                                               ELSE answer)
           o == IF repeat THEN "repeated" ELSE "answered"
<1>1. /\ Gathered(joined, recorder[Entity.entity], Entity.from, ChunkEnd)
      /\ Repeats(joined) <=> Repeated(Entity.entity) \/ repeat
      /\ o \in Outcomes /\ Ask(o) /\ o # "rejected" /\ (o = "repeated" <=> repeat)
      /\ phase = "import"
  BY ReceivedIs
<1>2. /\ UNCHANGED <<inputs, planError, results>>
      /\ IF ChunkEnd < Entity.to
         THEN cursor' = ChunkEnd /\ records' = joined
              /\ UNCHANGED <<phase, ranges, series, failures>>
         ELSE /\ NextEntity
              /\ IF joined = <<>>
                 THEN /\ failures' = Failing({Entity.entity}, "no history")
                      /\ UNCHANGED series
                 ELSE /\ series' = Over([e \in {Entity.entity} |-> Imported(joined)], series)
                      /\ UNCHANGED failures
  BY DEF Receive
<1> HIDE DEF joined, o
<1>3. CASE ChunkEnd < Entity.to
  BY <1>1, <1>2, <1>3, ChunkKeeps
<1>4. CASE ~(ChunkEnd < Entity.to)
  <2>1. ChunkEnd = Entity.to
    <3>1. ChunkEnd \in Int /\ ChunkEnd <= Entity.to /\ Entity.to \in Int
      BY <1>1, AskIs DEF Requests
    <3>2. QED
      BY <1>4, <3>1
  <2>2. CASE joined = <<>>
    BY <1>1, <1>2, <1>4, <2>1, <2>2, EmptyKeeps
  <2>3. CASE joined # <<>>
    BY <1>1, <1>2, <1>4, <2>1, <2>3, LastChunkKeeps
  <2>4. QED
    BY <2>2, <2>3
<1>5. QED
  BY <1>3, <1>4

\* Why a need cannot be read.
LEMMA ReadIs ==
  ASSUME ImportInv, phase = "build", ~planError, NEW i \in DOMAIN needs,
         NEW n \in Range(needs[i])
  PROVE  Read(n) = "read" \/ (Read(n) = "failed" /\ OwnFailure(n.entity))
<1>1. n \in Needed /\ needs \in Plans
  BY NeededAre DEF ImportInv, TypeInv
<1>2. DOMAIN ranges = {}
  BY DEF ImportInv, Phases
<1>3. n.entity \in DOMAIN series \cup DOMAIN failures
  BY <1>1, <1>2 DEF ImportInv, Accounted
<1>4. CASE n.entity \in DOMAIN failures
  BY <1>4 DEF Read, ImportInv
<1>5. CASE n.entity \notin DOMAIN failures
  <2>1. n.entity \in DOMAIN series
    BY <1>3, <1>5
  <2> DEFINE s == series[n.entity]
             r == [entity |-> n.entity, kind |-> s.kind, from |-> s.from, to |-> s.to]
  <2>2. RangeOk(r)
    BY <2>1 DEF ImportInv, SeriesOk
  <2>3. r.entity = n.entity /\ r.kind = s.kind /\ r.from = s.from /\ r.to = s.to
    OBVIOUS
  <2>4. r \in Requests
    BY <2>2 DEF RangeOk
  <2> HIDE DEF s, r
  <2>5. n \in NeedsOf(n.entity) /\ n.from \in Int /\ n.to \in Int
    BY <1>1, NeededAre DEF NeedsOf, Requests
  <2>6. s.from <= n.from /\ n.to <= s.to /\ s.from \in Int /\ s.to \in Int
    BY <2>2, <2>3, <2>4, <2>5 DEF RangeOk, Requests
  <2>7. ~Contradictory
    BY DEF ImportInv, TypeInv
  <2>8. PICK m \in NeedsOf(n.entity) : m.kind = s.kind
    BY <2>2, <2>3 DEF RangeOk
  <2>9. s.kind = n.kind
    BY <2>5, <2>7, <2>8 DEF Contradictory, NeedsOf
  <2>10. Read(n) = IF s.kind # n.kind \/ n.from < s.from \/ n.to > s.to
                   THEN "misplanned" ELSE "read"
    BY <1>5, <2>1 DEF Read, s
  <2>11. ~(n.from < s.from) /\ ~(n.to > s.to)
    BY <2>5, <2>6
  <2>12. QED
    BY <2>9, <2>10, <2>11
<1>6. QED
  BY <1>4, <1>5

\* A source is built from what was read, fails by an entity of its own, and is
\* misplanned only if the needs contradict each other.
LEMMA BuiltIs ==
  ASSUME ImportInv, phase = "build", NEW i \in DOMAIN needs
  PROVE  LET b == Built(needs[i])
         IN /\ b \in {"built", "failed", "misplanned"}
            /\ b = "failed" => \E n \in Range(needs[i]) : OwnFailure(n.entity)
            /\ b = "misplanned" => Contradictory
            /\ b = "built" /\ needs[i] # <<>> => ~Contradictory
            /\ b = "built" => \A n \in Range(needs[i]) : Read(n) = "read"
<1> DEFINE source == needs[i]
           unread == {j \in DOMAIN source : Read(source[j]) # "read"}
           b == Built(source)
<1>1. /\ Len(source) \in Nat /\ DOMAIN source = 1..Len(source)
      /\ source \in Seq(Requests)
  BY NeedsType DEF ImportInv, TypeInv
<1>2. b = IF planError /\ source # <<>> THEN "misplanned"
          ELSE IF unread = {} THEN "built" ELSE Read(source[Min(unread)])
  BY DEF Built
<1>3. planError = Contradictory
  <2>1. planError = (phase # "merge" /\ Contradictory)
    BY DEF ImportInv, TypeInv
  <2>2. (phase # "merge" /\ Contradictory) = Contradictory
    BY DEF Contradictory
  <2>3. QED
    BY <2>1, <2>2, Zenon
<1>4. \A n \in Range(source) : \E j \in DOMAIN source : n = source[j]
  BY DEF Range
<1>5. \A j \in DOMAIN source : source[j] \in Range(source)
  BY DEF Range
<1>6. CASE planError /\ source # <<>>
  <2>1. b = "misplanned" /\ Contradictory
    BY <1>2, <1>3, <1>6
  <2>2. QED
    BY <2>1
<1>7. CASE source = <<>>
  <2>1. DOMAIN source = {}
    BY <1>7
  <2>2. unread = {} /\ b = "built" /\ Range(source) = {}
    BY <1>2, <1>4, <1>7, <2>1
  <2>3. QED
    BY <1>7, <2>2
<1>8. CASE ~planError /\ source # <<>>
  <2>1. ~Contradictory
    BY <1>3, <1>8
  <2>2. CASE unread = {}
    <3>1. b = "built"
      BY <1>2, <1>8, <2>2
    <3>2. \A n \in Range(source) : Read(n) = "read"
      BY <1>4, <2>2
    <3>3. QED
      BY <2>1, <3>1, <3>2
  <2>3. CASE unread # {}
    <3>1. unread \in SUBSET (1..Len(source))
      BY <1>1
    <3>2. unread \in SUBSET Int /\ IsFiniteSet(unread)
      BY <1>1, <3>1, PlacesFinite
    <3>3. Min(unread) \in unread
      BY <2>3, <3>2, MinIs
    <3>4. PICK j \in unread : j = Min(unread)
      BY <3>3
    <3>5. j \in DOMAIN source /\ Read(source[j]) # "read" /\ b = Read(source[j])
      BY <1>2, <1>8, <2>3, <3>4
    <3>6. source[j] \in Range(source)
      BY <1>5, <3>5
    <3>7. Read(source[j]) = "failed" /\ OwnFailure(source[j].entity)
      BY <1>8, <3>5, <3>6, ReadIs
    <3>8. b = "failed" /\ \E n \in Range(source) : OwnFailure(n.entity)
      BY <3>5, <3>6, <3>7
    <3>9. QED
      BY <3>8
  <2>4. QED
    BY <2>2, <2>3
<1>9. QED
  BY <1>6, <1>7, <1>8

LEMMA BuildKeeps ==
  ASSUME ImportInv, Build
  PROVE  ImportInv'
<1> DEFINE k == Len(results) + 1
           b == Built(needs[k])
<1>1. /\ phase = "build" /\ Len(results) < Len(needs) /\ results' = Append(results, b)
      /\ UNCHANGED <<inputs, phase, progress, found, asked>>
  BY DEF Build
<1>2. /\ recorder \in Recorders /\ needs \in Plans
      /\ results \in Seq({"built", "failed", "misplanned"})
  BY DEF ImportInv, TypeInv
<1>3. /\ Len(results) \in Nat /\ Len(needs) \in Nat /\ DOMAIN needs = 1..Len(needs)
  BY <1>2, NeedsType
<1>4. k \in DOMAIN needs
  BY <1>1, <1>3
<1>5. /\ b \in {"built", "failed", "misplanned"}
      /\ b = "failed" => \E n \in Range(needs[k]) : OwnFailure(n.entity)
      /\ b = "misplanned" => Contradictory
      /\ b = "built" /\ needs[k] # <<>> => ~Contradictory
      /\ b = "built" => \A n \in Range(needs[k]) : Read(n) = "read"
  BY <1>1, <1>4, BuiltIs
<1>6. k \in Nat /\ k = Len(results) + 1
  BY <1>3
<1> HIDE DEF k, b
<1>7. /\ results' \in Seq({"built", "failed", "misplanned"}) /\ Len(results') = k
      /\ results'[k] = b /\ \A i \in 1..Len(results) : results'[i] = results[i]
      /\ DOMAIN results' = 1..k /\ DOMAIN results = 1..Len(results)
  BY <1>1, <1>2, <1>3, <1>5, <1>6, AppendProperties
<1>8. \A i \in 1..k : i = k \/ i \in 1..Len(results)
  BY <1>3, <1>6
<1>9. /\ recorder' = recorder /\ needs' = needs /\ phase' = phase
      /\ ranges' = ranges /\ cursor' = cursor /\ records' = records
      /\ series' = series /\ failures' = failures /\ planError' = planError /\ asked' = asked
  BY <1>1 DEF inputs, progress, found
<1>10. /\ Needed' = Needed /\ (Contradictory' <=> Contradictory)
       /\ \A r : RangeOk(r)' <=> RangeOk(r)
       /\ Contradictory' = Contradictory
  BY <1>1, NeedsSame DEF Contradictory
<1>11. TypeInv'
  <2>1. Len(results') <= Len(needs')
    BY <1>1, <1>3, <1>6, <1>7, <1>9
  <2>2. QED
    BY <1>7, <1>9, <1>10, <2>1 DEF ImportInv, TypeInv
<1>12. (Rejection' <=> Rejection) /\ \A e : Repeated(e)' <=> Repeated(e)
  BY <1>9 DEF Rejection, Repeated
<1>13. Phases'
  BY <1>1, <1>9, <1>12 DEF ImportInv, Phases
<1>14. Pending'
  BY <1>9, <1>10 DEF ImportInv, Pending
<1>15. Current'
  BY <1>1, <1>9 DEF Current
<1>16. Accounted'
  BY <1>9, <1>10 DEF ImportInv, Accounted
<1>17. \A e \in DOMAIN series' : SeriesOk(e)'
  BY <1>9, <1>10, <1>12 DEF ImportInv, SeriesOk
<1>18. \A e : OwnFailure(e) => OwnFailure(e)'
  BY <1>1, <1>9, NeedsSame DEF OwnFailure
<1>19. \A e \in DOMAIN failures' : OwnFailure(e)'
  BY <1>9, <1>18 DEF ImportInv
<1>20. FailuresStayLocal'
  <2>1. SUFFICES ASSUME NEW i \in DOMAIN results'
                 PROVE  /\ results'[i] = "failed" =>
                             \E n \in Range(needs[i]) : OwnFailure(n.entity)'
                        /\ results'[i] = "misplanned" => Contradictory
                        /\ results'[i] = "built" /\ needs[i] # <<>> => ~Contradictory
    BY <1>9, <1>10 DEF FailuresStayLocal
  <2>2. CASE i = k
    BY <1>5, <1>7, <1>18, <2>2
  <2>3. CASE i # k
    <3>1. i \in DOMAIN results /\ results'[i] = results[i]
      BY <1>7, <1>8, <2>1, <2>3
    <3>2. /\ results[i] = "failed" => \E n \in Range(needs[i]) : OwnFailure(n.entity)
          /\ results[i] = "misplanned" => Contradictory
          /\ results[i] = "built" /\ needs[i] # <<>> => ~Contradictory
      BY <3>1 DEF ImportInv, FailuresStayLocal
    <3>3. QED
      BY <1>18, <3>1, <3>2
  <2>4. QED
    BY <2>2, <2>3
<1>21. BuiltRead'
  <2>1. \A n : Read(n)' = Read(n)
    BY <1>9 DEF Read
  <2>2. SUFFICES ASSUME NEW i \in DOMAIN results', results'[i] = "built",
                        NEW n \in Range(needs[i])
                 PROVE  Read(n) = "read"
    BY <1>9, <2>1 DEF BuiltRead
  <2>3. CASE i = k
    BY <1>5, <1>7, <2>2, <2>3
  <2>4. CASE i # k
    <3>1. i \in DOMAIN results /\ results'[i] = results[i]
      BY <1>7, <1>8, <2>2, <2>4
    <3>2. QED
      BY <2>2, <3>1 DEF ImportInv, BuiltRead
  <2>5. QED
    BY <2>3, <2>4
<1>22. QED
  BY <1>11, <1>13, <1>14, <1>15, <1>16, <1>17, <1>19, <1>20, <1>21 DEF ImportInv

LEMMA ImportStep ==
  ASSUME ImportInv, [Next]_vars
  PROVE  ImportInv'
<1>1. CASE MergeNeeds
  BY <1>1, MergeNeedsKeeps
<1>2. CASE Import
  <2>1. CASE \E closing, repeat \in BOOLEAN : Receive(closing, repeat)
    BY <2>1, ReceiveKeeps
  <2>2. CASE RequestFails
    BY <2>2, RequestFailsKeeps
  <2>3. CASE RequestRejected
    BY <2>3, RequestRejectedKeeps
  <2>4. QED
    BY <1>2, <2>1, <2>2, <2>3 DEF Import
<1>3. CASE Build
  BY <1>3, BuildKeeps
<1>4. CASE UNCHANGED vars
  <2>1. /\ recorder' = recorder /\ needs' = needs /\ phase' = phase
        /\ ranges' = ranges /\ cursor' = cursor /\ records' = records
        /\ series' = series /\ failures' = failures /\ planError' = planError
        /\ asked' = asked /\ results' = results /\ UNCHANGED inputs
    BY <1>4 DEF vars, inputs, progress, found
  <2>2. /\ Needed' = Needed /\ (Contradictory' <=> Contradictory)
        /\ Contradictory' = Contradictory /\ \A r : RangeOk(r)' <=> RangeOk(r)
        /\ \A e : NeedsOf(e)' = NeedsOf(e)
    BY <2>1, NeedsSame DEF Contradictory
  <2>3. TypeInv' /\ Phases' /\ Accounted'
    BY <2>1, <2>2 DEF ImportInv, TypeInv, Phases, Accounted, Rejection
  <2>4. Pending' /\ Current'
    BY <2>1, <2>2 DEF ImportInv, Pending, Current, Entity, Repeated
  <2>5. \A e \in DOMAIN series' : SeriesOk(e)'
    BY <2>1, <2>2 DEF ImportInv, SeriesOk, Repeated
  <2>6. \A e : OwnFailure(e)' <=> OwnFailure(e)
    BY <2>1, <2>2 DEF OwnFailure
  <2>7. \A n : Read(n)' = Read(n)
    BY <2>1 DEF Read
  <2>8. FailuresStayLocal' /\ BuiltRead'
    BY <2>1, <2>2, <2>6, <2>7 DEF ImportInv, FailuresStayLocal, BuiltRead
  <2>9. QED
    BY <2>1, <2>3, <2>4, <2>5, <2>6, <2>8 DEF ImportInv
<1>5. QED
  BY <1>1, <1>2, <1>3, <1>4 DEF Next, Finished

\* The invariant of the import.
LEMMA ImportInvariant == Spec => []ImportInv
<1>1. Init => ImportInv
  BY ImportInit
<1>2. ImportInv /\ [Next]_vars => ImportInv'
  BY ImportStep
<1>3. QED
  BY <1>1, <1>2, PTL DEF Spec

\* A series keeps two samples of one time only if one of its answers repeated a record:
\* the boundary records of the chunks of _fetch_records, which both answers tell, are
\* joined into one.
THEOREM NoRepeatInventedHolds == Spec => []NoRepeatInvented
<1>1. ImportInv => NoRepeatInvented
  BY DEF ImportInv, SeriesOk, Repeats, Repeated, NoRepeatInvented
<1>2. QED
  BY <1>1, ImportInvariant, PTL

\* A source of _build_and_persist fails only by the failure of an entity it needs, and an
\* entity only by its own requests, by having no history or by a rejected token; and
\* consistent needs never meet a series that does not cover them.
THEOREM FailuresStayLocalHolds == Spec => []FailuresStayLocal
<1>1. ImportInv => FailuresStayLocal
  BY DEF ImportInv
<1>2. QED
  BY <1>1, ImportInvariant, PTL

\* After a rejected token import_history sends no further request.
THEOREM NothingAfterRejectionHolds == Spec => NothingAfterRejection
<1>1. ASSUME ImportInv, [Next]_vars, Rejection
      PROVE  asked' = asked
  <2>1. phase = "build"
    BY <1>1 DEF ImportInv, Phases
  <2>2. ~MergeNeeds /\ ~Import
    BY <2>1 DEF MergeNeeds, Import, Receive, RequestFails, RequestRejected
  <2>3. QED
    BY <1>1, <2>2 DEF Next, Build, Finished, vars
<1>2. ImportInv /\ [Next]_vars =>
        [(\E a \in Range(asked) : a.outcome = "rejected") => asked' = asked]_vars
  BY <1>1 DEF Rejection
<1>3. QED
  BY <1>2, ImportInvariant, PTL DEF Spec, NothingAfterRejection

-----------------------------------------------------------------------------
(* What a source reads. *)

\* The sample in force at a time tells what was in force then.
LEMMA SampledTells ==
  ASSUME NEW recording, IsRecording(recording), NEW from \in Int, NEW to \in Int, from < to,
         NEW s, Sampled(s, recording, from, to),
         NEW t \in Int, from <= t, t < to
  PROVE  /\ (\E i \in DOMAIN s : s[i].at <= t) <=> InForce(recording, t) # Silent
         /\ (\E i \in DOMAIN s : s[i].at <= t) =>
              SampleAt(s, t).state = InForce(recording, t).state
<1> DEFINE T == {s[i] : i \in DOMAIN s}
<1>1. /\ s \in Seq(T) /\ InOrder(s) /\ DOMAIN s = 1..Len(s) /\ Len(s) \in Nat
      /\ \A i \in DOMAIN s : /\ s[i].at \in Int /\ from <= s[i].at
                             /\ InForce(recording, s[i].at) # Silent
                             /\ s[i].state = InForce(recording, s[i].at).state
  <2>1. s \in Seq(T) /\ InOrder(s)
    BY DEF Sampled
  <2>2. ASSUME NEW i \in DOMAIN s
        PROVE  /\ s[i].at \in Int /\ from <= s[i].at
               /\ InForce(recording, s[i].at) # Silent
               /\ s[i].state = InForce(recording, s[i].at).state
    <3> DEFINE v == s[i].at
    <3>1. /\ v \in from..to /\ InForce(recording, v) # Silent
          /\ s[i] = [at |-> v, recorded |-> v, state |-> InForce(recording, v).state,
                     invalid |-> s[i].invalid, unit |-> s[i].unit]
      BY DEF Sampled
    <3> HIDE DEF v
    <3>2. s[i].state = InForce(recording, v).state
      BY <3>1
    <3>3. QED
      BY <3>1, <3>2 DEF v
  <2>3. DOMAIN s = 1..Len(s) /\ Len(s) \in Nat
    BY <2>1, LenProperties
  <2>4. QED
    BY <2>1, <2>2, <2>3
<1>2. /\ InForce(recording, from) # Silent => \E i \in DOMAIN s : s[i].at = from
      /\ \A u \in Reported(recording) : from <= u /\ u < to => \E i \in DOMAIN s : s[i].at = u
  BY DEF Sampled, Times
<1> HIDE DEF T
<1>3. ASSUME NEW i \in DOMAIN s, s[i].at <= t
      PROVE  InForce(recording, t) # Silent
  BY <1>1, <1>3, InForceStays
<1>4. ASSUME InForce(recording, t) # Silent
      PROVE  \E i \in DOMAIN s : s[i].at <= t
  <2> DEFINE E == {u \in Reported(recording) : u <= t}
             m == Max(E)
  <2>1. E # {}
    BY <1>4, InForceIs
  <2>2. m \in Reported(recording) /\ m <= t /\ m \in Int
    <3>1. m \in E
      BY <2>1, InForceIs
    <3>2. QED
      BY <3>1, ReportedInForce
  <2> HIDE DEF E, m
  <2>3. CASE from <= m
    <3>1. m < to
      BY <2>2
    <3>2. PICK i \in DOMAIN s : s[i].at = m
      BY <1>2, <2>2, <2>3, <3>1
    <3>3. QED
      BY <2>2, <3>2
  <2>4. CASE m < from
    <3>1. InForce(recording, m) # Silent
      BY <2>2, ReportedInForce
    <3>2. InForce(recording, from) # Silent
      BY <2>2, <2>4, <3>1, InForceStays
    <3>3. PICK i \in DOMAIN s : s[i].at = from
      BY <1>2, <3>2
    <3>4. QED
      BY <3>3
  <2>5. QED
    BY <2>2, <2>3, <2>4
<1>5. ASSUME \E i \in DOMAIN s : s[i].at <= t
      PROVE  SampleAt(s, t).state = InForce(recording, t).state
  <2>1. PICK k \in DOMAIN s : /\ s[k].at <= t
                              /\ \A l \in DOMAIN s : s[l].at <= t => l <= k
                              /\ SampleAt(s, t) = s[k]
    BY <1>1, <1>5, SampleAtFound
  <2>2. ASSUME NEW u \in Reported(recording), u <= t
        PROVE  u <= s[k].at
    <3>1. u \in Int
      BY ReportedInForce
    <3>2. CASE u < from
      BY <1>1, <3>1, <3>2
    <3>3. CASE from <= u
      <4>1. u < to
        BY <2>2, <3>1
      <4>2. PICK l \in DOMAIN s : s[l].at = u
        BY <1>2, <3>3, <4>1
      <4>3. l <= k
        BY <2>1, <2>2, <4>2
      <4>4. l = k \/ l < k
        BY <1>1, <4>3
      <4>5. s[l].at <= s[k].at
        BY <1>1, <4>4 DEF InOrder
      <4>6. QED
        BY <4>2, <4>5
    <3>4. QED
      BY <1>1, <3>1, <3>2, <3>3
  <2>3. \A u \in Reported(recording) : u \in Int
    BY ReportedInForce
  <2>4. \A u \in Reported(recording) : u <= s[k].at \/ t < u
    BY <2>2, <2>3
  <2>5. InForce(recording, t) = InForce(recording, s[k].at)
    BY <1>1, <2>1, <2>4, InForceStays
  <2>6. QED
    BY <1>1, <2>1, <2>5
<1>6. QED
  BY <1>3, <1>4, <1>5

\* A window tells at each of its times what the whole series tells.
LEMMA WindowTells ==
  ASSUME NEW recording, IsRecording(recording), NEW from \in Int, NEW to \in Int, from < to,
         NEW s, Sampled(s, recording, from, to),
         NEW a \in Int, NEW b \in Int, from <= a, b <= to,
         NEW t \in Int, a <= t, t < b
  PROVE  StateAt(Window(s, a, b), t)
           = IF InForce(recording, t) = Silent THEN Silent ELSE InForce(recording, t).state
<1> DEFINE T == {s[i] : i \in DOMAIN s}
           w == Window(s, a, b)
<1>1. s \in Seq(T) /\ InOrder(s)
  BY DEF Sampled
<1>2. ASSUME NEW x \in T
      PROVE  /\ x.at \in Int
             /\ \A v \in Int : [x EXCEPT !.at = v].at = v
             /\ AsOf(x, a).state = x.state
  <2>1. PICK i \in DOMAIN s : x = s[i]
    OBVIOUS
  <2> DEFINE u == s[i].at
             y == s[i].invalid
             z == s[i].unit
             q == InForce(recording, u).state
  <2>2. u \in from..to /\ x = [at |-> u, recorded |-> u, state |-> q, invalid |-> y, unit |-> z]
    BY <2>1 DEF Sampled
  <2> HIDE DEF u, y, z, q
  <2>3. x.at \in Int
    BY <2>2
  <2>4. \A v \in Int : [x EXCEPT !.at = v].at = v /\ [x EXCEPT !.at = v].state = x.state
    BY <2>2
  <2>5. AsOf(x, a).state = x.state
    BY <2>4 DEF AsOf
  <2>6. QED
    BY <2>3, <2>4, <2>5
<1> HIDE DEF T, w
<1>3. t \in a..b
  OBVIOUS
<1>4. /\ (\E i \in DOMAIN w : w[i].at <= t) <=> \E i \in DOMAIN s : s[i].at <= t
      /\ (\E i \in DOMAIN s : s[i].at <= t) =>
           /\ SampleAt(w, t) = AsOf(SampleAt(s, t), a)
           /\ \E i \in DOMAIN s : SampleAt(s, t) = s[i]
  BY <1>1, <1>2, <1>3, WindowIs DEF w
<1>5. /\ (\E i \in DOMAIN s : s[i].at <= t) <=> InForce(recording, t) # Silent
      /\ (\E i \in DOMAIN s : s[i].at <= t) =>
           SampleAt(s, t).state = InForce(recording, t).state
  <2>1. from <= t /\ t < to
    OBVIOUS
  <2>2. QED
    BY <2>1, SampledTells
<1>6. CASE InForce(recording, t) = Silent
  BY <1>4, <1>5, <1>6 DEF StateAt, w
<1>7. CASE InForce(recording, t) # Silent
  <2>1. PICK i \in DOMAIN s : SampleAt(s, t) = s[i]
    BY <1>4, <1>5, <1>7
  <2>2. s[i] \in T
    BY DEF T
  <2>3. SampleAt(w, t).state = SampleAt(s, t).state
    BY <1>2, <1>4, <1>5, <1>7, <2>1, <2>2
  <2>4. StateAt(w, t) = SampleAt(w, t).state
    BY <1>4, <1>5, <1>7 DEF StateAt
  <2>5. QED
    BY <1>5, <1>7, <2>3, <2>4 DEF w
<1>8. QED
  BY <1>6, <1>7

\* Slicing the shared series changes nothing for a source: at every moment of its window
\* the state in force is the recorded one, whatever other sources needed, however the
\* range was cut into chunks (HomeAssistantHistory.window).
THEOREM WindowIsOwnRequestHolds == Spec => []WindowIsOwnRequest
<1>1. ASSUME ImportInv
      PROVE  WindowIsOwnRequest
  <2>1. SUFFICES ASSUME NEW i \in DOMAIN results, results[i] = "built",
                        NEW n \in Range(needs[i]), NEW t \in n.from..n.to - 1
                 PROVE  StateAt(WindowOf(n), t) = RecordedState(n.entity, t)
    BY DEF WindowIsOwnRequest
  <2> DEFINE s == series[n.entity]
             r == [entity |-> n.entity, kind |-> s.kind, from |-> s.from, to |-> s.to]
  <2>2. Read(n) = "read"
    BY <1>1, <2>1 DEF ImportInv, BuiltRead
  <2>3. n.entity \in DOMAIN series /\ ~(n.from < s.from \/ n.to > s.to)
    BY <2>2 DEF Read
  <2>4. RangeOk(r) /\ Sampled(s.samples, recorder[n.entity], s.from, s.to)
    BY <1>1, <2>3 DEF ImportInv, SeriesOk
  <2>5. r.entity = n.entity /\ r.from = s.from /\ r.to = s.to
    OBVIOUS
  <2>6. r \in Requests /\ r.from < r.to
    BY <2>4 DEF RangeOk
  <2> HIDE DEF r
  <2>7. s.from \in Int /\ s.to \in Int /\ s.from < s.to /\ n.entity \in Entities
    BY <2>5, <2>6 DEF Requests
  <2>8. n.from \in Int /\ n.to \in Int
    <3>1. /\ DOMAIN results = 1..Len(results) /\ Len(results) <= Len(needs)
          /\ Len(results) \in Nat /\ Len(needs) \in Nat /\ DOMAIN needs = 1..Len(needs)
      BY <1>1, NeedsType, LenProperties DEF ImportInv, TypeInv
    <3>2. i \in DOMAIN needs
      BY <3>1
    <3>3. n \in Needed /\ needs \in Plans
      BY <1>1, <3>2, NeededAre DEF ImportInv, TypeInv
    <3>4. QED
      BY <3>3, NeededAre DEF Requests
  <2>9. t \in Int /\ n.from <= t /\ t < n.to
    BY <2>8
  <2>10. s.from <= n.from /\ n.to <= s.to
    BY <2>3, <2>7, <2>8
  <2>11. IsRecording(recorder[n.entity])
    BY <1>1, <2>7, RecordingIs DEF ImportInv, TypeInv
  <2>12. WindowOf(n) = Window(s.samples, n.from, n.to)
    BY DEF WindowOf
  <2> HIDE DEF s
  <2>13. StateAt(Window(s.samples, n.from, n.to), t)
           = IF InForce(recorder[n.entity], t) = Silent THEN Silent
             ELSE InForce(recorder[n.entity], t).state
    BY <2>4, <2>7, <2>8, <2>9, <2>10, <2>11, WindowTells
  <2>14. QED
    BY <2>12, <2>13 DEF RecordedState
<1>2. QED
  BY <1>1, ImportInvariant, PTL
=============================================================================
