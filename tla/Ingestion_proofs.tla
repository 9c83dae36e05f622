--------------------------- MODULE Ingestion_proofs ---------------------------
(***************************************************************************)
(* Proofs about the two ingests, HistoricalStream and WireRunAssembly, for  *)
(* every artifact and run and every bound.                                  *)
(***************************************************************************)
EXTENDS HistoricalStream, WireRunAssembly, FiniteSetTheorems, FunctionTheorems, SequenceTheorems,
        WellFoundedInduction, TLAPS

(* Sorting.  R holds the pairs of a total order of S; the rank of x is how many are up  *)
(* to it.                                                                                *)

UpToIn(S, R, x) == {y \in S : <<y, x>> \in R}
RankIn(S, R, x) == Cardinality(UpToIn(S, R, x))
Orders(R, S) ==
    \A x, y \in S :
        /\ <<x, y>> \in R \/ <<y, x>> \in R
        /\ <<x, y>> \in R /\ <<y, x>> \in R => x = y
        /\ \A z \in S : <<x, y>> \in R /\ <<y, z>> \in R => <<x, z>> \in R

LEMMA RanksDiffer ==
  ASSUME NEW S, IsFiniteSet(S), NEW R, Orders(R, S), NEW x \in S, NEW y \in S, x # y, <<x, y>> \in R
  PROVE  RankIn(S, R, x) < RankIn(S, R, y)
<1>1. UpToIn(S, R, y) \in SUBSET S /\ UpToIn(S, R, x) \in SUBSET UpToIn(S, R, y)
  BY DEF UpToIn, Orders
<1>2. y \in UpToIn(S, R, y) /\ y \notin UpToIn(S, R, x)
  BY DEF UpToIn, Orders
<1>3. IsFiniteSet(UpToIn(S, R, y))
  BY <1>1, FS_Subset
<1>4. /\ IsFiniteSet(UpToIn(S, R, x)) /\ RankIn(S, R, x) <= RankIn(S, R, y)
      /\ RankIn(S, R, x) # RankIn(S, R, y)
  BY <1>1, <1>2, <1>3, FS_Subset DEF RankIn
<1>5. RankIn(S, R, x) \in Nat /\ RankIn(S, R, y) \in Nat
  BY <1>3, <1>4, FS_CardinalityType DEF RankIn
<1> QED BY <1>4, <1>5

LEMMA RankOnto ==
  ASSUME NEW S, IsFiniteSet(S), NEW R, Orders(R, S)
  PROVE  /\ Cardinality(S) \in Nat
         /\ \A x \in S : RankIn(S, R, x) \in 1..Cardinality(S)
         /\ \A x, y \in S : RankIn(S, R, x) = RankIn(S, R, y) => x = y
         /\ \A k \in 1..Cardinality(S) : \E x \in S : RankIn(S, R, x) = k
<1> DEFINE rank == [x \in S |-> RankIn(S, R, x)]
           n == Cardinality(S)
<1>1. n \in Nat
  BY FS_CardinalityType
<1>2. ASSUME NEW x \in S PROVE RankIn(S, R, x) \in 1..n
  <2>1. UpToIn(S, R, x) \in SUBSET S /\ x \in UpToIn(S, R, x)
    BY DEF UpToIn, Orders
  <2>2. /\ IsFiniteSet(UpToIn(S, R, x)) /\ RankIn(S, R, x) <= n
        /\ RankIn(S, R, x) \in Nat /\ RankIn(S, R, x) # 0
    <3>1. IsFiniteSet(UpToIn(S, R, x)) /\ RankIn(S, R, x) <= n
      BY <2>1, FS_Subset DEF RankIn
    <3>2. RankIn(S, R, x) \in Nat /\ RankIn(S, R, x) # 0
      BY <2>1, <3>1, FS_CardinalityType, FS_EmptySet DEF RankIn
    <3> QED BY <3>1, <3>2
  <2> QED BY <1>1, <2>2
<1>3. ASSUME NEW x \in S, NEW y \in S, RankIn(S, R, x) = RankIn(S, R, y) PROVE x = y
  <2>1. RankIn(S, R, x) \in 1..n
    BY <1>2
  <2>2. CASE <<x, y>> \in R
    BY <1>1, <1>3, <2>1, <2>2, RanksDiffer
  <2>3. CASE <<y, x>> \in R
    BY <1>1, <1>3, <2>1, <2>3, RanksDiffer
  <2> QED BY <2>2, <2>3 DEF Orders
<1>4. rank \in Surjection(S, 1..n)
  <2>1. rank \in Injection(S, 1..n)
    BY <1>2, <1>3, Fun_IsInj
  <2>2. IsFiniteSet(1..n) /\ Cardinality(1..n) = n
    BY <1>1, FS_Interval
  <2> QED BY <2>1, <2>2, FS_Injection
<1>5. \A k \in 1..n : \E x \in S : rank[x] = k
  BY <1>4 DEF Surjection
<1>6. \A k \in 1..n : \E x \in S : RankIn(S, R, x) = k
  BY <1>5
<1> QED BY <1>1, <1>2, <1>3, <1>6

\* A function that has each member of S at its rank, and one that ascends.
AtRanks(a, S, R) ==
    a \in [1..Cardinality(S) -> S] /\ \A k \in 1..Cardinality(S) : RankIn(S, R, a[k]) = k
Ascends(a, S, R) ==
    /\ a \in [1..Cardinality(S) -> S]
    /\ \A k, l \in 1..Cardinality(S) : k < l => <<a[k], a[l]>> \in R /\ a[k] # a[l]

\* A sequence of the members of S that ascends has each at its rank.
LEMMA RankOfAscending ==
  ASSUME NEW S, IsFiniteSet(S), NEW R, Orders(R, S), NEW s, Ascends(s, S, R)
  PROVE  AtRanks(s, S, R)
<1> SUFFICES ASSUME NEW k \in 1..Cardinality(S) PROVE RankIn(S, R, s[k]) = k
  BY DEF AtRanks, Ascends
<1>0. /\ s \in [1..Cardinality(S) -> S]
      /\ \A m, l \in 1..Cardinality(S) : m < l => <<s[m], s[l]>> \in R /\ s[m] # s[l]
  BY DEF Ascends
<1> DEFINE n == Cardinality(S)
           part == [j \in 1..k |-> s[j]]
<1>1. n \in Nat /\ k \in Nat /\ k \in 1..n
  BY FS_CardinalityType
<1>2. \A i, j \in 1..n : s[i] = s[j] => i = j
  <2>1. \A i, j \in 1..n : i # j => i < j \/ j < i
    BY <1>1
  <2> QED BY <1>0, <2>1
<1>3. s \in Surjection(1..n, S)
  <2>1. s \in Injection(1..n, S)
    BY <1>0, <1>2, Fun_IsInj
  <2>2. IsFiniteSet(1..n) /\ Cardinality(1..n) = n
    BY <1>1, FS_Interval
  <2> QED BY <2>1, <2>2, FS_Injection
<1>4. UpToIn(S, R, s[k]) = {s[j] : j \in 1..k}
  <2>1. ASSUME NEW j \in 1..k PROVE s[j] \in S /\ <<s[j], s[k]>> \in R
    <3>1. j \in 1..n /\ (j = k \/ j < k)
      BY <1>1
    <3> QED BY <1>0, <3>1 DEF Orders
  <2>2. ASSUME NEW y \in S, <<y, s[k]>> \in R PROVE \E j \in 1..k : y = s[j]
    <3>1. PICK j \in 1..n : s[j] = y
      BY <1>3 DEF Surjection
    <3>2. ~(k < j)
      BY <1>0, <2>2, <3>1 DEF Orders
    <3>3. j \in 1..k
      BY <1>1, <3>2
    <3> QED BY <3>1, <3>3
  <2> QED BY <2>1, <2>2 DEF UpToIn
<1>5. part \in Bijection(1..k, UpToIn(S, R, s[k]))
  <2>1. part \in [1..k -> UpToIn(S, R, s[k])]
    BY <1>4
  <2>2. \A i, j \in 1..k : part[i] = part[j] => i = j
    BY <1>1, <1>2
  <2>3. \A y \in UpToIn(S, R, s[k]) : \E j \in 1..k : part[j] = y
    BY <1>4
  <2> HIDE DEF part
  <2> QED BY <2>1, <2>2, <2>3, Fun_IsBij
<1>6. IsFiniteSet(1..k) /\ Cardinality(1..k) = k
  BY <1>1, FS_Interval
<1>7. Cardinality(UpToIn(S, R, s[k])) = k
  <2> HIDE DEF part
  <2> QED BY <1>5, <1>6, FS_Bijection, Fun_ExistsBij
<1> QED BY <1>7 DEF RankIn

\* A function that has at each place the member of that rank ascends and misses none.
LEMMA AscendsByRank ==
  ASSUME NEW S, IsFiniteSet(S), NEW R, Orders(R, S), NEW a, AtRanks(a, S, R)
  PROVE  Ascends(a, S, R) /\ \A x \in S : \E k \in 1..Cardinality(S) : a[k] = x
<1>0. a \in [1..Cardinality(S) -> S] /\ \A k \in 1..Cardinality(S) : RankIn(S, R, a[k]) = k
  BY DEF AtRanks
<1>1. Cardinality(S) \in Nat
  BY FS_CardinalityType
<1>2. \A x \in S : \E k \in 1..Cardinality(S) : a[k] = x
  BY <1>0, RankOnto
<1>3. ASSUME NEW k \in 1..Cardinality(S), NEW l \in 1..Cardinality(S), k < l
      PROVE  <<a[k], a[l]>> \in R /\ a[k] # a[l]
  <2>1. a[k] # a[l]
    BY <1>0, <1>1, <1>3
  <2>2. ~(<<a[l], a[k]>> \in R)
    <3>1. ~(l < k)
      BY <1>1, <1>3
    <3> QED BY <1>0, <1>1, <2>1, <3>1, RanksDiffer
  <2> QED BY <1>0, <2>1, <2>2 DEF Orders
<1> QED BY <1>0, <1>2, <1>3 DEF Ascends

\* Only one function has each member at its rank.
LEMMA RanksFix ==
  ASSUME NEW S, IsFiniteSet(S), NEW R, Orders(R, S), NEW a, AtRanks(a, S, R), NEW b, AtRanks(b, S, R)
  PROVE  a = b
<1>1. /\ a = [k \in 1..Cardinality(S) |-> a[k]] /\ b = [k \in 1..Cardinality(S) |-> b[k]]
      /\ \A k \in 1..Cardinality(S) : a[k] \in S /\ b[k] \in S
  BY DEF AtRanks
<1>2. \A k \in 1..Cardinality(S) : RankIn(S, R, a[k]) = RankIn(S, R, b[k])
  BY DEF AtRanks
<1>3. \A k \in 1..Cardinality(S) : a[k] = b[k]
  BY <1>1, <1>2, RankOnto
<1> QED BY <1>1, <1>3


GridPairs(G) == {p \in G \X G : AtOrBefore(p[1], p[2])}

LEMMA GridOrders ==
  ASSUME NEW G, G \subseteq Nat \X Nat
  PROVE  Orders(GridPairs(G), G)
<1>1. \A r \in G : r[1] \in Nat /\ r[2] \in Nat /\ r = <<r[1], r[2]>>
  OBVIOUS
<1>2. \A r, s \in G : <<r, s>> \in GridPairs(G) <=> r = s \/ Before(r, s)
  BY DEF GridPairs, AtOrBefore
<1>3. ASSUME NEW r \in G, NEW s \in G
      PROVE  /\ r = s \/ Before(r, s) \/ Before(s, r)
             /\ ~(Before(r, s) /\ Before(s, r)) /\ ~Before(r, r)
  BY <1>1 DEF Before
<1>4. ASSUME NEW r \in G, NEW s \in G, NEW u \in G, Before(r, s), Before(s, u)
      PROVE  Before(r, u)
  BY <1>1, <1>4 DEF Before
<1> QED BY <1>2, <1>3, <1>4 DEF Orders

\* The grid G in order: it ascends, and nothing else that ascends holds all of G.
LEMMA GridInOrder ==
  ASSUME NEW G, G \subseteq Nat \X Nat, IsFiniteSet(G)
  PROVE  /\ Cardinality(G) \in Nat
         /\ SortedIndex(G) \in [1..Cardinality(G) -> G]
         /\ \A k, l \in 1..Cardinality(G) :
                k < l => Before(SortedIndex(G)[k], SortedIndex(G)[l])
         /\ \A s \in [1..Cardinality(G) -> G] :
                (\A k, l \in 1..Cardinality(G) : k < l => Before(s[k], s[l])) => s = SortedIndex(G)
<1> DEFINE R == GridPairs(G)
           n == Cardinality(G)
           a == SortedIndex(G)
<1>1. Orders(R, G)
  BY GridOrders
<1>2. \A x \in G : RankIn(G, R, x) = Cardinality({y \in G : AtOrBefore(y, x)})
  <2>1. \A x \in G : UpToIn(G, R, x) = {y \in G : AtOrBefore(y, x)}
    BY DEF UpToIn, GridPairs
  <2> QED BY <2>1 DEF RankIn
<1>3. a = [k \in 1..n |-> CHOOSE x \in G : Cardinality({y \in G : AtOrBefore(y, x)}) = k]
  BY DEF InOrder, SortedIndex, Ascending
<1>4. ASSUME NEW k \in 1..n PROVE a[k] \in G /\ RankIn(G, R, a[k]) = k
  <2>1. \E x \in G : Cardinality({y \in G : AtOrBefore(y, x)}) = k
    <3> HIDE DEF R
    <3> QED BY <1>1, <1>2, RankOnto
  <2>2. a[k] = CHOOSE x \in G : Cardinality({y \in G : AtOrBefore(y, x)}) = k
    BY <1>3
  <2> HIDE DEF a
  <2>3. a[k] \in G /\ Cardinality({y \in G : AtOrBefore(y, a[k])}) = k
    BY <2>1, <2>2
  <2> QED BY <1>2, <2>3
<1>5. a \in [1..n -> G]
  BY <1>3, <1>4
<1> HIDE DEF a, R
<1>6. AtRanks(a, G, R)
  BY <1>4, <1>5 DEF AtRanks
<1>7. n \in Nat /\ Ascends(a, G, R)
  BY <1>1, <1>6, AscendsByRank, FS_CardinalityType
<1>8. \A k, l \in 1..n : k < l => Before(a[k], a[l])
  BY <1>7 DEF R, GridPairs, AtOrBefore, Ascends
<1>9. ASSUME NEW s \in [1..n -> G], \A k, l \in 1..n : k < l => Before(s[k], s[l])
      PROVE  s = a
  <2>1. \A x \in G : ~Before(x, x)
    <3>1. \A x \in G : x[1] \in Nat /\ x[2] \in Nat
      OBVIOUS
    <3> QED BY <3>1 DEF Before
  <2>2. \A x, y \in G : Before(x, y) => <<x, y>> \in R /\ x # y
    BY <2>1 DEF R, GridPairs, AtOrBefore
  <2>3. Ascends(s, G, R)
    BY <1>9, <2>2 DEF Ascends
  <2> QED BY <1>1, <1>6, <2>3, RankOfAscending, RanksFix
<1> QED BY <1>5, <1>7, <1>8, <1>9 DEF a

\* A finite set of numbers in order.
LEMMA NumbersInOrder ==
  ASSUME NEW I, IsFiniteSet(I), \A i \in I : i \in Nat
  PROVE  /\ Cardinality(I) \in Nat
         /\ Ascending(I) \in [1..Cardinality(I) -> I]
         /\ \A i \in I : \E k \in 1..Cardinality(I) : Ascending(I)[k] = i
         /\ \A k, l \in 1..Cardinality(I) : k < l => Ascending(I)[k] # Ascending(I)[l]
<1> DEFINE R == {p \in I \X I : p[1] <= p[2]}
           n == Cardinality(I)
           a == Ascending(I)
           upTo(x) == Cardinality({y \in I : y <= x})
<1>1. Orders(R, I)
  <2>1. \A i, j \in I : <<i, j>> \in R <=> i <= j
    OBVIOUS
  <2>2. \A i, j \in I : /\ i <= j \/ j <= i
                        /\ i <= j /\ j <= i => i = j
                        /\ \A k \in I : i <= j /\ j <= k => i <= k
    <3>1. \A i \in I : i \in Nat
      OBVIOUS
    <3> QED BY <3>1
  <2> HIDE DEF R
  <2> QED BY <2>1, <2>2 DEF Orders
<1>2. \A x \in I : RankIn(I, R, x) = upTo(x)
  <2>1. \A x \in I : UpToIn(I, R, x) = {y \in I : y <= x}
    BY DEF UpToIn
  <2> QED BY <2>1 DEF RankIn
<1>3. a = [k \in 1..n |-> CHOOSE x \in I : upTo(x) = k]
  BY DEF InOrder, SortedIndex, Ascending
<1> HIDE DEF a, R, upTo
<1>0. \A k \in 1..n : \E x \in I : RankIn(I, R, x) = k
  BY <1>1, RankOnto
<1>4. ASSUME NEW k \in 1..n PROVE a[k] \in I /\ RankIn(I, R, a[k]) = k
  <2>1. \E x \in I : upTo(x) = k
    BY <1>0, <1>2
  <2>2. a[k] = CHOOSE x \in I : upTo(x) = k
    BY <1>3
  <2>3. a[k] \in I /\ upTo(a[k]) = k
    BY <2>1, <2>2
  <2> QED BY <1>2, <2>3
<1>5. a \in [1..n -> I]
  BY <1>3, <1>4
<1>6. AtRanks(a, I, R)
  BY <1>4, <1>5 DEF AtRanks
<1>7. n \in Nat /\ Ascends(a, I, R) /\ \A x \in I : \E k \in 1..n : a[k] = x
  BY <1>1, <1>6, AscendsByRank, FS_CardinalityType
<1> QED BY <1>5, <1>7 DEF a, Ascends

\* The least of a set of numbers, by the well-foundedness of Nat.
LEMMA LeastIn == ASSUME NEW S, S \subseteq Nat, S # {} PROVE \E m \in S : \A d \in S : m <= d
<1> DEFINE R == {ss \in Nat \X Nat : ss[1] < ss[2]}
<1>1. IsWellFoundedOn(R, Nat)
  BY NatLessThanWellFounded DEF OpToRel
<1>2. \E m \in S : \A d \in S : <<d, m>> \notin R
  <2> HIDE DEF R
  <2> QED BY <1>1, WFMin
<1>3. PICK m \in S : \A d \in S : <<d, m>> \notin R
  BY <1>2
<1>4. ASSUME NEW d \in S PROVE m <= d
  <2>1. ~(d < m) /\ m \in Nat /\ d \in Nat
    BY <1>3
  <2> QED BY <2>1
<1> QED BY <1>4

LEMMA BeforeTransitive ==
  ASSUME NEW r \in Nat \X Nat, NEW s \in Nat \X Nat, NEW u \in Nat \X Nat, Before(r, s), Before(s, u)
  PROVE  Before(r, u)
BY DEF Before

\* Keys each of which is before the next ascend throughout.
LEMMA AscendThroughout ==
  ASSUME NEW n \in Nat, NEW f \in [1..n -> Nat \X Nat], \A i \in 2..n : Before(f[i - 1], f[i])
  PROVE  \A i, j \in 1..n : i < j => Before(f[i], f[j])
<1> DEFINE Bad == {j \in 1..n : \E i \in 1..n : i < j /\ ~Before(f[i], f[j])}
<1>1. SUFFICES ASSUME Bad # {} PROVE FALSE
  OBVIOUS
<1>2. PICK j \in Bad : \A k \in Bad : j <= k
  <2>1. Bad \subseteq Nat
    OBVIOUS
  <2> HIDE DEF Bad
  <2> QED BY <1>1, <2>1, LeastIn
<1>3. PICK i \in 1..n : i < j /\ ~Before(f[i], f[j])
  OBVIOUS
<1>4. j \in 2..n /\ j - 1 \in 1..n /\ j - 1 \notin Bad
  BY <1>2, <1>3
<1>5. Before(f[j - 1], f[j])
  BY <1>4
<1>6. i < j - 1
  <2>1. i # j - 1
    BY <1>3, <1>5
  <2> QED BY <1>3, <1>4, <2>1
<1>7. Before(f[i], f[j - 1])
  BY <1>4, <1>6
<1>8. f[i] \in Nat \X Nat /\ f[j - 1] \in Nat \X Nat /\ f[j] \in Nat \X Nat
  BY <1>3, <1>4
<1>9. Before(f[i], f[j])
  BY <1>5, <1>7, <1>8, BeforeTransitive
<1> QED BY <1>3, <1>9

-------------------------------------------------------------------------------
(* The streamer *)

\* The rows read so far ascend, and their geography is sound or of no country.
Key(i) == <<rows[i].month, rows[i].cell>>
Clean(k) ==
    /\ \A i \in 1..k : rows[i].geo \in {"sound", "nocountry"}
    /\ \A i \in 2..k : Before(Key(i - 1), Key(i))

StreamInv ==
    /\ \E n \in 0..MaxRows : artifact \in Inputs(n)
    /\ row \in 0..Len(rows) /\ Clean(row)
    /\ verdict \in {"opening", "streaming", "not streamable", "implausible", "streamed"}
    /\ verdict \in {"streaming", "implausible", "streamed"} => rows # <<>>
    /\ verdict = "implausible" => \E i \in DOMAIN rows : rows[i].geo \in {"coord", "iso"}
    /\ verdict = "streamed" => row = Len(rows) /\ Dense /\ LastCells = Entities

LEMMA RowsTyped ==
  ASSUME NEW n \in 0..MaxRows, artifact \in Inputs(n)
  PROVE  /\ n \in Nat /\ rows \in [1..n -> Row] /\ rows \in Seq(Row) /\ Len(rows) = n /\ DOMAIN rows = 1..n
         /\ artifact.cuts \in SUBSET (1..n - 1)
         /\ \A i \in 1..n : Key(i) \in Nat \X Nat /\ rows[i].month \in Nat /\ rows[i].cell \in Nat
<1>1. n \in Nat
  BY StreamAssumption
<1>2. rows \in [1..n -> Row] /\ artifact.cuts \in SUBSET (1..n - 1)
  BY DEF rows, Inputs
<1>3. \A i \in 1..n : rows[i].month \in Nat /\ rows[i].cell \in Nat
  BY <1>2, StreamAssumption DEF Row
<1>4. rows \in Seq(Row) /\ Len(rows) = n /\ DOMAIN rows = 1..n
  <2>1. rows = [i \in 1..n |-> rows[i]] /\ \A i \in 1..n : rows[i] \in Row
    BY <1>2
  <2> QED BY <1>1, <1>2, <2>1
<1> QED BY <1>1, <1>2, <1>3, <1>4 DEF Key

LEMMA GroupEndIn ==
  ASSUME NEW n \in 0..MaxRows, artifact \in Inputs(n), row \in 0..n, row < n
  PROVE  GroupEnd \in row + 1..n
<1> DEFINE S == {k \in artifact.cuts \cup {n} : k > row}
<1>1. n \in Nat /\ Len(rows) = n /\ artifact.cuts \in SUBSET (1..n - 1)
  BY RowsTyped
<1>2. S \subseteq Nat /\ n \in S /\ \A k \in S : k \in row + 1..n
  BY <1>1
<1>3. PICK m \in S : \A k \in S : m <= k
  <2> HIDE DEF S
  <2> QED BY <1>2, LeastIn
<1>4. \E k \in artifact.cuts \cup {Len(rows)} : k > row /\ \A j \in artifact.cuts : j > row => k <= j
  BY <1>1, <1>3
<1>5. GroupEnd \in artifact.cuts \cup {Len(rows)} /\ GroupEnd > row
  BY <1>4 DEF GroupEnd
<1> QED BY <1>1, <1>2, <1>5

LEMMA StreamInvInit == StreamInit => StreamInv
<1> SUFFICES ASSUME StreamInit PROVE StreamInv
  OBVIOUS
<1>1. PICK n \in 0..MaxRows : artifact \in Inputs(n)
  BY DEF StreamInit
<1>2. Len(rows) \in Nat
  BY <1>1, RowsTyped
<1> QED BY <1>1, <1>2 DEF StreamInit, StreamInv, Clean

LEMMA ReadGroupKeeps ==
  ASSUME StreamInv, ReadGroup
  PROVE  StreamInv'
<1>1. PICK n \in 0..MaxRows : artifact \in Inputs(n)
  BY DEF StreamInv
<1>2. n \in Nat /\ Len(rows) = n /\ DOMAIN rows = 1..n /\ rows \in [1..n -> Row] /\ row \in 0..n /\ row < n
  BY <1>1, RowsTyped DEF StreamInv, ReadGroup
<1>3. GroupEnd \in row + 1..n
  BY <1>1, <1>2, GroupEndIn
<1>4. UNCHANGED artifact /\ verdict = "streaming" /\ rows # <<>>
  BY DEF ReadGroup, End, StreamInv
<1>5. CASE UNCHANGED row /\ verdict' = "not streamable"
  BY <1>4, <1>5 DEF StreamInv, Clean, Key, rows
<1>6. CASE UNCHANGED row /\ verdict' = "implausible" /\ \E i \in Chunk : ~Plausible(i)
  <2>1. \E i \in DOMAIN rows : rows[i].geo \in {"coord", "iso"}
    BY <1>2, <1>3, <1>6 DEF Chunk, Plausible
  <2> QED BY <1>4, <1>6, <2>1 DEF StreamInv, Clean, Key, rows
<1>7. CASE /\ MonthsAscend /\ CellsAscend /\ row' = GroupEnd /\ UNCHANGED verdict
           /\ \A i \in Chunk : rows[i].geo # "null" /\ Plausible(i)
  <2>1. ASSUME NEW i \in 1..GroupEnd PROVE rows[i].geo \in {"sound", "nocountry"}
    <3>1. CASE i \in 1..row
      BY <3>1 DEF StreamInv, Clean
    <3>2. CASE i \in Chunk
      <4>1. rows[i].geo \in Geography
        BY <1>2, <1>3 DEF Row
      <4> QED BY <1>7, <3>2, <4>1 DEF Plausible, Geography
    <3> QED BY <1>2, <1>3, <3>1, <3>2 DEF Chunk
  <2>2. ASSUME NEW i \in 2..GroupEnd PROVE Before(Key(i - 1), Key(i))
    <3>1. CASE i \in 2..row
      BY <3>1 DEF StreamInv, Clean
    <3>2. CASE i \in Chunk
      <4>1. /\ rows[i - 1].month <= rows[i].month
            /\ rows[i - 1].month = rows[i].month => rows[i - 1].cell < rows[i].cell
        BY <1>2, <1>3, <1>7, <3>2 DEF MonthsAscend, CellsAscend
      <4>2. rows[i - 1].month \in Nat /\ rows[i].month \in Nat
        BY <1>1, <1>2, <1>3, RowsTyped
      <4> QED BY <4>1, <4>2 DEF Before, Key
    <3> QED BY <1>2, <1>3, <3>1, <3>2 DEF Chunk
  <2>3. Clean(GroupEnd)
    BY <2>1, <2>2 DEF Clean
  <2>4. artifact' \in Inputs(n) /\ rows' = rows /\ row' \in 0..Len(rows)
    BY <1>1, <1>2, <1>3, <1>4, <1>7 DEF rows
  <2>5. Clean(row)'
    BY <1>4, <1>7, <2>3 DEF Clean, Key, rows
  <2>6. (\E m \in 0..MaxRows : artifact \in Inputs(m))'
    BY <2>4 DEF Inputs
  <2> QED BY <1>4, <1>7, <2>4, <2>5, <2>6 DEF StreamInv
<1> QED BY <1>5, <1>6, <1>7 DEF ReadGroup, End

LEMMA StreamInvStep == StreamInv /\ [StreamNext]_streamVars => StreamInv'
<1> SUFFICES ASSUME StreamInv, [StreamNext]_streamVars PROVE StreamInv'
  OBVIOUS
<1>1. CASE OpenArtifact
  BY <1>1 DEF OpenArtifact, End, StreamInv, Clean, Key, rows
<1>2. CASE ReadGroup
  BY <1>2, ReadGroupKeeps
<1>3. CASE Finish
  <2>1. UNCHANGED <<rows, Times, Entities, Dense, LastCells, row, artifact>>
    <3>1. UNCHANGED <<rows, row, artifact>>
      BY <1>3 DEF Finish, End, rows
    <3>2. UNCHANGED <<Times, Entities>>
      BY <3>1 DEF Times, Entities
    <3>3. LastMonth' = LastMonth
      BY <3>2 DEF LastMonth
    <3> QED BY <3>1, <3>2, <3>3 DEF Dense, LastCells
  <2>2. Clean(row)'
    BY <2>1 DEF Clean, Key, StreamInv
  <2> QED BY <1>3, <2>1, <2>2 DEF Finish, End, StreamInv
<1>4. CASE UNCHANGED streamVars
  <2>1. UNCHANGED <<rows, row, artifact, verdict>>
    BY <1>4 DEF streamVars, rows
  <2>2. UNCHANGED <<Times, Entities>>
    BY <2>1 DEF Times, Entities
  <2>3. LastMonth' = LastMonth
    BY <2>2 DEF LastMonth
  <2>4. UNCHANGED <<Dense, LastCells>>
    BY <2>1, <2>2, <2>3 DEF Dense, LastCells
  <2>5. Clean(row)'
    BY <2>1 DEF Clean, Key, StreamInv
  <2> QED BY <2>1, <2>2, <2>4, <2>5 DEF StreamInv
<1> QED BY <1>1, <1>2, <1>3, <1>4 DEF StreamNext

\* Sorted puts the rows s in the order of their ranks.
StablePairs(s) ==
    {p \in (DOMAIN s) \X (DOMAIN s) : \/ Precedes(s[p[1]], s[p[2]])
                                      \/ p[1] <= p[2] /\ ~Precedes(s[p[2]], s[p[1]])}

LEMMA StableOrders ==
  ASSUME NEW n \in Nat, NEW s \in [1..n -> Row]
  PROVE  Orders(StablePairs(s), 1..n)
<1>1. ASSUME NEW i \in 1..n PROVE i \in Nat /\ s[i].month \in Nat /\ s[i].cell \in Nat
  BY StreamAssumption DEF Row
<1>2. ASSUME NEW i \in 1..n, NEW j \in 1..n
      PROVE  <<i, j>> \in StablePairs(s) <=>
                 \/ s[i].month < s[j].month
                 \/ s[i].month = s[j].month /\ (s[i].cell < s[j].cell \/ (s[i].cell = s[j].cell /\ i <= j))
  <2>1. Precedes(s[i], s[j]) <=> s[i].month < s[j].month \/ (s[i].month = s[j].month /\ s[i].cell < s[j].cell)
    BY DEF Precedes, Before
  <2>2. Precedes(s[j], s[i]) <=> s[j].month < s[i].month \/ (s[j].month = s[i].month /\ s[j].cell < s[i].cell)
    BY DEF Precedes, Before
  <2>3. <<i, j>> \in StablePairs(s) <=> Precedes(s[i], s[j]) \/ (i <= j /\ ~Precedes(s[j], s[i]))
    BY DEF StablePairs
  <2> QED BY <1>1, <2>1, <2>2, <2>3
<1>3. ASSUME NEW i \in 1..n, NEW j \in 1..n
      PROVE  /\ <<i, j>> \in StablePairs(s) \/ <<j, i>> \in StablePairs(s)
             /\ <<i, j>> \in StablePairs(s) /\ <<j, i>> \in StablePairs(s) => i = j
  BY <1>1, <1>2
<1>4. ASSUME NEW i \in 1..n, NEW j \in 1..n, NEW k \in 1..n,
             <<i, j>> \in StablePairs(s), <<j, k>> \in StablePairs(s)
      PROVE  <<i, k>> \in StablePairs(s)
  <2> DEFINE Le(m, l) ==
                 \/ s[m].month < s[l].month
                 \/ s[m].month = s[l].month /\ (s[m].cell < s[l].cell \/ (s[m].cell = s[l].cell /\ m <= l))
  <2>1. Le(i, j) /\ Le(j, k)
    BY <1>2, <1>4
  <2>2. /\ i \in Nat /\ s[i].month \in Nat /\ s[i].cell \in Nat
        /\ j \in Nat /\ s[j].month \in Nat /\ s[j].cell \in Nat
        /\ k \in Nat /\ s[k].month \in Nat /\ s[k].cell \in Nat
    BY <1>1
  <2>3. Le(i, k)
    BY <2>1, <2>2
  <2> QED BY <1>2, <2>3
<1> QED BY <1>3, <1>4 DEF Orders

LEMMA SortedByRank ==
  ASSUME NEW n \in Nat, NEW s \in [1..n -> Row]
  PROVE  \E a : AtRanks(a, 1..n, StablePairs(s)) /\ Sorted(s) = [k \in 1..n |-> s[a[k]]]
<1> DEFINE UpTo(i, j) == Precedes(s[i], s[j]) \/ (i <= j /\ ~Precedes(s[j], s[i]))
           a == InOrder(DOMAIN s, UpTo)
           R == StablePairs(s)
           many(x) == Cardinality({y \in 1..n : UpTo(y, x)})
<1>0. DOMAIN s = 1..n /\ IsFiniteSet(1..n) /\ Cardinality(1..n) = n
  BY FS_Interval
<1>1. Sorted(s) = [k \in DOMAIN s |-> s[a[k]]]
  BY DEF Sorted
<1>2. \A x \in 1..n : RankIn(1..n, R, x) = many(x)
  <2>1. \A x \in 1..n : UpToIn(1..n, R, x) = {y \in 1..n : UpTo(y, x)}
    BY <1>0 DEF UpToIn, StablePairs
  <2> QED BY <2>1 DEF RankIn
<1>3. a = [k \in 1..n |-> CHOOSE x \in 1..n : many(x) = k]
  BY <1>0 DEF InOrder
<1> HIDE DEF a, R, many
<1>4. \A k \in 1..n : \E x \in 1..n : RankIn(1..n, R, x) = k
  BY <1>0, StableOrders, RankOnto DEF R
<1>5. ASSUME NEW k \in 1..n PROVE a[k] \in 1..n /\ RankIn(1..n, R, a[k]) = k
  <2>1. a[k] = CHOOSE x \in 1..n : many(x) = k
    BY <1>3
  <2>3. \E x \in 1..n : many(x) = k
    BY <1>2, <1>4
  <2>2. a[k] \in 1..n /\ many(a[k]) = k
    BY <2>1, <2>3
  <2> QED BY <1>2, <2>2
<1>6. AtRanks(a, 1..n, R)
  BY <1>0, <1>3, <1>5 DEF AtRanks
<1> QED BY <1>0, <1>1, <1>6 DEF R

\* Sorting leaves rows that ascend as they are, and loses no row.
LEMMA AscendingIsSorted ==
  ASSUME NEW n \in Nat, NEW s \in [1..n -> Row], \A i, j \in 1..n : i < j => Precedes(s[i], s[j])
  PROVE  Sorted(s) = s
<1> DEFINE R == StablePairs(s)
           id == [k \in 1..n |-> k]
<1>0. DOMAIN s = 1..n /\ IsFiniteSet(1..n) /\ Cardinality(1..n) = n
  BY FS_Interval
<1>1. PICK a : AtRanks(a, 1..n, R) /\ Sorted(s) = [k \in 1..n |-> s[a[k]]]
  BY SortedByRank
<1>2. Orders(R, 1..n)
  BY StableOrders
<1>3. Ascends(id, 1..n, R)
  <2>1. \A i, j \in 1..n : i < j => <<i, j>> \in R /\ i # j
    BY <1>0 DEF StablePairs
  <2> HIDE DEF R
  <2> QED BY <1>0, <2>1 DEF Ascends
<1>4. a = id
  <2> HIDE DEF R, id
  <2> QED BY <1>0, <1>1, <1>2, <1>3, RankOfAscending, RanksFix
<1>5. \A k \in 1..n : a[k] = k
  BY <1>4
<1>6. s = [k \in 1..n |-> s[k]]
  OBVIOUS
<1> QED BY <1>1, <1>5, <1>6

LEMMA SortedKeepsRows ==
  ASSUME NEW n \in Nat, NEW s \in [1..n -> Row], NEW i \in 1..n
  PROVE  DOMAIN Sorted(s) = 1..n /\ \E k \in 1..n : Sorted(s)[k] = s[i]
<1>0. IsFiniteSet(1..n) /\ Cardinality(1..n) = n
  BY FS_Interval
<1>1. PICK a : AtRanks(a, 1..n, StablePairs(s)) /\ Sorted(s) = [k \in 1..n |-> s[a[k]]]
  BY SortedByRank
<1>2. \A x \in 1..n : \E k \in 1..n : a[k] = x
  <2>1. PICK D : D = 1..n
    OBVIOUS
  <2>2. Orders(StablePairs(s), D) /\ IsFiniteSet(D) /\ AtRanks(a, D, StablePairs(s))
    BY <1>0, <1>1, <2>1, StableOrders
  <2>3. \A x \in D : \E k \in 1..Cardinality(D) : a[k] = x
    BY <2>2, AscendsByRank
  <2> QED BY <1>0, <2>1, <2>3
<1>3. PICK k \in 1..n : a[k] = i
  BY <1>2
<1> QED BY <1>1, <1>3

\* A finite number of months and cells occur, and a row of each pair at most times its number.
LEMMA GridFinite ==
  ASSUME NEW n \in 0..MaxRows, artifact \in Inputs(n)
  PROVE  IsFiniteSet(Times) /\ IsFiniteSet(Entities) /\ Pairs \in SUBSET (Times \X Entities)
<1> DEFINE m == [i \in 1..n |-> rows[i].month]
           c == [i \in 1..n |-> rows[i].cell]
<1>1. n \in Nat /\ DOMAIN rows = 1..n
  BY RowsTyped
<1>2. m \in Surjection(1..n, Times)
  <2>1. m \in [1..n -> Times] /\ \A t \in Times : \E i \in 1..n : m[i] = t
    BY <1>1 DEF Times
  <2> HIDE DEF m
  <2> QED BY <2>1, Fun_IsSurj
<1>3. c \in Surjection(1..n, Entities)
  <2>1. c \in [1..n -> Entities] /\ \A e \in Entities : \E i \in 1..n : c[i] = e
    BY <1>1 DEF Entities
  <2> HIDE DEF c
  <2> QED BY <2>1, Fun_IsSurj
<1>4. IsFiniteSet(1..n)
  BY <1>1, FS_Interval
<1>5. Pairs \in SUBSET (Times \X Entities)
  BY DEF Pairs, Times, Entities
<1> HIDE DEF m, c
<1> QED BY <1>2, <1>3, <1>4, <1>5, FS_Surjection

\* Rows that ascend and are as many as the grid has places leave none out.
LEMMA DenseIsWhole ==
  ASSUME NEW n \in 0..MaxRows, artifact \in Inputs(n), Dense,
         \A i, j \in 1..n : i < j => Before(Key(i), Key(j))
  PROVE  Missing = {} /\ Cardinality(Pairs) = Len(rows)
<1> DEFINE k == [i \in 1..n |-> Key(i)]
<1>0. n \in Nat /\ DOMAIN rows = 1..n /\ Len(rows) = n /\ \A i \in 1..n : Key(i) \in Nat \X Nat
  BY RowsTyped
<1>1. \A i, j \in 1..n : Key(i) = Key(j) => i = j
  <2>1. \A i, j \in 1..n : i # j => i < j \/ j < i
    BY <1>0
  <2>2. \A r \in Nat \X Nat : ~Before(r, r)
    BY DEF Before
  <2> QED BY <1>0, <2>1, <2>2
<1>2. k \in Bijection(1..n, Pairs)
  <2>1. k \in [1..n -> Pairs] /\ \A p \in Pairs : \E i \in 1..n : k[i] = p
    BY <1>0 DEF Pairs, Key
  <2>2. \A i, j \in 1..n : k[i] = k[j] => i = j
    BY <1>1
  <2> HIDE DEF k
  <2> QED BY <2>1, <2>2, Fun_IsBij
<1>3. IsFiniteSet(1..n) /\ Cardinality(1..n) = n
  BY <1>0, FS_Interval
<1>4. Cardinality(Pairs) = n
  <2> HIDE DEF k
  <2> QED BY <1>2, <1>3, FS_Bijection, Fun_ExistsBij
<1>5. /\ IsFiniteSet(Times) /\ IsFiniteSet(Entities) /\ Pairs \in SUBSET (Times \X Entities)
      /\ Cardinality(Times) * Cardinality(Entities) = n
  BY <1>0, GridFinite DEF Dense
<1>6. IsFiniteSet(Times \X Entities) /\ Cardinality(Times \X Entities) = n
  BY <1>5, FS_Product
<1>7. Times \X Entities = Pairs
  BY <1>4, <1>5, <1>6, FS_Subset
<1> QED BY <1>0, <1>4, <1>7 DEF Missing

LEMMA NothingToAppend ==
  ASSUME NEW n \in 0..MaxRows, artifact \in Inputs(n)
  PROVE  rows \o SetToSeq({}) = rows
<1>1. rows \in Seq(Row)
  BY RowsTyped
<1>2. SetToSeq({}) = <<>>
  <2>1. Cardinality({}) = 0
    BY FS_EmptySet
  <2>2. <<>> \in [1..0 -> {}] /\ IsInjective(<<>>)
    BY DEF IsInjective
  <2>3. \A f \in [1..0 -> {}] : f = <<>>
    OBVIOUS
  <2> QED BY <2>1, <2>2, <2>3 DEF SetToSeq
<1> QED BY <1>1, <1>2, ConcatEmptySeq

LEMMA StreamedIsWhole == StreamInv => StreamedAsSorted
<1> SUFFICES ASSUME StreamInv, verdict = "streamed" PROVE InMemoryAccepts /\ InMemory = rows
  BY DEF StreamedAsSorted
<1>1. PICK n \in 0..MaxRows : artifact \in Inputs(n)
  BY DEF StreamInv
<1>2. /\ n \in Nat /\ rows \in [1..n -> Row] /\ Len(rows) = n /\ DOMAIN rows = 1..n
      /\ \A i \in 1..n : Key(i) \in Nat \X Nat
  BY <1>1, RowsTyped
<1>3. Clean(n) /\ rows # <<>> /\ Dense /\ LastCells = Entities
  BY <1>2 DEF StreamInv
<1>4. \A i, j \in 1..n : i < j => Before(Key(i), Key(j))
  <2> DEFINE k == [i \in 1..n |-> Key(i)]
  <2>1. k \in [1..n -> Nat \X Nat] /\ \A i \in 1..n : k[i] = Key(i)
    BY <1>2
  <2>2. \A i \in 2..n : i \in 1..n /\ i - 1 \in 1..n /\ Before(Key(i - 1), Key(i))
    BY <1>2, <1>3 DEF Clean
  <2>3. \A i \in 2..n : Before(k[i - 1], k[i])
    BY <2>1, <2>2
  <2> HIDE DEF k
  <2>4. \A i, j \in 1..n : i < j => Before(k[i], k[j])
    BY <1>2, <2>1, <2>3, AscendThroughout
  <2> QED BY <2>1, <2>4
<1>5. Missing = {} /\ Cardinality(Pairs) = Len(rows)
  BY <1>1, <1>3, <1>4, DenseIsWhole
<1>6. \A i, j \in 1..n : i < j => Precedes(rows[i], rows[j])
  BY <1>4 DEF Precedes, Key
<1>7. Filled = rows
  <2>1. rows \o SetToSeq(Missing) = rows
    BY <1>1, <1>5, NothingToAppend
  <2>2. Sorted(rows) = rows
    BY <1>2, <1>6, AscendingIsSorted
  <2> QED BY <2>1, <2>2 DEF Filled
<1>8. \A i \in 1..n : rows[i].geo \in {"sound", "nocountry"}
  BY <1>3 DEF Clean
<1>9. \A e : ~Backfilled(e)
  BY <1>2, <1>7, <1>8 DEF Backfilled
<1>10. InMemory = rows
  <2>1. InMemory = [i \in DOMAIN rows |-> rows[i]]
    BY <1>7, <1>9 DEF InMemory
  <2> QED BY <1>2, <2>1
<1> QED BY <1>2, <1>3, <1>5, <1>8, <1>10 DEF InMemoryAccepts

\* What is streamed is what the in-memory path would have built, of every artifact however
\* it is cut into row groups: the rows of a dense file that ascend are the sorted grid.
THEOREM StreamedAsSortedHolds == StreamSpec => []StreamedAsSorted
BY StreamInvInit, StreamInvStep, StreamedIsWhole, PTL DEF StreamSpec

\* The in-memory path keeps every row of the file, with its geography unless backfilled.
LEMMA RowsKept ==
  ASSUME NEW n \in 0..MaxRows, artifact \in Inputs(n), NEW i \in 1..n
  PROVE  \E k \in DOMAIN Filled : Filled[k] = rows[i]
<1>1. rows \in Seq(Row) /\ Len(rows) = n /\ n \in Nat
  BY RowsTyped
<1>2. Missing \in SUBSET Row /\ IsFiniteSet(Missing)
  <2>1. IsFiniteSet((Times \X Entities) \ Pairs)
    BY GridFinite, FS_Product, FS_Difference
  <2> DEFINE f == [p \in (Times \X Entities) \ Pairs |-> [month |-> p[1], cell |-> p[2], geo |-> "null"]]
  <2>2. f \in Surjection((Times \X Entities) \ Pairs, Missing)
    BY DEF Missing, Surjection
  <2>3. Missing \in SUBSET Row
    BY <1>1, RowsTyped DEF Missing, Times, Entities, Row, Geography
  <2> HIDE DEF f
  <2> QED BY <2>1, <2>2, <2>3, FS_Surjection
<1>3. SetToSeq(Missing) \in Seq(Row)
  <2>1. Cardinality(Missing) \in Nat /\ Bijection(1..Cardinality(Missing), Missing) # {}
    BY <1>2, FS_CardinalityType, Fun_ExistsBij
  <2>2. \E f \in [1..Cardinality(Missing) -> Missing] : IsInjective(f)
    BY <2>1 DEF Bijection, Injection
  <2>3. SetToSeq(Missing) \in [1..Cardinality(Missing) -> Missing]
    BY <2>2 DEF SetToSeq
  <2> QED BY <1>2, <2>1, <2>3, SeqDef
<1>4. PICK s : s = rows \o SetToSeq(Missing)
  OBVIOUS
<1>5. s \in Seq(Row) /\ i \in 1..Len(s) /\ s[i] = rows[i]
  BY <1>1, <1>3, <1>4, ConcatProperties
<1>6. Len(s) \in Nat /\ s \in [1..Len(s) -> Row]
  BY <1>5, LenProperties
<1>7. DOMAIN Sorted(s) = 1..Len(s) /\ \E k \in 1..Len(s) : Sorted(s)[k] = s[i]
  BY <1>5, <1>6, SortedKeepsRows
<1> QED BY <1>4, <1>5, <1>7 DEF Filled

LEMMA RefusedRightly == StreamInv => RefusedUnlessBackfilled
<1> SUFFICES ASSUME StreamInv, verdict = "implausible", InMemoryAccepts
             PROVE  \E i \in DOMAIN rows : rows[i].geo = "coord" /\ Backfilled(rows[i].cell)
  BY DEF RefusedUnlessBackfilled
<1>1. PICK n \in 0..MaxRows : artifact \in Inputs(n)
  BY DEF StreamInv
<1>2. DOMAIN rows = 1..n
  BY <1>1, RowsTyped
<1>3. PICK i \in DOMAIN rows : rows[i].geo = "coord"
  BY DEF StreamInv, InMemoryAccepts
<1>4. PICK k \in DOMAIN Filled : Filled[k] = rows[i]
  BY <1>1, <1>2, RowsKept
<1>5. CASE ~Backfilled(rows[i].cell)
  <2>1. k \in DOMAIN InMemory /\ InMemory[k].geo = "coord"
    BY <1>3, <1>4, <1>5 DEF InMemory
  <2> QED BY <2>1 DEF InMemoryAccepts
<1> QED BY <1>3, <1>5

\* An artifact refused as implausible is one the in-memory path refuses too, unless that
\* path overwrote the geography of the row at fault.
THEOREM RefusedUnlessBackfilledHolds == StreamSpec => []RefusedUnlessBackfilled
BY StreamInvInit, StreamInvStep, RefusedRightly, PTL DEF StreamSpec

-------------------------------------------------------------------------------
(* The assembler *)

\* The shards of the months appended, and those of the first month.
Appended == {i \in Entries : MonthOf(i) <= done}
Earliest == {i \in Entries : \A j \in Entries : MonthOf(i) <= MonthOf(j)}

StoreRow == [key : WireMonths \X WireCells, draws : [DOMAIN Vars -> Entries]]
AssemblyTyped ==
    /\ \E n \in 0..MaxShards :
           /\ run \in [shards : [1..n -> [target : Targets, month : WireMonths]],
                       months : Nat, cells : Nat \ {0}, targets : {{}, Targets}]
           /\ shards \in [1..n -> Shard \cup {Unread}]
    /\ done \in Nat \cup {-1} /\ width \in Nat
    /\ store \in Seq(StoreRow)
    /\ state \in {"opening", "reading", "assembled", "refused"}

\* What is read belongs to the months appended or to the next one, whose shards have as
\* many draws each; the guard held of the first month, whose draws are the width.
ReadInv ==
    /\ \A i \in Entries : shards[i] # Unread => i \in Current \cup Appended
    /\ \A i \in Appended : shards[i] # Unread
    /\ \A i, j \in Current : shards[i] # Unread /\ shards[j] # Unread => shards[i].samples = shards[j].samples
    /\ \A i \in Earliest : shards[i] # Unread => WithinCapacity(shards[i].samples)
    /\ width > 0 => \E i \in Earliest : shards[i] # Unread /\ shards[i].samples = width
    /\ done = -1 <=> width = 0

\* The shards appended list each target once a month, and all have the same cells.
AppendedInv ==
    /\ \A i \in Appended : Len(shards[i].cells) = run.cells /\ IsInjective(shards[i].cells)
    /\ \A i, j \in Appended :
           /\ Range(shards[i].cells) = Range(shards[j].cells)
           /\ MonthOf(i) = MonthOf(j) => /\ shards[i].time = shards[j].time
                                         /\ TargetOf(i) = TargetOf(j) => i = j

\* A row of the store has its draws of every target from a shard that has its key.
RowOK(r, I) ==
    \A c \in DOMAIN Vars :
        r.draws[c] \in I /\ TargetOf(r.draws[c]) = Vars[c] /\ r.key \in Keys(shards, r.draws[c])
MonthsIn(I) == {MonthOf(i) : i \in I}
StoreInv ==
    /\ Len(store) = run.cells * Cardinality(MonthsIn(Appended))
    /\ \A k \in DOMAIN store : RowOK(store[k], Appended)
    /\ \A i \in Appended : Range(shards[i].cells) = {store[k].key[2] : k \in DOMAIN store}
    /\ (\A i \in Appended : shards[i].time = MonthOf(i))
           => \A k, l \in DOMAIN store : k < l => Before(store[k].key, store[l].key)

AssembledInv ==
    state = "assembled" => Pending = {} /\ width > 0 /\ Len(store) = run.months * run.cells

AssemblyInv == AssemblyTyped /\ ReadInv /\ AppendedInv /\ StoreInv /\ AssembledInv

\* The types, as the proofs use them.
LEMMA RunTyped ==
  ASSUME AssemblyTyped
  PROVE  /\ Entries \subseteq Nat /\ IsFiniteSet(Entries) /\ 0 \notin Entries
         /\ \A i \in Entries : /\ TargetOf(i) \in Targets /\ MonthOf(i) \in WireMonths /\ MonthOf(i) \in Nat
                               /\ shards[i] \in Shard \cup {Unread}
         /\ shards = [i \in Entries |-> shards[i]]
         /\ run.cells \in Nat /\ run.cells # 0 /\ run.months \in Nat /\ run.targets \in {{}, Targets}
         /\ done \in Int /\ -1 <= done /\ width \in Nat
<1>1. PICK n \in 0..MaxShards :
           /\ run \in [shards : [1..n -> [target : Targets, month : WireMonths]],
                       months : Nat, cells : Nat \ {0}, targets : {{}, Targets}]
           /\ shards \in [1..n -> Shard \cup {Unread}]
  BY DEF AssemblyTyped
<1>2. Entries = 1..n /\ n \in Nat
  BY <1>1, AssemblyAssumption DEF Entries
<1>3. IsFiniteSet(Entries)
  BY <1>2, FS_Interval
<1>4. \A i \in Entries : /\ TargetOf(i) \in Targets /\ MonthOf(i) \in WireMonths /\ MonthOf(i) \in Nat
                         /\ shards[i] \in Shard \cup {Unread}
  BY <1>1, <1>2, AssemblyAssumption DEF TargetOf, MonthOf
<1>5. /\ run.cells \in Nat /\ run.cells # 0 /\ run.months \in Nat /\ run.targets \in {{}, Targets}
      /\ shards = [i \in Entries |-> shards[i]]
  BY <1>1, <1>2
<1> QED BY <1>2, <1>3, <1>4, <1>5 DEF AssemblyTyped

LEMMA ShardTyped ==
  ASSUME NEW s \in Shard
  PROVE  /\ s # Unread /\ s.time \in WireMonths /\ s.time \in Nat /\ s.samples \in Nat /\ s.samples # 0
         /\ Len(s.cells) \in Nat /\ s.cells \in [1..Len(s.cells) -> WireCells]
         /\ Range(s.cells) \subseteq WireCells /\ WireCells \subseteq Nat
<1>1. s.time \in WireMonths /\ s.samples \in SampleCounts
  BY DEF Shard
<1>2. s.samples # 0 /\ s.samples \in Nat /\ s.time \in Nat /\ WireCells \subseteq Nat
  BY <1>1, AssemblyAssumption
<1>3. PICK m \in 0..Cardinality(WireCells) : s.cells \in [1..m -> WireCells]
  BY DEF Shard, BoundedSeq, SeqOf
<1>4. m \in Nat
  BY AssemblyAssumption, FS_CardinalityType
<1>5. s.cells \in Seq(WireCells)
  BY <1>3, <1>4, SeqDef
<1>6. Len(s.cells) \in Nat /\ s.cells \in [1..Len(s.cells) -> WireCells]
  BY <1>5, LenProperties
<1> QED BY <1>1, <1>2, <1>6 DEF Unread, Range

\* As many cells as it has rows.
LEMMA CellsCounted ==
  ASSUME NEW s \in Shard, IsInjective(s.cells)
  PROVE  IsFiniteSet(Range(s.cells)) /\ Cardinality(Range(s.cells)) = Len(s.cells)
<1> DEFINE n == Len(s.cells)
<1>1. n \in Nat /\ s.cells \in [1..n -> WireCells]
  BY ShardTyped
<1>2. s.cells \in Bijection(1..n, Range(s.cells))
  <2>1. \A a, b \in 1..n : s.cells[a] = s.cells[b] => a = b
    BY <1>1 DEF IsInjective
  <2>2. s.cells \in [1..n -> Range(s.cells)] /\ \A t \in Range(s.cells) : \E k \in 1..n : s.cells[k] = t
    BY <1>1 DEF Range
  <2> QED BY <2>1, <2>2, Fun_IsBij
<1>3. IsFiniteSet(1..n) /\ Cardinality(1..n) = n
  BY <1>1, FS_Interval
<1> QED BY <1>2, <1>3, FS_Bijection, Fun_ExistsBij

\* The columns are the targets of I, each once.
LEMMA ColumnsAre ==
  ASSUME AssemblyTyped, NEW I, I \subseteq Entries
  PROVE  /\ \E n \in Nat : /\ Columns(I) \in [1..n -> Targets] /\ Len(Columns(I)) = n
                           /\ \A k, l \in 1..n : Columns(I)[k] = Columns(I)[l] => k = l
         /\ Range(Columns(I)) = {TargetOf(i) : i \in I}
<1> DEFINE first == {i \in I : \A j \in I : TargetOf(j) = TargetOf(i) => i <= j}
           n == Cardinality(first)
           a == Ascending(first)
<1>1. /\ Entries \subseteq Nat /\ IsFiniteSet(Entries) /\ \A i \in Entries : TargetOf(i) \in Targets
  BY RunTyped
<1>2. IsFiniteSet(first) /\ first \subseteq I /\ \A i \in first : i \in Nat
  <2>1. first \in SUBSET Entries
    OBVIOUS
  <2> HIDE DEF first
  <2> QED BY <1>1, <2>1, FS_Subset DEF first
<1>3. Columns(I) = [k \in 1..n |-> TargetOf(a[k])]
  BY DEF Columns
<1> HIDE DEF a
<1>4. /\ n \in Nat /\ a \in [1..n -> first]
      /\ \A i \in first : \E k \in 1..n : a[k] = i
      /\ \A k, l \in 1..n : k < l => a[k] # a[l]
  <2> HIDE DEF first
  <2> QED BY <1>2, NumbersInOrder DEF a
<1>5. \A i, j \in first : TargetOf(i) = TargetOf(j) => i = j
  BY <1>1
<1>6. ASSUME NEW i \in I PROVE \E f \in first : TargetOf(f) = TargetOf(i)
  <2> DEFINE same == {j \in I : TargetOf(j) = TargetOf(i)}
  <2>1. same \subseteq Nat /\ i \in same
    BY <1>1
  <2>2. PICK m \in same : \A j \in same : m <= j
    <3> HIDE DEF same
    <3> QED BY <2>1, LeastIn
  <2> QED BY <2>2
<1> HIDE DEF first
<1>7. Columns(I) \in [1..n -> Targets]
  <2>1. \A k \in 1..n : a[k] \in Entries
    BY <1>2, <1>4
  <2>2. \A k \in 1..n : TargetOf(a[k]) \in Targets
    BY <1>1, <2>1
  <2> QED BY <1>3, <2>2
<1>8. ASSUME NEW k \in 1..n, NEW l \in 1..n, Columns(I)[k] = Columns(I)[l] PROVE k = l
  <2>1. a[k] = a[l]
    BY <1>3, <1>4, <1>5, <1>8
  <2> QED BY <1>4, <2>1
<1>9. Range(Columns(I)) = {TargetOf(i) : i \in I}
  <2>1. Range(Columns(I)) = {TargetOf(a[k]) : k \in 1..n}
    BY <1>3 DEF Range
  <2>2. \A k \in 1..n : a[k] \in I
    BY <1>2, <1>4
  <2>3. ASSUME NEW i \in I PROVE \E k \in 1..n : TargetOf(a[k]) = TargetOf(i)
    BY <1>4, <1>6
  <2> QED BY <2>1, <2>2, <2>3
<1>10. Len(Columns(I)) = n
  BY <1>3, <1>4
<1> QED BY <1>4, <1>7, <1>8, <1>9, <1>10

\* The months and cells of shards that are read.
LEMMA GridOf ==
  ASSUME AssemblyTyped, NEW I, I \subseteq Entries, \A i \in I : shards[i] # Unread
  PROVE  /\ \A i \in I : shards[i] \in Shard
         /\ TimesOf(I) \subseteq WireMonths /\ CellsOf(I) \subseteq WireCells
         /\ \A i \in I : /\ Range(shards[i].cells) \subseteq CellsOf(I)
                         /\ Range(shards[i].cells) # {} => shards[i].time \in TimesOf(I)
         /\ \A t \in TimesOf(I) : \E i \in I : t = shards[i].time
         /\ \A c \in CellsOf(I) : \E i \in I : c \in Range(shards[i].cells)
         /\ IsFiniteSet(TimesOf(I)) /\ IsFiniteSet(CellsOf(I))
         /\ TimesOf(I) \X CellsOf(I) \subseteq Nat \X Nat /\ IsFiniteSet(TimesOf(I) \X CellsOf(I))
         /\ Cardinality(TimesOf(I) \X CellsOf(I)) = Cardinality(TimesOf(I)) * Cardinality(CellsOf(I))
<1>1. \A i \in I : shards[i] \in Shard
  BY RunTyped
<1>2. \A i \in I : shards[i].time \in WireMonths /\ Range(shards[i].cells) \subseteq WireCells
  BY <1>1, ShardTyped
<1>3. \A r : r \in Rows(I) <=> \E i \in I : \E c \in Range(shards[i].cells) : r = <<shards[i].time, c>>
  BY DEF Rows, Keys
<1>4. \A t \in TimesOf(I) : \E i \in I : t = shards[i].time
  BY <1>3 DEF TimesOf
<1>5. \A c \in CellsOf(I) : \E i \in I : c \in Range(shards[i].cells)
  BY <1>3 DEF CellsOf
<1>6. ASSUME NEW i \in I, NEW c \in Range(shards[i].cells)
      PROVE  c \in CellsOf(I) /\ shards[i].time \in TimesOf(I)
  <2>1. <<shards[i].time, c>> \in Rows(I)
    BY <1>3
  <2> QED BY <2>1 DEF CellsOf, TimesOf
<1>7. TimesOf(I) \in SUBSET WireMonths /\ CellsOf(I) \in SUBSET WireCells
  BY <1>2, <1>4, <1>5
<1>8. IsFiniteSet(TimesOf(I)) /\ IsFiniteSet(CellsOf(I))
  BY <1>7, AssemblyAssumption, FS_Subset
<1>9. /\ IsFiniteSet(TimesOf(I) \X CellsOf(I))
      /\ Cardinality(TimesOf(I) \X CellsOf(I)) = Cardinality(TimesOf(I)) * Cardinality(CellsOf(I))
  BY <1>8, FS_Product
<1>10. TimesOf(I) \X CellsOf(I) \subseteq Nat \X Nat
  <2>1. WireMonths \subseteq Nat /\ WireCells \subseteq Nat
    BY AssemblyAssumption
  <2> QED BY <1>7, <2>1
<1> QED BY <1>1, <1>4, <1>5, <1>6, <1>7, <1>8, <1>9, <1>10

LEMMA FactorOne == ASSUME NEW a \in Nat, NEW b \in Nat, NEW n \in Nat, n # 0, a # 0, n <= b, a * b = n
                   PROVE  a = 1 /\ b = n
<1>1. CASE a > 1
  <2>1. a * b >= 2 * b
    BY <1>1
  <2> QED BY <2>1
<1> QED BY <1>1

\* The shards of a month that fills a grid of run.cells rows: one month, the same cells in
\* each, and no target twice.
LEMMA OneMonthIs ==
  ASSUME AssemblyTyped, NEW I, I \subseteq Entries, I # {}, \A i \in I : shards[i] # Unread,
         LoopAccepts(shards, I), Cardinality(TimesOf(I) \X CellsOf(I)) = run.cells
  PROVE  /\ \E t \in WireMonths : TimesOf(I) = {t} /\ \A i \in I : shards[i].time = t
         /\ CellsOf(I) # {}
         /\ \A i \in I : /\ Range(shards[i].cells) = CellsOf(I)
                         /\ Len(shards[i].cells) = run.cells /\ IsInjective(shards[i].cells)
         /\ \A i, j \in I : TargetOf(i) = TargetOf(j) => i = j
<1> DEFINE T == TimesOf(I)
           C == CellsOf(I)
<1>1. /\ T \subseteq WireMonths /\ IsFiniteSet(T) /\ IsFiniteSet(C)
      /\ Cardinality(T) * Cardinality(C) = run.cells
      /\ \A i \in I : shards[i] \in Shard /\ Range(shards[i].cells) \subseteq C
      /\ \A i \in I : Range(shards[i].cells) # {} => shards[i].time \in T
  BY GridOf
<1>2. \A i \in I : Len(shards[i].cells) = run.cells /\ IsInjective(shards[i].cells)
  BY DEF LoopAccepts
<1>3. run.cells \in Nat /\ run.cells # 0
  BY RunTyped
<1>4. ASSUME NEW i \in I
      PROVE  /\ IsFiniteSet(Range(shards[i].cells)) /\ Cardinality(Range(shards[i].cells)) = run.cells
             /\ Range(shards[i].cells) # {}
  <2>1. IsFiniteSet(Range(shards[i].cells)) /\ Cardinality(Range(shards[i].cells)) = run.cells
    BY <1>1, <1>2, CellsCounted
  <2> QED BY <1>3, <2>1, FS_EmptySet
<1> HIDE DEF T, C
<1>5. PICK i0 \in I : TRUE
  OBVIOUS
<1>6. run.cells <= Cardinality(C) /\ T # {}
  <2>1. Range(shards[i0].cells) \in SUBSET C
    BY <1>1
  <2> QED BY <1>1, <1>4, <2>1, FS_Subset
<1>7. Cardinality(T) \in Nat /\ Cardinality(C) \in Nat /\ Cardinality(T) # 0
  BY <1>1, <1>6, FS_CardinalityType, FS_EmptySet
<1>8. Cardinality(T) = 1 /\ Cardinality(C) = run.cells
  BY <1>1, <1>3, <1>6, <1>7, FactorOne
<1>9. PICK t : T = {t}
  BY <1>1, <1>8, FS_Singleton
<1>10. t \in WireMonths /\ \A i \in I : shards[i].time = t
  BY <1>1, <1>4, <1>9
<1>11. ASSUME NEW i \in I PROVE Range(shards[i].cells) = C
  <2>1. Range(shards[i].cells) \in SUBSET C
    BY <1>1
  <2> QED BY <1>1, <1>4, <1>8, <2>1, FS_Subset
<1>12. ASSUME NEW i \in I, NEW j \in I, TargetOf(i) = TargetOf(j), i # j PROVE FALSE
  <2>1. Keys(shards, i) = Keys(shards, j)
    BY <1>10, <1>11 DEF Keys
  <2>2. Keys(shards, i) \cap Keys(shards, j) = {}
    BY <1>12 DEF LoopAccepts
  <2>3. PICK c : c \in Range(shards[i].cells)
    BY <1>4
  <2>4. <<shards[i].time, c>> \in Keys(shards, i)
    BY <2>3 DEF Keys
  <2> QED BY <2>1, <2>2, <2>4
<1>13. C # {}
  BY <1>4, <1>5, <1>11
<1> QED BY <1>2, <1>9, <1>10, <1>11, <1>12, <1>13 DEF T, C

\* A shard of I there is to take a row from is one of I, with that target and that row.
LEMMA SourceIs ==
  ASSUME NEW I, NEW t, NEW r, NEW j \in I, TargetOf(j) = t, r \in Keys(shards, j), 0 \notin I
  PROVE  LET s == Source(I, t, r) IN s \in I /\ TargetOf(s) = t /\ r \in Keys(shards, s)
<1> DEFINE from == {i \in I : TargetOf(i) = t /\ r \in Keys(shards, i)}
<1>1. j \in from
  OBVIOUS
<1>2. Source(I, t, r) = CHOOSE i \in from : TRUE
  BY <1>1 DEF Source
<1>3. Source(I, t, r) \in from
  <2> HIDE DEF from
  <2> QED BY <1>1, <1>2
<1> QED BY <1>3

\* The block of the month I: a row of every cell, in order, with draws of every target.
LEMMA BlockIs ==
  ASSUME AssemblyTyped, NEW I, I \subseteq Entries, I # {}, \A i \in I : shards[i] # Unread,
         LoopAccepts(shards, I), Cardinality(TimesOf(I) \X CellsOf(I)) = run.cells,
         Range(Columns(I)) = Range(Vars)
  PROVE  LET block == Built(I, Vars)
         IN  /\ block \in Seq(StoreRow) /\ Len(block) = run.cells /\ DOMAIN block = 1..run.cells
             /\ \A k \in 1..run.cells : /\ RowOK(block[k], I)
                                        /\ \A i \in I : block[k].key[1] = shards[i].time
             /\ {block[k].key[2] : k \in 1..run.cells} = CellsOf(I)
             /\ \A k, l \in 1..run.cells : k < l => Before(block[k].key, block[l].key)
<1> DEFINE G == TimesOf(I) \X CellsOf(I)
           g == SortedIndex(G)
           n == run.cells
           block == Built(I, Vars)
<1>1. n \in Nat /\ n # 0 /\ 0 \notin I /\ \A i \in I : MonthOf(i) \in WireMonths
  BY RunTyped
<1>2. G \subseteq Nat \X Nat /\ IsFiniteSet(G) /\ Cardinality(G) = n
      /\ TimesOf(I) \subseteq WireMonths /\ CellsOf(I) \subseteq WireCells
  BY GridOf
<1>3. PICK t \in WireMonths : TimesOf(I) = {t} /\ \A i \in I : shards[i].time = t
  BY OneMonthIs
<1>4. /\ \A i \in I : Range(shards[i].cells) = CellsOf(I)
      /\ \A i, j \in I : TargetOf(i) = TargetOf(j) => i = j
  BY OneMonthIs
<1>5. /\ g \in [1..n -> G]
      /\ \A k, l \in 1..n : k < l => Before(g[k], g[l])
  <2> HIDE DEF G
  <2> QED BY <1>2, GridInOrder
<1>6. \A c \in CellsOf(I) : \E k \in 1..n : g[k] = <<t, c>>
  <2>1. \A i, j \in 1..n : g[i] = g[j] => i = j
    <3>1. \A i, j \in 1..n : i # j => i < j \/ j < i
      BY <1>1
    <3>2. \A x \in G : x \in Nat \X Nat
      BY <1>2
    <3>3. \A x \in Nat \X Nat : ~Before(x, x)
      BY DEF Before
    <3> HIDE DEF G, g
    <3> QED BY <1>5, <3>1, <3>2, <3>3
  <2>2. g \in Surjection(1..n, G)
    <3>1. IsFiniteSet(1..n) /\ Cardinality(1..n) = n
      BY <1>1, FS_Interval
    <3> HIDE DEF G, g
    <3>2. g \in Injection(1..n, G)
      BY <1>5, <2>1, Fun_IsInj
    <3> QED BY <1>2, <3>1, <3>2, FS_Injection
  <2>3. \A x \in G : \E k \in 1..n : g[k] = x
    BY <2>2 DEF Surjection
  <2> QED BY <1>3, <2>3
<1> HIDE DEF g
<1>7. block = [k \in 1..n |-> [key |-> g[k], draws |-> [c \in DOMAIN Vars |-> Source(I, Vars[c], g[k])]]]
  BY <1>5 DEF Built, g
<1>8. ASSUME NEW k \in 1..n, NEW c \in DOMAIN Vars
      PROVE  LET s == Source(I, Vars[c], g[k])
             IN  s \in I /\ TargetOf(s) = Vars[c] /\ g[k] \in Keys(shards, s)
  <2>1. Vars[c] \in Range(Columns(I))
    BY DEF Range
  <2>2. PICK j \in I : TargetOf(j) = Vars[c]
    BY <2>1, ColumnsAre
  <2>3. g[k] \in G
    BY <1>5
  <2>4. g[k] \in Keys(shards, j)
    BY <1>3, <1>4, <2>3 DEF Keys
  <2> QED BY <1>1, <2>2, <2>4, SourceIs
<1> HIDE DEF G
<1>9. ASSUME NEW k \in 1..n
      PROVE  block[k] \in StoreRow /\ block[k].key = g[k] /\ RowOK(block[k], I)
  <2>1. /\ block[k] = [key |-> g[k], draws |-> [c \in DOMAIN Vars |-> Source(I, Vars[c], g[k])]]
    BY <1>7
  <2>2. g[k] \in WireMonths \X WireCells
    BY <1>2, <1>5 DEF G
  <2>3. \A c \in DOMAIN Vars : Source(I, Vars[c], g[k]) \in Entries
    BY <1>8
  <2>4. block[k] \in StoreRow
    BY <2>1, <2>2, <2>3 DEF StoreRow
  <2> QED BY <1>8, <2>1, <2>4 DEF RowOK
<1> HIDE DEF block
<1>10. block \in Seq(StoreRow) /\ Len(block) = n /\ DOMAIN block = 1..n
  <2>1. block \in [1..n -> StoreRow]
    BY <1>7, <1>9
  <2> QED BY <1>1, <2>1
<1>11. \A k \in 1..n : \A i \in I : block[k].key[1] = shards[i].time
  BY <1>3, <1>5, <1>9 DEF G
<1>12. {block[k].key[2] : k \in 1..n} = CellsOf(I)
  <2>1. \A k \in 1..n : block[k].key[2] \in CellsOf(I)
    BY <1>5, <1>9 DEF G
  <2>2. \A c \in CellsOf(I) : \E k \in 1..n : block[k].key[2] = c
    BY <1>6, <1>9
  <2> QED BY <2>1, <2>2
<1>13. \A k, l \in 1..n : k < l => Before(block[k].key, block[l].key)
  BY <1>5, <1>9
<1> QED BY <1>9, <1>10, <1>11, <1>12, <1>13 DEF block

\* Months are appended in ascending order.
LEMMA MonthsInTurn ==
  ASSUME AssemblyTyped
  PROVE  /\ Current \subseteq Pending /\ Pending \subseteq Entries /\ Appended \subseteq Entries
         /\ Earliest \subseteq Entries
         /\ \A i \in Pending : i \notin Appended
         /\ \A i \in Entries : i \in Pending \/ i \in Appended
         /\ \A i, j \in Current : MonthOf(i) = MonthOf(j)
         /\ \A i \in Current, j \in Appended : MonthOf(j) < MonthOf(i)
         /\ (\E i \in Current : i \in Earliest) => Appended = {} /\ Current \subseteq Earliest
         /\ done = -1 => Appended = {} /\ Current = Earliest
<1>1. /\ \A i \in Entries : MonthOf(i) \in Nat
      /\ done \in Int /\ -1 <= done
  BY RunTyped
<1>2. \A i \in Entries : i \in Pending <=> MonthOf(i) > done
  BY DEF Pending
<1>3. \A i \in Entries : i \in Appended <=> MonthOf(i) <= done
  BY DEF Appended
<1>4. Current \subseteq Pending /\ Pending \subseteq Entries /\ Appended \subseteq Entries /\ Earliest \subseteq Entries
  BY DEF Current, Pending, Appended, Earliest
<1>5. \A i \in Current : \A j \in Pending : MonthOf(i) <= MonthOf(j)
  BY DEF Current
<1>6. \A i, j \in Current : MonthOf(i) = MonthOf(j)
  BY <1>1, <1>4, <1>5
<1>7. \A i \in Current, j \in Appended : MonthOf(j) < MonthOf(i)
  BY <1>1, <1>2, <1>3, <1>4
<1>8. ASSUME NEW i \in Current, i \in Earliest PROVE Appended = {} /\ Current \subseteq Earliest
  <2>1. \A j \in Entries : MonthOf(i) <= MonthOf(j)
    BY <1>8 DEF Earliest
  <2>2. Appended = {}
    BY <1>1, <1>4, <1>7, <2>1
  <2>3. \A j \in Current : \A k \in Entries : MonthOf(j) <= MonthOf(k)
    BY <1>6, <2>1
  <2> QED BY <1>4, <2>2, <2>3 DEF Earliest
<1>9. ASSUME done = -1 PROVE Appended = {} /\ Current = Earliest
  <2>1. Appended = {} /\ Pending = Entries
    BY <1>1, <1>2, <1>3, <1>4, <1>9
  <2> QED BY <2>1 DEF Current, Earliest
<1> QED BY <1>1, <1>2, <1>3, <1>4, <1>6, <1>7, <1>8, <1>9

LEMMA MinIn == ASSUME NEW S, S \subseteq Nat, S # {} PROVE Min(S) \in S /\ \A x \in S : Min(S) <= x
<1>1. \E x \in S : \A y \in S : x <= y
  BY LeastIn
<1> QED BY <1>1 DEF Min

LEMMA AssemblyInvInit == AssemblyInit => AssemblyInv
<1> SUFFICES ASSUME AssemblyInit PROVE AssemblyInv
  OBVIOUS
<1>1. PICK n \in 0..MaxShards :
        /\ run \in [shards : Listings(n), months : 0..Cardinality(WireMonths),
                    cells : 1..Cardinality(WireCells), targets : {{}, Targets}]
        /\ shards = [i \in 1..n |-> Unread]
  BY DEF AssemblyInit
<1>2. done = -1 /\ store = <<>> /\ width = 0 /\ state = "opening"
  BY DEF AssemblyInit
<1>3. Cardinality(WireMonths) \in Nat /\ Cardinality(WireCells) \in Nat
  BY AssemblyAssumption, FS_CardinalityType
<1>4. Listings(n) \subseteq [1..n -> [target : Targets, month : WireMonths]]
  BY DEF Listings
<1>5. AssemblyTyped
  <2>1. run \in [shards : [1..n -> [target : Targets, month : WireMonths]],
                 months : Nat, cells : Nat \ {0}, targets : {{}, Targets}]
    BY <1>1, <1>3, <1>4
  <2>2. shards \in [1..n -> Shard \cup {Unread}]
    BY <1>1
  <2>3. store \in Seq(StoreRow)
    BY <1>2
  <2> QED BY <1>2, <2>1, <2>2, <2>3 DEF AssemblyTyped
<1>6. \A i \in Entries : shards[i] = Unread
  BY <1>1, <1>4 DEF Entries
<1>7. Appended = {}
  BY <1>2, <1>5, MonthsInTurn
<1>8. ReadInv
  <2>1. Current \subseteq Entries /\ Earliest \subseteq Entries
    BY <1>5, MonthsInTurn
  <2> QED BY <1>2, <1>6, <1>7, <2>1 DEF ReadInv
<1>9. Len(store) = run.cells * Cardinality(MonthsIn(Appended))
  <2>1. MonthsIn(Appended) = {}
    BY <1>7 DEF MonthsIn
  <2>2. run.cells \in Nat
    BY <1>5, RunTyped
  <2> QED BY <1>2, <2>1, <2>2, FS_EmptySet
<1>10. DOMAIN store = {}
  BY <1>2
<1> QED BY <1>2, <1>5, <1>7, <1>8, <1>9, <1>10 DEF AssemblyInv, AppendedInv, StoreInv, AssembledInv

\* The manifest stays.
LEMMA RunStays ==
  ASSUME run' = run
  PROVE  /\ Entries' = Entries /\ Vars' = Vars /\ StoreRow' = StoreRow /\ Earliest' = Earliest
         /\ \A i : TargetOf(i)' = TargetOf(i) /\ MonthOf(i)' = MonthOf(i)
         /\ \A s : WithinCapacity(s)' = WithinCapacity(s)
<1>1. Entries' = Entries /\ \A i : TargetOf(i)' = TargetOf(i) /\ MonthOf(i)' = MonthOf(i)
  BY DEF Entries, TargetOf, MonthOf
<1>2. Vars' = Vars
  BY <1>1 DEF Vars, Columns
<1>3. StoreRow' = StoreRow
  BY <1>1, <1>2 DEF StoreRow
<1>4. Earliest' = Earliest
  BY <1>1 DEF Earliest
<1>5. \A s : WithinCapacity(s)' = WithinCapacity(s)
  BY DEF WithinCapacity
<1> QED BY <1>1, <1>2, <1>3, <1>4, <1>5

LEMMA OnlyStateChanges ==
  ASSUME AssemblyInv, UNCHANGED <<run, shards, done, store, width>>,
         state' \in {"opening", "reading", "assembled", "refused"},
         state' = "assembled" => Pending = {} /\ width > 0 /\ Len(store) = run.months * run.cells
  PROVE  AssemblyInv'
<1>1. /\ Entries' = Entries /\ Vars' = Vars /\ StoreRow' = StoreRow /\ Earliest' = Earliest
      /\ \A i : TargetOf(i)' = TargetOf(i) /\ MonthOf(i)' = MonthOf(i)
      /\ \A s : WithinCapacity(s)' = WithinCapacity(s)
  BY RunStays
<1>2. Pending' = Pending /\ Appended' = Appended
  BY <1>1 DEF Pending, Appended
<1>3. Current' = Current
  BY <1>1, <1>2 DEF Current
<1>4. AssemblyTyped'
  BY <1>1 DEF AssemblyInv, AssemblyTyped
<1>5. ReadInv'
  BY <1>1, <1>2, <1>3 DEF AssemblyInv, ReadInv
<1>6. AppendedInv'
  BY <1>1, <1>2 DEF AssemblyInv, AppendedInv
<1>7. StoreInv'
  <2>1. MonthsIn(Appended)' = MonthsIn(Appended)
    BY <1>1, <1>2 DEF MonthsIn
  <2>2. \A k \in DOMAIN store : RowOK(store[k], Appended)'
    BY <1>1, <1>2 DEF AssemblyInv, StoreInv, RowOK, Keys
  <2> QED BY <1>1, <1>2, <2>1, <2>2 DEF AssemblyInv, StoreInv
<1>8. AssembledInv'
  BY <1>2 DEF AssembledInv
<1> QED BY <1>4, <1>5, <1>6, <1>7, <1>8 DEF AssemblyInv

LEMMA ReadShardKeeps == AssemblyInv /\ ReadShard => AssemblyInv'
<1> SUFFICES ASSUME AssemblyInv, ReadShard PROVE AssemblyInv'
  OBVIOUS
<1> DEFINE i0 == NextShard
<1>0. AssemblyTyped /\ ReadInv /\ AppendedInv /\ StoreInv
  BY DEF AssemblyInv
<1>1. i0 \in Current /\ shards[i0] = Unread /\ i0 \in Entries /\ i0 \notin Appended
  <2> DEFINE S == {i \in Current : shards[i] = Unread}
  <2>1. S \subseteq Nat /\ S # {}
    BY <1>0, RunTyped, MonthsInTurn DEF ReadShard
  <2>2. i0 \in S
    <3> HIDE DEF S
    <3> QED BY <2>1, MinIn DEF NextShard, S
  <2> QED BY <1>0, <2>2, MonthsInTurn
<1> HIDE DEF i0
<1>2. PICK shard \in Shard :
        LET read == [shards EXCEPT ![i0] = shard]
            month == {i \in Current : read[i] # Unread}
        IN  IF /\ LoopAccepts(read, month)
               /\ (\A i \in Entries : shards[i] = Unread) => WithinCapacity(shard.samples)
            THEN shards' = read /\ UNCHANGED <<run, done, store, width, state>>
            ELSE Refuse
  BY DEF ReadShard, i0
<1>3. CASE Refuse
  BY <1>3, OnlyStateChanges DEF Refuse
<1>4. CASE ~Refuse
  <2> DEFINE month == {i \in Current : shards'[i] # Unread}
  <2>1. /\ shards' = [shards EXCEPT ![i0] = shard] /\ UNCHANGED <<run, done, store, width, state>>
        /\ LoopAccepts(shards', month)
        /\ (\A i \in Entries : shards[i] = Unread) => WithinCapacity(shard.samples)
    BY <1>2, <1>4
  <2>2. /\ Entries' = Entries /\ Vars' = Vars /\ StoreRow' = StoreRow /\ Earliest' = Earliest
        /\ \A i : TargetOf(i)' = TargetOf(i) /\ MonthOf(i)' = MonthOf(i)
        /\ \A s : WithinCapacity(s)' = WithinCapacity(s)
    BY <2>1, RunStays
  <2>3. Pending' = Pending /\ Appended' = Appended
    BY <2>1, <2>2 DEF Pending, Appended
  <2>4. Current' = Current
    BY <2>2, <2>3 DEF Current
  <2>5. /\ shards'[i0] = shard /\ shard # Unread
        /\ \A i \in Entries : i # i0 => shards'[i] = shards[i]
        /\ \A i \in Appended : shards'[i] = shards[i]
    <3>1. DOMAIN shards = Entries /\ Appended \subseteq Entries
      BY <1>0, RunTyped, MonthsInTurn
    <3> QED BY <1>1, <2>1, <3>1, ShardTyped
  <2>6. AssemblyTyped'
    <3>1. PICK n \in 0..MaxShards :
            /\ run \in [shards : [1..n -> [target : Targets, month : WireMonths]],
                        months : Nat, cells : Nat \ {0}, targets : {{}, Targets}]
            /\ shards \in [1..n -> Shard \cup {Unread}]
      BY <1>0 DEF AssemblyTyped
    <3>2. shards' \in [1..n -> Shard \cup {Unread}]
      BY <2>1, <3>1
    <3> QED BY <1>0, <2>1, <2>2, <3>1, <3>2 DEF AssemblyTyped
  <2>7. ReadInv'
    <3>1. \A i \in Entries : shards'[i] # Unread => i \in Current \cup Appended
      BY <1>0, <1>1, <2>5 DEF ReadInv
    <3>2. \A i \in Appended : shards'[i] # Unread
      BY <1>0, <2>5 DEF ReadInv
    <3>3. \A i, j \in Current : shards'[i] # Unread /\ shards'[j] # Unread => shards'[i].samples = shards'[j].samples
      BY <2>1 DEF LoopAccepts
    <3>4. ASSUME NEW i \in Earliest, shards'[i] # Unread PROVE WithinCapacity(shards'[i].samples)
      <4>1. CASE i # i0
        BY <1>0, <2>5, <3>4, <4>1, MonthsInTurn DEF ReadInv
      <4>2. CASE i = i0 /\ \A j \in Entries : shards[j] = Unread
        BY <2>1, <2>5, <4>2
      <4>3. CASE i = i0 /\ \E j \in Entries : shards[j] # Unread
        <5>1. PICK j \in Entries : shards[j] # Unread
          BY <4>3
        <5>2. Appended = {} /\ Current \subseteq Earliest
          BY <1>0, <1>1, <4>3, MonthsInTurn
        <5>3. j \in Current /\ WithinCapacity(shards[j].samples) /\ shards'[j] = shards[j]
          BY <1>0, <1>1, <2>5, <5>1, <5>2 DEF ReadInv
        <5>4. shards'[i0].samples = shards[j].samples
          BY <1>1, <2>5, <3>3, <5>1, <5>3
        <5> QED BY <4>3, <5>3, <5>4
      <4> QED BY <4>1, <4>2, <4>3
    <3>5. width > 0 => \E i \in Earliest : shards'[i] # Unread /\ shards'[i].samples = width
      <4>1. \A i \in Earliest : shards[i] # Unread => shards'[i] = shards[i]
        BY <1>0, <1>1, <2>5, MonthsInTurn
      <4> QED BY <1>0, <4>1 DEF ReadInv
    <3> QED BY <1>0, <2>1, <2>2, <2>3, <2>4, <3>1, <3>2, <3>3, <3>4, <3>5 DEF ReadInv
  <2>8. AppendedInv'
    BY <1>0, <2>1, <2>2, <2>3, <2>5 DEF AppendedInv
  <2>9. StoreInv'
    <3>1. MonthsIn(Appended)' = MonthsIn(Appended)
      BY <2>2, <2>3 DEF MonthsIn
    <3>2. ASSUME NEW k \in DOMAIN store PROVE RowOK(store[k], Appended)'
      <4>1. RowOK(store[k], Appended)
        BY <1>0 DEF StoreInv
      <4>2. \A i \in Appended : Keys(shards', i) = Keys(shards, i)
        BY <2>5 DEF Keys
      <4> QED BY <2>1, <2>2, <2>3, <4>1, <4>2 DEF RowOK
    <3>3. (\A i \in Appended : shards'[i].time = MonthOf(i)) => \A i \in Appended : shards[i].time = MonthOf(i)
      BY <2>5
    <3> QED BY <1>0, <2>1, <2>2, <2>3, <2>5, <3>1, <3>2, <3>3 DEF StoreInv
  <2>10. AssembledInv'
    BY <2>1 DEF ReadShard, AssembledInv
  <2> QED BY <2>6, <2>7, <2>8, <2>9, <2>10 DEF AssemblyInv
<1> QED BY <1>3, <1>4

LEMMA TimesNext == ASSUME NEW a \in Nat, NEW b \in Nat PROVE a * (b + 1) = a * b + a
OBVIOUS

LEMMA AppendMonthKeeps == AssemblyInv /\ AppendMonth => AssemblyInv'
<1> SUFFICES ASSUME AssemblyInv, AppendMonth PROVE AssemblyInv'
  OBVIOUS
<1>0. AssemblyTyped /\ ReadInv /\ AppendedInv /\ StoreInv
  BY DEF AssemblyInv
<1>1. CASE Refuse
  BY <1>1, OnlyStateChanges DEF Refuse
<1>2. CASE ~Refuse
  <2> DEFINE block == Built(Current, Vars)
             m == MonthOf(Min(Current))
             n == run.cells
  <2>1. /\ state = "reading" /\ Current # {} /\ \A i \in Current : shards[i] # Unread
        /\ BuildAccepts(Current) /\ Range(Columns(Current)) = Range(Vars)
        /\ SameCells /\ Len(block) = n
        /\ store' = store \o block /\ width' = IF width = 0 THEN Draws(Current) ELSE width
        /\ done' = m /\ UNCHANGED <<run, shards, state>>
    BY <1>2 DEF AppendMonth, OneMonth
  <2>2. /\ Current \subseteq Pending /\ Pending \subseteq Entries /\ Appended \subseteq Entries
        /\ \A i \in Pending : i \notin Appended
        /\ \A i \in Entries : i \in Pending \/ i \in Appended
        /\ \A i, j \in Current : MonthOf(i) = MonthOf(j)
        /\ \A i \in Current, j \in Appended : MonthOf(j) < MonthOf(i)
        /\ done = -1 => Appended = {} /\ Current = Earliest
    BY <1>0, MonthsInTurn
  <2>3. /\ Entries' = Entries /\ Vars' = Vars /\ StoreRow' = StoreRow /\ Earliest' = Earliest
        /\ \A i : TargetOf(i)' = TargetOf(i) /\ MonthOf(i)' = MonthOf(i)
        /\ \A s : WithinCapacity(s)' = WithinCapacity(s)
    BY <2>1, RunStays
  <2>4. /\ Entries \subseteq Nat /\ IsFiniteSet(Entries) /\ n \in Nat /\ n # 0
        /\ \A i \in Entries : MonthOf(i) \in Nat
        /\ \A i \in Entries : shards[i] \in Shard \cup {Unread}
    BY <1>0, RunTyped
  <2>5. Min(Current) \in Current /\ m \in Nat /\ \A i \in Current : MonthOf(i) = m
    <3>1. Current \subseteq Nat
      BY <2>2, <2>4
    <3>2. Min(Current) \in Current
      BY <2>1, <3>1, MinIn
    <3> QED BY <2>2, <2>4, <3>2
  <2> HIDE DEF m
  <2>6. Cardinality(TimesOf(Current) \X CellsOf(Current)) = n
    <3> DEFINE G == TimesOf(Current) \X CellsOf(Current)
    <3>1. Cardinality(G) \in Nat /\ SortedIndex(G) \in [1..Cardinality(G) -> G]
      <4>1. Current \subseteq Entries
        BY <2>2
      <4>2. G \subseteq Nat \X Nat /\ IsFiniteSet(G)
        BY <1>0, <2>1, <4>1, GridOf
      <4> HIDE DEF G
      <4> QED BY <4>2, GridInOrder
    <3> HIDE DEF G
    <3>2. Len(block) = Cardinality(G)
      BY <3>1 DEF Built, G
    <3> QED BY <2>1, <3>2 DEF G
  <2>7. LoopAccepts(shards, Current)
    BY <2>1 DEF BuildAccepts
  <2>8. /\ block \in Seq(StoreRow) /\ Len(block) = n /\ DOMAIN block = 1..n
        /\ \A k \in 1..n : /\ RowOK(block[k], Current)
                           /\ \A i \in Current : block[k].key[1] = shards[i].time
        /\ {block[k].key[2] : k \in 1..n} = CellsOf(Current)
        /\ \A k, l \in 1..n : k < l => Before(block[k].key, block[l].key)
    <3>1. Current \subseteq Entries
      BY <2>2
    <3> HIDE DEF block
    <3> QED BY <1>0, <2>1, <2>2, <2>6, <2>7, <3>1, BlockIs DEF block
  <2>9. /\ \E t \in WireMonths : TimesOf(Current) = {t} /\ \A i \in Current : shards[i].time = t
        /\ \A i \in Current : /\ Range(shards[i].cells) = CellsOf(Current)
                              /\ Len(shards[i].cells) = n /\ IsInjective(shards[i].cells)
        /\ \A i, j \in Current : TargetOf(i) = TargetOf(j) => i = j
    <3>1. Current \subseteq Entries
      BY <2>2
    <3> QED BY <1>0, <2>1, <2>6, <2>7, <3>1, OneMonthIs
  <2> HIDE DEF block, n
  <2>10. \A i \in Appended : MonthOf(i) < m
    BY <2>2, <2>5
  <2>11. Appended' = Appended \cup Current
    <3>1. \A i \in Entries : i \in Appended <=> MonthOf(i) <= done
      BY DEF Appended
    <3>2. Appended' = {i \in Entries : MonthOf(i) <= m}
      BY <2>1, <2>3 DEF Appended
    <3>3. ASSUME NEW i \in Entries, MonthOf(i) <= m PROVE i \in Appended \/ i \in Current
      <4>1. CASE i \in Pending
        <5>1. \A j \in Pending : MonthOf(i) <= MonthOf(j)
          <6>1. \A j \in Pending : m <= MonthOf(j)
            BY <2>5 DEF Current
          <6>2. MonthOf(i) = m
            BY <2>2, <2>4, <2>5, <3>3, <4>1, <6>1
          <6> QED BY <6>1, <6>2
        <5> QED BY <4>1, <5>1 DEF Current
      <4> QED BY <2>2, <4>1
    <3>4. \A i \in Appended : MonthOf(i) <= m
      BY <2>2, <2>4, <2>5, <2>10
    <3>5. \A i \in Current : i \in Entries /\ MonthOf(i) <= m
      BY <2>2, <2>4, <2>5
    <3> QED BY <2>2, <3>2, <3>3, <3>4, <3>5
  <2>12. store \in Seq(StoreRow) /\ Len(store) \in Nat /\ DOMAIN store = 1..Len(store)
    BY <1>0 DEF AssemblyTyped
  <2>13. /\ store' \in Seq(StoreRow) /\ Len(store') = Len(store) + n
         /\ \A k \in 1..Len(store) : store'[k] = store[k]
         /\ \A k \in 1..n : store'[Len(store) + k] = block[k]
         /\ DOMAIN store' = 1..(Len(store) + n)
    <3>1. store' \in Seq(StoreRow)
      BY <2>1, <2>8, <2>12
    <3>2. Len(store') = Len(store) + n /\ DOMAIN store' = 1..(Len(store) + n)
      BY <2>1, <2>8, <2>12, ConcatProperties, LenProperties
    <3>3. \A k \in 1..Len(store) : store'[k] = store[k]
      BY <2>1, <2>4, <2>8, <2>12, ConcatProperties DEF n
    <3>4. \A k \in 1..n : store'[Len(store) + k] = block[k]
      BY <2>1, <2>4, <2>8, <2>12, ConcatProperties DEF n
    <3> QED BY <3>1, <3>2, <3>3, <3>4
  <2>14. \A k \in DOMAIN store' : \/ k \in 1..Len(store) /\ store'[k] = store[k]
                                  \/ \E l \in 1..n : k = Len(store) + l /\ store'[k] = block[l]
    <3>1. ASSUME NEW k \in DOMAIN store', ~(k \in 1..Len(store)) PROVE k - Len(store) \in 1..n /\ k = Len(store) + (k - Len(store))
      BY <2>4, <2>12, <2>13, <3>1 DEF n
    <3> QED BY <2>13, <3>1
  <2>15. Draws(Current) \in Nat /\ Draws(Current) # 0 /\ Draws(Current) = shards[Min(Current)].samples
    <3>1. shards[Min(Current)] \in Shard
      BY <2>1, <2>2, <2>4, <2>5
    <3> QED BY <3>1, ShardTyped DEF Draws
  <2>16. AssemblyTyped'
    <3>1. PICK b \in 0..MaxShards :
            /\ run \in [shards : [1..b -> [target : Targets, month : WireMonths]],
                        months : Nat, cells : Nat \ {0}, targets : {{}, Targets}]
            /\ shards \in [1..b -> Shard \cup {Unread}]
      BY <1>0 DEF AssemblyTyped
    <3>2. done' \in Nat \cup {-1} /\ width' \in Nat
      BY <1>0, <2>1, <2>5, <2>15 DEF AssemblyTyped
    <3> QED BY <1>0, <2>1, <2>3, <2>13, <3>1, <3>2 DEF AssemblyTyped
  <2>17. ReadInv'
    <3>1. \A i \in Current' : i \in Entries /\ i \notin Appended'
      <4>1. \A i \in Current' : i \in Entries /\ MonthOf(i) > m
        BY <2>1, <2>3 DEF Current, Pending
      <4>2. \A i \in Appended' : MonthOf(i) <= m
        BY <2>1, <2>3 DEF Appended
      <4>3. ASSUME NEW i \in Current', i \in Appended' PROVE FALSE
        <5>1. MonthOf(i) > m /\ MonthOf(i) <= m /\ MonthOf(i) \in Nat /\ m \in Nat
          BY <2>4, <2>5, <4>1, <4>2, <4>3
        <5> QED BY <5>1
      <4> QED BY <4>1, <4>3
    <3>2. \A i \in Entries : shards[i] # Unread => i \in Appended'
      BY <1>0, <2>11 DEF ReadInv
    <3>3. \A i \in Appended' : shards[i] # Unread
      BY <1>0, <2>1, <2>11 DEF ReadInv
    <3>4. width' > 0 => \E i \in Earliest : shards[i] # Unread /\ shards[i].samples = width'
      <4>1. CASE width = 0
        <5>1. Min(Current) \in Earliest
          BY <1>0, <2>2, <2>5, <4>1 DEF ReadInv
        <5> QED BY <2>1, <2>5, <2>15, <4>1, <5>1
      <4>2. CASE width # 0
        BY <1>0, <2>1, <4>2 DEF ReadInv
      <4> QED BY <4>1, <4>2
    <3>5. width' # 0 /\ done' # -1
      BY <2>1, <2>5, <2>15
    <3> QED BY <1>0, <2>1, <2>3, <3>1, <3>2, <3>3, <3>4, <3>5 DEF ReadInv
  <2>18. \A i \in Appended : Range(shards[i].cells) = CellsOf(Current)
    <3>1. SUFFICES ASSUME NEW i \in Appended PROVE Range(shards[i].cells) = CellsOf(Current)
      OBVIOUS
    <3>2. shards[i] \in Shard /\ Len(shards[i].cells) = n
      BY <1>0, <2>2, <2>4 DEF ReadInv, AppendedInv, n
    <3>3. Range(shards[i].cells) = {store[k].key[2] : k \in DOMAIN store}
      BY <1>0 DEF StoreInv
    <3>4. store # <<>>
      <4>1. 1 \in 1..n
        BY <2>4 DEF n
      <4>2. shards[i].cells \in [1..n -> WireCells]
        BY <3>2, ShardTyped
      <4>3. Range(shards[i].cells) # {}
        BY <4>1, <4>2 DEF Range
      <4> QED BY <3>3, <4>3
    <3> QED BY <2>1, <3>3, <3>4 DEF SameCells
  <2>19. AppendedInv'
    <3>1. \A i \in Appended' : Len(shards[i].cells) = n /\ IsInjective(shards[i].cells)
      BY <1>0, <2>9, <2>11 DEF AppendedInv, n
    <3>2. \A i, j \in Appended' : Range(shards[i].cells) = Range(shards[j].cells)
      BY <2>9, <2>11, <2>18
    <3>3. ASSUME NEW i \in Appended', NEW j \in Appended', MonthOf(i) = MonthOf(j)
          PROVE  shards[i].time = shards[j].time /\ (TargetOf(i) = TargetOf(j) => i = j)
      <4>1. \A x \in Current, y \in Appended : MonthOf(x) # MonthOf(y)
        BY <2>2, <2>4
      <4>2. CASE i \in Appended /\ j \in Appended
        BY <1>0, <3>3, <4>2 DEF AppendedInv
      <4>3. CASE i \in Current /\ j \in Current
        BY <2>9, <4>3
      <4> QED BY <2>11, <3>3, <4>1, <4>2, <4>3
    <3> QED BY <2>1, <2>3, <3>1, <3>2, <3>3 DEF AppendedInv, n
  <2>20. Len(store') = n * Cardinality(MonthsIn(Appended'))
    <3> DEFINE M == MonthsIn(Appended)
    <3>1. MonthsIn(Appended') = M \cup {m}
      BY <2>1, <2>5, <2>11 DEF MonthsIn
    <3>2. m \notin M
      BY <2>2, <2>4, <2>5, <2>10 DEF MonthsIn
    <3>3. IsFiniteSet(M)
      <4>1. IsFiniteSet(Appended)
        BY <2>2, <2>4, FS_Subset
      <4> DEFINE f == [i \in Appended |-> MonthOf(i)]
      <4>2. f \in Surjection(Appended, M)
        BY DEF Surjection, MonthsIn
      <4> HIDE DEF f, M
      <4> QED BY <4>1, <4>2, FS_Surjection
    <3> HIDE DEF M
    <3>4. Cardinality(M) \in Nat /\ Cardinality(M \cup {m}) = Cardinality(M) + 1
      BY <3>2, <3>3, FS_CardinalityType, FS_AddElement
    <3>5. Len(store) = n * Cardinality(M)
      BY <1>0 DEF StoreInv, M, n
    <3>6. n * (Cardinality(M) + 1) = n * Cardinality(M) + n
      BY <2>4, <3>4, TimesNext DEF n
    <3> QED BY <2>13, <3>1, <3>4, <3>5, <3>6
  <2>21. ASSUME NEW k \in DOMAIN store' PROVE RowOK(store'[k], Appended')
    <3>1. CASE k \in 1..Len(store) /\ store'[k] = store[k]
      <4>1. RowOK(store[k], Appended)
        BY <1>0, <2>12, <3>1 DEF StoreInv
      <4> QED BY <2>11, <3>1, <4>1 DEF RowOK
    <3>2. CASE \E l \in 1..n : k = Len(store) + l /\ store'[k] = block[l]
      <4>1. PICK l \in 1..n : store'[k] = block[l]
        BY <3>2
      <4>2. RowOK(block[l], Current)
        BY <2>8
      <4> QED BY <2>11, <4>1, <4>2 DEF RowOK
    <3> QED BY <2>14, <3>1, <3>2
  <2>22. \A i \in Appended' : Range(shards[i].cells) = {store'[k].key[2] : k \in DOMAIN store'}
    <3>1. \A i \in Appended' : Range(shards[i].cells) = CellsOf(Current)
      BY <2>9, <2>11, <2>18
    <3>2. \A c \in CellsOf(Current) : \E k \in DOMAIN store' : store'[k].key[2] = c
      <4>1. \A l \in 1..n : Len(store) + l \in DOMAIN store'
        BY <2>4, <2>12, <2>13 DEF n
      <4>2. \A c \in CellsOf(Current) : \E l \in 1..n : block[l].key[2] = c
        BY <2>8
      <4> QED BY <2>13, <4>1, <4>2
    <3>3. ASSUME NEW k \in DOMAIN store' PROVE store'[k].key[2] \in CellsOf(Current)
      <4>1. CASE k \in 1..Len(store) /\ store'[k] = store[k]
        <5>1. store # <<>>
          BY <4>1
        <5>2. CellsOf(Current) = {store[l].key[2] : l \in DOMAIN store}
          BY <2>1, <5>1 DEF SameCells
        <5> QED BY <2>12, <4>1, <5>2
      <4>2. CASE \E l \in 1..n : k = Len(store) + l /\ store'[k] = block[l]
        BY <2>8, <4>2
      <4> QED BY <2>14, <4>1, <4>2
    <3> QED BY <3>1, <3>2, <3>3
  <2>23. ASSUME \A i \in Appended' : shards[i].time = MonthOf(i),
                NEW k \in DOMAIN store', NEW l \in DOMAIN store', k < l
         PROVE  Before(store'[k].key, store'[l].key)
    <3>1. CASE k \in 1..Len(store) /\ store'[k] = store[k] /\ l \in 1..Len(store) /\ store'[l] = store[l]
      BY <1>0, <2>11, <2>12, <2>23, <3>1 DEF StoreInv
    <3>2. CASE /\ \E p \in 1..n : k = Len(store) + p /\ store'[k] = block[p]
               /\ \E q \in 1..n : l = Len(store) + q /\ store'[l] = block[q]
      <4>1. PICK p \in 1..n : k = Len(store) + p /\ store'[k] = block[p]
        BY <3>2
      <4>2. PICK q \in 1..n : l = Len(store) + q /\ store'[l] = block[q]
        BY <3>2
      <4>3. p < q
        BY <2>4, <2>12, <2>23, <4>1, <4>2 DEF n
      <4> QED BY <2>8, <4>1, <4>2, <4>3
    <3>3. CASE /\ k \in 1..Len(store) /\ store'[k] = store[k]
               /\ \E q \in 1..n : l = Len(store) + q /\ store'[l] = block[q]
      <4>1. PICK c \in DOMAIN Vars : TRUE
        <5>1. PICK i \in Current : TRUE
          BY <2>1
        <5>2. i \in Entries /\ Range(Vars) = {TargetOf(j) : j \in Entries}
          BY <1>0, <2>2, ColumnsAre DEF Vars
        <5> QED BY <5>2 DEF Range
      <4>2. RowOK(store[k], Appended)
        BY <1>0, <2>12, <3>3 DEF StoreInv
      <4>3. PICK j \in Appended : store[k].key \in Keys(shards, j)
        BY <4>1, <4>2 DEF RowOK
      <4>4. store[k].key[1] = MonthOf(j)
        BY <2>11, <2>23, <4>3 DEF Keys
      <4>5. store'[l].key[1] = m
        BY <2>5, <2>8, <2>11, <2>23, <3>3
      <4> QED BY <2>10, <3>3, <4>4, <4>5 DEF Before
    <3>4. CASE /\ l \in 1..Len(store)
               /\ \E p \in 1..n : k = Len(store) + p
      BY <2>4, <2>12, <2>23, <3>4 DEF n
    <3> QED BY <2>14, <3>1, <3>2, <3>3, <3>4
  <2>24. StoreInv'
    <3>1. MonthsIn(Appended)' = MonthsIn(Appended')
      BY <2>3 DEF MonthsIn
    <3>2. ASSUME NEW k \in DOMAIN store' PROVE RowOK(store[k], Appended)'
      <4>1. RowOK(store'[k], Appended')
        BY <2>21
      <4>2. \A i : Keys(shards, i)' = Keys(shards, i)
        BY <2>1 DEF Keys
      <4> QED BY <2>3, <4>1, <4>2 DEF RowOK
    <3> QED BY <2>1, <2>3, <2>20, <2>22, <2>23, <3>1, <3>2 DEF StoreInv, n
  <2>25. AssembledInv'
    BY <2>1 DEF AssembledInv
  <2> QED BY <2>16, <2>17, <2>19, <2>24, <2>25 DEF AssemblyInv
<1> QED BY <1>1, <1>2

LEMMA AssemblyInvStep == AssemblyInv /\ [AssemblyNext]_assemblyVars => AssemblyInv'
<1> SUFFICES ASSUME AssemblyInv, [AssemblyNext]_assemblyVars PROVE AssemblyInv'
  OBVIOUS
<1>1. CASE OpenRun
  BY <1>1, OnlyStateChanges DEF OpenRun, Refuse
<1>2. CASE ReadShard
  BY <1>2, ReadShardKeeps
<1>3. CASE RejectRun
  BY <1>3, OnlyStateChanges DEF RejectRun, Refuse
<1>4. CASE AppendMonth
  BY <1>4, AppendMonthKeeps
<1>5. CASE Finalize
  BY <1>5, OnlyStateChanges DEF Finalize, Refuse
<1>6. CASE UNCHANGED assemblyVars
  BY <1>6, OnlyStateChanges DEF assemblyVars, AssemblyInv, AssemblyTyped, AssembledInv
<1> QED BY <1>1, <1>2, <1>3, <1>4, <1>5, <1>6 DEF AssemblyNext

\* The greatest of a finite set of numbers is the one all of it is up to.
LEMMA GreatestIn ==
  ASSUME NEW S, IsFiniteSet(S), S # {}, \A x \in S : x \in Nat
  PROVE  Max(S) \in S
<1> DEFINE R == {p \in S \X S : p[1] <= p[2]}
           n == Cardinality(S)
<1>1. Orders(R, S)
  <2>1. \A i, j \in S : <<i, j>> \in R <=> i <= j
    OBVIOUS
  <2>2. \A i, j \in S : /\ i <= j \/ j <= i
                        /\ i <= j /\ j <= i => i = j
                        /\ \A k \in S : i <= j /\ j <= k => i <= k
    <3>1. \A i \in S : i \in Nat
      OBVIOUS
    <3> QED BY <3>1
  <2> HIDE DEF R
  <2> QED BY <2>1, <2>2 DEF Orders
<1>2. n \in Nat /\ n # 0
  BY FS_CardinalityType, FS_EmptySet
<1>3. PICK x \in S : RankIn(S, R, x) = n
  <2>1. \A k \in 1..n : \E x \in S : RankIn(S, R, x) = k
    <3> HIDE DEF R
    <3> QED BY <1>1, RankOnto
  <2>2. n \in 1..n
    BY <1>2
  <2> QED BY <2>1, <2>2
<1>4. UpToIn(S, R, x) = S
  <2>1. UpToIn(S, R, x) \in SUBSET S
    BY DEF UpToIn
  <2>2. Cardinality(UpToIn(S, R, x)) = Cardinality(S)
    BY <1>3 DEF RankIn
  <2> QED BY <2>1, <2>2, FS_Subset
<1>5. \A y \in S : x >= y
  <2>1. \A y \in S : y <= x
    BY <1>4 DEF UpToIn
  <2> QED BY <2>1
<1>6. \E y \in S : \A z \in S : y >= z
  BY <1>5
<1> QED BY <1>6 DEF Max

\* When nothing is pending, every shard of the run is appended, with the run's cells.
LEMMA AllAppended ==
  ASSUME AssemblyInv, state = "assembled"
  PROVE  /\ Appended = Entries /\ Entries # {} /\ DOMAIN Vars # {}
         /\ Len(store) = run.cells * Cardinality(MonthsIn(Entries))
         /\ run.months * run.cells = run.cells * Cardinality(MonthsIn(Entries))
         /\ IsFiniteSet(MonthsIn(Entries))
         /\ \A i \in Entries : /\ shards[i] \in Shard /\ shards[i] # Unread
                               /\ Range(shards[i].cells) = CellsOf(Entries) /\ CellsOf(Entries) # {}
         /\ Cardinality(CellsOf(Entries)) = run.cells
<1>0. AssemblyTyped /\ ReadInv /\ AppendedInv /\ StoreInv
  BY DEF AssemblyInv
<1>1. Pending = {} /\ width > 0 /\ Len(store) = run.months * run.cells
  BY DEF AssemblyInv, AssembledInv
<1>2. Appended = Entries /\ Earliest \subseteq Entries
  BY <1>0, <1>1, MonthsInTurn
<1>3. PICK i0 \in Entries : TRUE
  BY <1>0, <1>1, <1>2 DEF ReadInv
<1>4. /\ IsFiniteSet(Entries) /\ run.cells \in Nat /\ run.cells # 0
      /\ \A i \in Entries : shards[i] \in Shard \cup {Unread}
  BY <1>0, RunTyped
<1>5. \A i \in Entries : shards[i] # Unread /\ shards[i] \in Shard
  BY <1>0, <1>2, <1>4 DEF ReadInv
<1>6. DOMAIN Vars # {}
  <2>1. Range(Vars) = {TargetOf(j) : j \in Entries}
    BY <1>0, ColumnsAre DEF Vars
  <2> QED BY <1>3, <2>1 DEF Range
<1>7. IsFiniteSet(MonthsIn(Entries))
  <2> DEFINE f == [i \in Entries |-> MonthOf(i)]
             M == MonthsIn(Entries)
  <2>1. f \in Surjection(Entries, M)
    BY DEF Surjection, MonthsIn
  <2> HIDE DEF f, M
  <2>2. IsFiniteSet(M)
    BY <1>4, <2>1, FS_Surjection
  <2> QED BY <2>2 DEF M
<1>8. Len(store) = run.cells * Cardinality(MonthsIn(Entries))
  BY <1>0, <1>2 DEF StoreInv
<1>9. ASSUME NEW i \in Entries PROVE Range(shards[i].cells) = CellsOf(Entries)
  <2>1. /\ \A j \in Entries : Range(shards[j].cells) \subseteq CellsOf(Entries)
        /\ \A c \in CellsOf(Entries) : \E j \in Entries : c \in Range(shards[j].cells)
    BY <1>0, <1>5, GridOf
  <2>2. \A j \in Entries : Range(shards[i].cells) = Range(shards[j].cells)
    BY <1>0, <1>2 DEF AppendedInv
  <2> QED BY <2>1, <2>2
<1>10. IsFiniteSet(CellsOf(Entries)) /\ Cardinality(CellsOf(Entries)) = run.cells
  <2>1. Len(shards[i0].cells) = run.cells /\ IsInjective(shards[i0].cells)
    BY <1>0, <1>2 DEF AppendedInv
  <2> QED BY <1>5, <1>9, <2>1, CellsCounted
<1>11. CellsOf(Entries) # {}
  BY <1>4, <1>10, FS_EmptySet
<1> QED BY <1>1, <1>2, <1>3, <1>5, <1>6, <1>7, <1>8, <1>9, <1>10, <1>11

LEMMA Monotonic == ASSUME NEW a \in Nat, NEW b \in Nat, NEW x \in Nat, NEW w \in Nat, a <= b
                   PROVE  a * x * w <= b * x * w
<1>1. a * x <= b * x /\ a * x \in Nat /\ b * x \in Nat
  OBVIOUS
<1> DEFINE p == a * x
           q == b * x
<1>2. p <= q /\ p \in Nat /\ q \in Nat
  BY <1>1
<1> HIDE DEF p, q
<1>3. p * w <= q * w
  BY <1>2
<1> QED BY <1>3 DEF p, q

LEMMA WithinAtEveryMonth == AssemblyInv => MonthsWithinCapacity
<1> SUFFICES ASSUME AssemblyInv, width > 0, Range(Vars) \subseteq run.targets
             PROVE  Len(Vars) * run.cells * width <= Capacity
  BY DEF MonthsWithinCapacity
<1>0. AssemblyTyped /\ ReadInv
  BY DEF AssemblyInv
<1>1. PICK i \in Earliest : shards[i] # Unread /\ shards[i].samples = width
  BY <1>0 DEF ReadInv
<1>2. i \in Entries /\ WithinCapacity(width)
  BY <1>0, <1>1, MonthsInTurn DEF ReadInv
<1>3. run.cells \in Nat /\ width \in Nat /\ run.targets \in {{}, Targets} /\ Capacity \in Nat
  BY <1>0, RunTyped, AssemblyAssumption
<1>4. PICK n \in Nat : /\ Vars \in [1..n -> Targets] /\ Len(Vars) = n
                       /\ \A k, l \in 1..n : Vars[k] = Vars[l] => k = l
  BY <1>0, ColumnsAre DEF Vars
<1>5. run.targets # {}
  <2>1. Range(Vars) = {TargetOf(j) : j \in Entries}
    BY <1>0, ColumnsAre DEF Vars
  <2> QED BY <1>2, <2>1
<1>6. n <= Cardinality(run.targets) /\ Cardinality(run.targets) \in Nat
  <2>1. IsFiniteSet(run.targets)
    BY <1>3, <1>5, AssemblyAssumption
  <2>2. Vars \in Injection(1..n, run.targets)
    <3>1. Vars \in [1..n -> run.targets]
      BY <1>4 DEF Range
    <3> QED BY <1>4, <3>1, Fun_IsInj
  <2>3. IsFiniteSet(1..n) /\ Cardinality(1..n) = n
    BY <1>4, FS_Interval
  <2> QED BY <2>1, <2>2, <2>3, FS_Injection, FS_CardinalityType
<1>7. Cardinality(run.targets) * run.cells * width <= Capacity
  BY <1>2, <1>5 DEF WithinCapacity
<1>8. n * run.cells * width <= Cardinality(run.targets) * run.cells * width
  BY <1>3, <1>6, Monotonic
<1>9. n * run.cells * width \in Nat /\ Cardinality(run.targets) * run.cells * width \in Nat
  BY <1>3, <1>4, <1>6
<1> QED BY <1>3, <1>4, <1>7, <1>8, <1>9

\* No month that is assembled, whatever is read after the first, exceeds the bound that is
\* guarded on the first shard only.
THEOREM MonthsWithinCapacityHolds == AssemblySpec => []MonthsWithinCapacity
BY AssemblyInvInit, AssemblyInvStep, WithinAtEveryMonth, PTL DEF AssemblySpec

LEMMA SameFactor == ASSUME NEW a \in Nat, NEW b \in Nat, NEW c \in Nat, c # 0, a * c = c * b PROVE a = b
<1>1. CASE a < b
  <2>1. c * b >= c * (a + 1)
    BY <1>1
  <2>2. c * (a + 1) = c * a + c /\ c * a = a * c /\ a * c \in Nat /\ c * b \in Nat
    OBVIOUS
  <2> QED BY <2>1, <2>2
<1>2. CASE b < a
  <2>1. c * a >= c * (b + 1)
    BY <1>2
  <2>2. c * (b + 1) = c * b + c /\ c * a = a * c /\ a * c \in Nat /\ c * b \in Nat
    OBVIOUS
  <2> QED BY <2>1, <2>2
<1> QED BY <1>1, <1>2

\* The months of the grid, when the shards hold the months they are listed under.
LEMMA TimesAreMonths ==
  ASSUME AssemblyInv, state = "assembled", AsDeclared
  PROVE  TimesOf(Entries) = MonthsIn(Entries)
<1>1. \A i \in Entries : /\ shards[i] # Unread /\ shards[i].time = MonthOf(i)
                         /\ Range(shards[i].cells) # {}
  BY AllAppended DEF AsDeclared
<1>2. /\ \A i \in Entries : Range(shards[i].cells) # {} => shards[i].time \in TimesOf(Entries)
      /\ \A t \in TimesOf(Entries) : \E i \in Entries : t = shards[i].time
  BY <1>1, GridOf DEF AssemblyInv
<1> QED BY <1>1, <1>2 DEF MonthsIn

LEMMA NothingMadeUp == AssemblyInv => NothingFilled
<1> SUFFICES ASSUME AssemblyInv, state = "assembled"
             PROVE  /\ \A k \in DOMAIN store : 0 \notin Range(store[k].draws)
                    /\ AsDeclared => Cardinality(TimesOf(Entries)) = run.months
  BY DEF NothingFilled
<1>1. ASSUME NEW k \in DOMAIN store PROVE 0 \notin Range(store[k].draws)
  <2>1. store[k] \in StoreRow
    BY DEF AssemblyInv, AssemblyTyped
  <2>2. \A c \in DOMAIN store[k].draws : store[k].draws[c] \in Entries
    BY <2>1 DEF StoreRow
  <2>3. 0 \notin Entries
    BY RunTyped DEF AssemblyInv
  <2> QED BY <2>2, <2>3 DEF Range
<1>2. ASSUME AsDeclared PROVE Cardinality(TimesOf(Entries)) = run.months
  <2>1. /\ run.months * run.cells = run.cells * Cardinality(MonthsIn(Entries))
        /\ Cardinality(MonthsIn(Entries)) \in Nat
    BY AllAppended, FS_CardinalityType
  <2>2. run.months \in Nat /\ run.cells \in Nat /\ run.cells # 0
    BY RunTyped DEF AssemblyInv
  <2>3. run.months = Cardinality(MonthsIn(Entries))
    BY <2>1, <2>2, SameFactor
  <2> QED BY <1>2, <2>3, TimesAreMonths
<1> QED BY <1>1, <1>2

\* Of an assembled run no draw was made up, and it has the months the manifest expects.
THEOREM NothingFilledHolds == AssemblySpec => []NothingFilled
BY AssemblyInvInit, AssemblyInvStep, NothingMadeUp, PTL DEF AssemblySpec

\* The whole run is one build_dataset accepts.
LEMMA WholeAccepted ==
  ASSUME AssemblyInv, state = "assembled", AsDeclared
  PROVE  BuildAccepts(Entries)
<1>0. AssemblyTyped /\ AppendedInv /\ Appended = Entries /\ Entries # {}
  BY AllAppended DEF AssemblyInv
<1>1. /\ \A i \in Entries : /\ shards[i] # Unread /\ shards[i] \in Shard /\ CellsOf(Entries) # {}
                            /\ Range(shards[i].cells) = CellsOf(Entries)
      /\ \A i \in Entries : shards[i].time = MonthOf(i) /\ shards[i].samples = width
  BY AllAppended DEF AsDeclared
<1>2. ASSUME NEW i \in Entries, NEW j \in Entries, i # j, TargetOf(i) = TargetOf(j)
      PROVE  Keys(shards, i) \cap Keys(shards, j) = {}
  <2>1. shards[i].time # shards[j].time
    BY <1>0, <1>1, <1>2 DEF AppendedInv
  <2> QED BY <2>1 DEF Keys
<1>3. LoopAccepts(shards, Entries)
  BY <1>0, <1>1, <1>2 DEF AppendedInv, LoopAccepts
<1>4. CellsAt(Entries, Max(TimesOf(Entries))) = CellsOf(Entries)
  <2> DEFINE T == TimesOf(Entries)
             last == Max(T)
  <2>1. /\ IsFiniteSet(T) /\ T \subseteq WireMonths
        /\ \A i \in Entries : Range(shards[i].cells) # {} => shards[i].time \in T
        /\ \A t \in T : \E i \in Entries : t = shards[i].time
    BY <1>0, <1>1, GridOf
  <2>2. T # {} /\ \A x \in T : x \in Nat
    BY <1>0, <1>1, <2>1, AssemblyAssumption
  <2> HIDE DEF T
  <2>3. last \in T
    BY <2>1, <2>2, GreatestIn
  <2>4. PICK i \in Entries : last = shards[i].time
    BY <2>1, <2>3
  <2> HIDE DEF last
  <2>5. ASSUME NEW c \in CellsOf(Entries) PROVE c \in CellsAt(Entries, last)
    <3>1. <<last, c>> \in Rows(Entries)
      BY <1>1, <2>4 DEF Rows, Keys
    <3> QED BY <3>1 DEF CellsAt
  <2>6. \A c \in CellsAt(Entries, last) : c \in CellsOf(Entries)
    BY DEF CellsAt, CellsOf
  <2> QED BY <2>5, <2>6 DEF last, T
<1> QED BY <1>0, <1>3, <1>4 DEF BuildAccepts

LEMMA StoredAsBuilt ==
  ASSUME AssemblyInv, state = "assembled", AsDeclared
  PROVE  store = Built(Entries, Columns(Entries))
<1> DEFINE G == TimesOf(Entries) \X CellsOf(Entries)
           g == SortedIndex(G)
           n == Cardinality(G)
           keys == [k \in 1..n |-> store[k].key]
<1>0. AssemblyTyped /\ AppendedInv /\ StoreInv /\ Appended = Entries /\ DOMAIN Vars # {} /\ 0 \notin Entries
  BY AllAppended, RunTyped DEF AssemblyInv
<1>1. \A i \in Entries : shards[i].time = MonthOf(i) /\ shards[i] # Unread
  BY AllAppended DEF AsDeclared
<1>2. G \subseteq Nat \X Nat /\ IsFiniteSet(G) /\ n = Cardinality(TimesOf(Entries)) * Cardinality(CellsOf(Entries))
  BY <1>0, <1>1, GridOf
<1>3. n \in Nat /\ Len(store) = n
  <2>1. Len(store) = run.cells * Cardinality(MonthsIn(Entries)) /\ Cardinality(CellsOf(Entries)) = run.cells
        /\ TimesOf(Entries) = MonthsIn(Entries) /\ Cardinality(MonthsIn(Entries)) \in Nat
    BY AllAppended, TimesAreMonths, FS_CardinalityType
  <2>2. run.cells \in Nat
    BY <1>0, RunTyped
  <2> HIDE DEF n
  <2>3. n = Cardinality(MonthsIn(Entries)) * run.cells
    BY <1>2, <2>1
  <2> QED BY <2>1, <2>2, <2>3
<1>4. store \in Seq(StoreRow) /\ DOMAIN store = 1..n /\ store = [k \in 1..n |-> store[k]]
  <2>1. store \in Seq(StoreRow)
    BY <1>0 DEF AssemblyTyped
  <2> HIDE DEF n
  <2> QED BY <1>3, <2>1, LenProperties
<1>5. ASSUME NEW k \in 1..n
      PROVE  /\ store[k] \in StoreRow
             /\ \A c \in DOMAIN Vars : /\ store[k].draws[c] \in Entries /\ TargetOf(store[k].draws[c]) = Vars[c]
                                       /\ store[k].key \in Keys(shards, store[k].draws[c])
  <2>1. store[k] \in StoreRow
    <3>1. k \in DOMAIN store /\ store \in Seq(StoreRow)
      BY <1>4, <1>5
    <3> HIDE DEF n
    <3> QED BY <3>1
  <2>2. RowOK(store[k], Entries)
    BY <1>0, <1>4, <1>5 DEF StoreInv
  <2> QED BY <2>1, <2>2 DEF RowOK
<1>6. keys \in [1..n -> G]
  <2>1. ASSUME NEW k \in 1..n PROVE store[k].key \in G
    <3>1. PICK c \in DOMAIN Vars : TRUE
      BY <1>0
    <3>2. PICK i \in Entries : store[k].key \in Keys(shards, i)
      BY <1>5
    <3>3. store[k].key \in Rows(Entries) /\ store[k].key = <<store[k].key[1], store[k].key[2]>>
      BY <3>2 DEF Rows, Keys
    <3> QED BY <3>3 DEF TimesOf, CellsOf
  <2> HIDE DEF G, n
  <2> QED BY <2>1
<1>7. \A k, l \in 1..n : k < l => Before(keys[k], keys[l])
  <2>1. \A k, l \in DOMAIN store : k < l => Before(store[k].key, store[l].key)
    BY <1>0, <1>1 DEF StoreInv
  <2> HIDE DEF n
  <2> QED BY <1>4, <2>1
<1>8. g = keys /\ DOMAIN g = 1..n
  <2>1. PICK f : f = keys
    OBVIOUS
  <2>2. f \in [1..n -> G] /\ \A k, l \in 1..n : k < l => Before(f[k], f[l])
    BY <1>6, <1>7, <2>1
  <2> HIDE DEF G, keys
  <2>3. f = g
    BY <1>2, <2>2, GridInOrder
  <2> QED BY <2>1, <2>2, <2>3
<1>9. ASSUME NEW k \in 1..n, NEW c \in DOMAIN Vars
      PROVE  store[k].draws[c] = Source(Entries, Vars[c], store[k].key)
  <2> DEFINE i == store[k].draws[c]
             s == Source(Entries, Vars[c], store[k].key)
  <2>1. i \in Entries /\ TargetOf(i) = Vars[c] /\ store[k].key \in Keys(shards, i)
    BY <1>5
  <2>2. s \in Entries /\ TargetOf(s) = Vars[c] /\ store[k].key \in Keys(shards, s)
    <3> HIDE DEF i
    <3> QED BY <1>0, <2>1, SourceIs
  <2> HIDE DEF i, s
  <2>3. shards[i].time = shards[s].time
    BY <2>1, <2>2 DEF Keys
  <2>4. i = s
    BY <1>0, <1>1, <2>1, <2>2, <2>3 DEF AppendedInv
  <2> QED BY <2>4 DEF i, s
<1>10. ASSUME NEW k \in 1..n
       PROVE  store[k] = [key |-> g[k], draws |-> [c \in DOMAIN Vars |-> Source(Entries, Vars[c], g[k])]]
  <2>1. store[k].key = g[k]
    <3> HIDE DEF g, n
    <3> QED BY <1>8
  <2>2. store[k] = [key |-> store[k].key, draws |-> store[k].draws]
        /\ store[k].draws = [c \in DOMAIN Vars |-> store[k].draws[c]]
    BY <1>5 DEF StoreRow
  <2> HIDE DEF g, n
  <2> QED BY <1>9, <2>1, <2>2
<1> HIDE DEF g, n
<1>11. store = [k \in DOMAIN g |-> [key |-> g[k], draws |-> [c \in DOMAIN Vars |-> Source(Entries, Vars[c], g[k])]]]
  BY <1>4, <1>8, <1>10
<1> QED BY <1>11 DEF Built, Vars, g

LEMMA WholeRun == AssemblyInv => AssembledAsWhole
BY WholeAccepted, StoredAsBuilt DEF AssembledAsWhole

\* A run assembled month by month is the one build_dataset gives of all its shards at once, if
\* each shard holds the month it is listed under and all have as many draws (AsDeclared).
THEOREM AssembledAsWholeHolds == AssemblySpec => []AssembledAsWhole
BY AssemblyInvInit, AssemblyInvStep, WholeRun, PTL DEF AssemblySpec
===============================================================================
