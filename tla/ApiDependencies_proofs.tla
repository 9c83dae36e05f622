------------------------- MODULE ApiDependencies_proofs -------------------------
(***************************************************************************)
(* Proofs about ApiDependencies, for every number of requests and keys and  *)
(* every capacity of the cache.                                             *)
(***************************************************************************)
EXTENDS ApiDependencies, FiniteSetTheorems, TLAPS

-------------------------------------------------------------------------------
(* The LRU cache *)

\* No key has two entries.
Distinct == \A i, j \in DOMAIN managers : managers[i].key = managers[j].key => i = j
CacheInv == managers \in Seq(Entry) /\ Len(managers) <= Capacity /\ Distinct

\* The keys used after k.
Newer(k) == {managers[i].key : i \in {j \in DOMAIN managers : j > Rank(k)}}

LEMMA RankIs ==
  ASSUME CacheInv, NEW k, Cached(k)
  PROVE  Rank(k) \in 1..Len(managers) /\ managers[Rank(k)].key = k
  BY DEF CacheInv, Cached, Rank

LEMMA RankOf ==
  ASSUME CacheInv, NEW i \in DOMAIN managers
  PROVE  Rank(managers[i].key) = i
<1>1. Cached(managers[i].key)
  BY DEF Cached
<1> QED BY <1>1, RankIs DEF CacheInv, Distinct

LEMMA AppendIs ==
  ASSUME NEW S, NEW s \in Seq(S), NEW e \in S
  PROVE  /\ Append(s, e) \in Seq(S) /\ Len(Append(s, e)) = Len(s) + 1
         /\ Append(s, e)[Len(s) + 1] = e
         /\ \A i \in 1..Len(s) : Append(s, e)[i] = s[i]
  OBVIOUS

LEMMA TailIs ==
  ASSUME NEW S, NEW s \in Seq(S), s # <<>>
  PROVE  /\ Tail(s) \in Seq(S) /\ Len(Tail(s)) = Len(s) - 1
         /\ \A i \in 1..Len(s) - 1 : Tail(s)[i] = s[i + 1]
  OBVIOUS

\* The three ways an entry becomes the newest: it was there, it is new, or it is new and
\* the oldest one goes.
LEMMA TouchedIs ==
  ASSUME CacheInv, NEW e \in Entry
  PROVE  LET n == Len(managers)
             s == Touched(e)
         IN  /\ s \in Seq(Entry)
             /\ \/ /\ Cached(e.key) /\ Len(s) = n /\ s[n] = e
                   /\ \A i \in 1..n - 1 : s[i] = managers[IF i < Rank(e.key) THEN i ELSE i + 1]
                \/ /\ ~Cached(e.key) /\ n < Capacity /\ Len(s) = n + 1 /\ s[n + 1] = e
                   /\ \A i \in 1..n : s[i] = managers[i]
                \/ /\ ~Cached(e.key) /\ n = Capacity /\ Len(s) = n /\ s[n] = e
                   /\ \A i \in 1..n - 1 : s[i] = managers[i + 1]
<1> DEFINE n == Len(managers)
           s == Touched(e)
           o == Others(e.key)
<1>0. n \in Nat /\ Capacity \in Nat \ {0} /\ n <= Capacity /\ managers \in Seq(Entry)
  BY DependenciesAssumption DEF CacheInv
<1>1. CASE Cached(e.key)
  <2>1. Rank(e.key) \in 1..n
    BY <1>1, RankIs
  <2>2. o = [i \in 1..n - 1 |-> managers[IF i < Rank(e.key) THEN i ELSE i + 1]]
    BY <1>1 DEF Others
  <2>3. o \in Seq(Entry) /\ Len(o) = n - 1
    BY <1>0, <2>1, <2>2
  <2>4. s = Append(o, e)
    <3>1. Len(o) # Capacity
      BY <1>0, <2>3
    <3> QED BY <3>1 DEF Touched
  <2> HIDE DEF o, s
  <2>5. s \in Seq(Entry) /\ Len(s) = n /\ s[n] = e /\ \A i \in 1..n - 1 : s[i] = o[i]
    <3>1. Len(o) + 1 = n
      BY <1>0, <2>3
    <3> QED BY <2>3, <2>4, <3>1, AppendIs
  <2>6. \A i \in 1..n - 1 : s[i] = managers[IF i < Rank(e.key) THEN i ELSE i + 1]
    BY <2>2, <2>5
  <2> QED BY <1>1, <2>5, <2>6 DEF s
<1>2. CASE ~Cached(e.key) /\ n = Capacity
  <2>1. s = Append(Tail(managers), e)
    BY <1>2 DEF Others, Touched
  <2>2. /\ Tail(managers) \in Seq(Entry) /\ Len(Tail(managers)) = n - 1
        /\ \A i \in 1..n - 1 : Tail(managers)[i] = managers[i + 1]
    <3>1. managers # <<>>
      BY <1>0, <1>2
    <3> QED BY <1>0, <3>1, TailIs
  <2> HIDE DEF s
  <2>3. s \in Seq(Entry) /\ Len(s) = n /\ s[n] = e
        /\ \A i \in 1..n - 1 : s[i] = Tail(managers)[i]
    <3>1. Len(Tail(managers)) + 1 = n
      BY <1>0, <2>2
    <3> QED BY <2>1, <2>2, <3>1, AppendIs
  <2> QED BY <1>2, <2>2, <2>3 DEF s
<1>3. CASE ~Cached(e.key) /\ n # Capacity
  <2>1. s = Append(managers, e)
    BY <1>3 DEF Others, Touched
  <2> HIDE DEF s
  <2>2. s \in Seq(Entry) /\ Len(s) = n + 1 /\ s[n + 1] = e /\ \A i \in 1..n : s[i] = managers[i]
    BY <1>0, <2>1, AppendIs
  <2>3. n < Capacity
    BY <1>0, <1>3
  <2> QED BY <1>3, <2>2, <2>3 DEF s
<1> QED BY <1>1, <1>2, <1>3

\* The entries of s but the newest are old ones of other keys, in their old order, and the
\* only one of these that may be gone is the oldest.
Kept(s, e, from) ==
    /\ \A i \in 1..Len(s) - 1 : s[i] = managers[from[i]] /\ managers[from[i]].key # e.key
    /\ \A i, j \in 1..Len(s) - 1 : i < j => from[i] < from[j]
    /\ \A j \in 1..Len(managers) : \/ \E i \in 1..Len(s) - 1 : from[i] = j
                                   \/ managers[j].key = e.key
                                   \/ j = 1 /\ Len(s) = Capacity

LEMMA TouchedFrom ==
  ASSUME CacheInv, NEW e \in Entry
  PROVE  /\ Touched(e) \in Seq(Entry) /\ Len(Touched(e)) \in 1..Capacity
         /\ Touched(e)[Len(Touched(e))] = e
         /\ \E from \in [1..Len(Touched(e)) - 1 -> 1..Len(managers)] : Kept(Touched(e), e, from)
<1> DEFINE n == Len(managers)
           s == Touched(e)
           p == Rank(e.key)
<1>0. n \in Nat /\ Capacity \in Nat \ {0} /\ n <= Capacity /\ managers \in Seq(Entry)
      /\ DOMAIN managers = 1..n
      /\ \A i, j \in 1..n : managers[i].key = managers[j].key => i = j
  BY DependenciesAssumption DEF CacheInv, Distinct
<1>1. s \in Seq(Entry)
  BY TouchedIs
<1>2. CASE /\ Cached(e.key) /\ Len(s) = n /\ s[n] = e
           /\ \A i \in 1..n - 1 : s[i] = managers[IF i < p THEN i ELSE i + 1]
  <2> DEFINE from == [i \in 1..n - 1 |-> IF i < p THEN i ELSE i + 1]
  <2> HIDE DEF s
  <2>1. p \in 1..n /\ managers[p].key = e.key
    BY <1>2, RankIs
  <2>2. from \in [1..n - 1 -> 1..n] /\ \A i \in 1..n - 1 : from[i] # p /\ s[i] = managers[from[i]]
    BY <1>0, <1>2, <2>1
  <2>3. \A i, j \in 1..n - 1 : i < j => from[i] < from[j]
    BY <1>0, <2>1
  <2>4. \A j \in 1..n : j = p \/ \E i \in 1..n - 1 : from[i] = j
    <3> TAKE j \in 1..n
    <3>1. CASE j < p
      BY <1>0, <2>1, <3>1
    <3>2. CASE j > p
      <4>1. j - 1 \in 1..n - 1 /\ from[j - 1] = j
        BY <1>0, <2>1, <3>2
      <4> QED BY <4>1
    <3> QED BY <1>0, <2>1, <3>1, <3>2
  <2> HIDE DEF from
  <2>5. \A i \in 1..n - 1 : managers[from[i]].key # e.key
    BY <1>0, <2>1, <2>2
  <2>6. n \in 1..Capacity
    BY <1>0, <2>1
  <2>7. Kept(s, e, from)
    BY <1>2, <2>1, <2>2, <2>3, <2>4, <2>5 DEF Kept
  <2> QED BY <1>1, <1>2, <2>2, <2>6, <2>7 DEF s
<1>3. CASE /\ ~Cached(e.key) /\ n < Capacity /\ Len(s) = n + 1 /\ s[n + 1] = e
           /\ \A i \in 1..n : s[i] = managers[i]
  <2> DEFINE from == [i \in 1..n |-> i]
  <2> HIDE DEF s
  <2>1. from \in [1..n -> 1..n] /\ \A i \in 1..n : from[i] = i
    OBVIOUS
  <2>2. \A i \in 1..n : managers[i].key # e.key
    BY <1>0, <1>3 DEF Cached
  <2>3. n + 1 \in 1..Capacity /\ Len(s) - 1 = n
    BY <1>0, <1>3
  <2> HIDE DEF from
  <2>4. Kept(s, e, from)
    BY <1>0, <1>3, <2>1, <2>2, <2>3 DEF Kept
  <2> QED BY <1>1, <1>3, <2>1, <2>3, <2>4 DEF s
<1>4. CASE /\ ~Cached(e.key) /\ n = Capacity /\ Len(s) = n /\ s[n] = e
           /\ \A i \in 1..n - 1 : s[i] = managers[i + 1]
  <2> DEFINE from == [i \in 1..n - 1 |-> i + 1]
  <2> HIDE DEF s
  <2>1. from \in [1..n - 1 -> 1..n] /\ \A i \in 1..n - 1 : from[i] = i + 1
    BY <1>0
  <2>2. \A i \in 1..n : managers[i].key # e.key
    BY <1>0, <1>4 DEF Cached
  <2>3. n \in 1..Capacity
    BY <1>0, <1>4
  <2>4. \A j \in 1..n : j = 1 \/ \E i \in 1..n - 1 : from[i] = j
    <3> TAKE j \in 1..n
    <3>1. j = 1 \/ (j - 1 \in 1..n - 1 /\ from[j - 1] = j)
      BY <1>0, <2>1
    <3> QED BY <3>1
  <2> HIDE DEF from
  <2>5. \A i, j \in 1..n - 1 : i < j => from[i] < from[j]
    BY <1>0, <2>1
  <2>6. \A i \in 1..n - 1 : managers[from[i]].key # e.key
    BY <1>0, <2>1, <2>2
  <2>7. Kept(s, e, from)
    BY <1>4, <2>1, <2>4, <2>5, <2>6 DEF Kept
  <2> QED BY <1>1, <1>4, <2>1, <2>3, <2>7 DEF s
<1> QED BY <1>2, <1>3, <1>4, TouchedIs

LEMMA OnlyPlace ==
  ASSUME NEW s, \A i, j \in DOMAIN s : s[i].key = s[j].key => i = j, NEW j \in DOMAIN s
  PROVE  (CHOOSE i \in DOMAIN s : s[i].key = s[j].key) = j
  OBVIOUS

\* What a lookup or a store of an entry keeps.
LEMMA TouchKeeps ==
  ASSUME CacheInv, NEW e \in Entry, managers' = Touched(e)
  PROVE  /\ CacheInv' /\ Cached(e.key)' /\ EntryOf(e.key)' = e /\ Newer(e.key)' = {}
         /\ \A i \in DOMAIN managers' :
               managers'[i] = e \/ \E j \in DOMAIN managers : managers'[i] = managers[j]
         /\ \A k : k # e.key /\ Cached(k)' =>
               /\ Cached(k) /\ EntryOf(k)' = EntryOf(k)
               /\ Newer(k)' \subseteq Newer(k) \cup {e.key}
         /\ \A k : k # e.key /\ Cached(k) /\ ~Cached(k)' =>
               /\ Len(managers') = Capacity
               /\ \A i \in DOMAIN managers' : managers'[i].key \in Newer(k) \cup {e.key}
<1> DEFINE n == Len(managers)
           s == managers'
           m == Len(s)
           rank(k) == CHOOSE i \in DOMAIN s : s[i].key = k
<1>0. n \in Nat /\ Capacity \in Nat \ {0} /\ managers \in Seq(Entry) /\ DOMAIN managers = 1..n
      /\ \A i, j \in 1..n : managers[i].key = managers[j].key => i = j
  BY DependenciesAssumption DEF CacheInv, Distinct
<1>a. s = Touched(e)
  OBVIOUS
<1>b. \A k : /\ Cached(k)' <=> \E i \in DOMAIN s : s[i].key = k
             /\ EntryOf(k)' = s[rank(k)]
             /\ Newer(k)' = {s[i].key : i \in {j \in DOMAIN s : j > rank(k)}}
  BY DEF Cached, EntryOf, Newer, Rank
<1>c. CacheInv' <=> /\ s \in Seq(Entry) /\ Len(s) <= Capacity
                    /\ \A i, j \in DOMAIN s : s[i].key = s[j].key => i = j
  BY DEF CacheInv, Distinct
<1> SUFFICES
      /\ s \in Seq(Entry) /\ m <= Capacity
      /\ \A i, j \in DOMAIN s : s[i].key = s[j].key => i = j
      /\ \E i \in DOMAIN s : s[i].key = e.key
      /\ s[rank(e.key)] = e
      /\ {s[i].key : i \in {j \in DOMAIN s : j > rank(e.key)}} = {}
      /\ \A i \in DOMAIN s : s[i] = e \/ \E j \in DOMAIN managers : s[i] = managers[j]
      /\ \A k : k # e.key /\ (\E i \in DOMAIN s : s[i].key = k) =>
            /\ Cached(k) /\ s[rank(k)] = EntryOf(k)
            /\ {s[i].key : i \in {j \in DOMAIN s : j > rank(k)}} \subseteq Newer(k) \cup {e.key}
      /\ \A k : k # e.key /\ Cached(k) /\ ~(\E i \in DOMAIN s : s[i].key = k) =>
            /\ m = Capacity
            /\ \A i \in DOMAIN s : s[i].key \in Newer(k) \cup {e.key}
  BY <1>b, <1>c
<1> HIDE DEF s
<1>1. s \in Seq(Entry) /\ m \in 1..Capacity /\ s[m] = e /\ DOMAIN s = 1..m
  BY <1>a, TouchedFrom
<1>d. PICK from \in [1..m - 1 -> 1..n] : Kept(s, e, from)
  BY <1>a, TouchedFrom
<1>2. /\ \A i \in 1..m - 1 : s[i] = managers[from[i]] /\ managers[from[i]].key # e.key
      /\ \A i, j \in 1..m - 1 : i < j => from[i] < from[j]
      /\ \A j \in 1..n : \/ \E i \in 1..m - 1 : from[i] = j
                         \/ managers[j].key = e.key
                         \/ j = 1 /\ m = Capacity
  BY <1>d DEF Kept
<1> HIDE DEF m, n, rank
<1>f. m \in Nat \ {0} /\ \A i \in 1..m - 1 : i \in 1..m /\ from[i] \in 1..n
  BY <1>0, <1>1
<1>g. \A i \in 1..m : i = m \/ i \in 1..m - 1
  BY <1>f
<1>3. \A i, j \in 1..m : s[i].key = s[j].key => i = j
  <2>1. ASSUME NEW i \in 1..m - 1, NEW j \in 1..m - 1, s[i].key = s[j].key PROVE i = j
    <3>1. from[i] = from[j]
      BY <1>0, <1>2, <1>f, <2>1
    <3>2. i \in Int /\ j \in Int /\ from[i] \in Int
      BY <1>0, <1>f
    <3> QED BY <1>2, <3>1, <3>2
  <2>2. \A i \in 1..m - 1 : s[i].key # s[m].key
    BY <1>1, <1>2
  <2> QED BY <1>g, <2>1, <2>2
<1>5. \A i \in 1..m : rank(s[i].key) = i
  BY <1>1, <1>3, OnlyPlace DEF rank
<1>6. /\ m \in DOMAIN s /\ s[m].key = e.key /\ s[rank(e.key)] = e
      /\ {s[i].key : i \in {j \in DOMAIN s : j > rank(e.key)}} = {}
  <2>1. m \in 1..m /\ rank(e.key) = m
    BY <1>1, <1>5, <1>f
  <2> QED BY <1>1, <1>f, <2>1
<1>7. \A i \in 1..m : s[i] = e \/ \E j \in 1..n : s[i] = managers[j]
  BY <1>1, <1>2, <1>f, <1>g
<1>8. ASSUME NEW k, k # e.key, \E i \in DOMAIN s : s[i].key = k
      PROVE  /\ Cached(k) /\ s[rank(k)] = EntryOf(k)
             /\ {s[i].key : i \in {j \in DOMAIN s : j > rank(k)}} \subseteq Newer(k) \cup {e.key}
  <2>1. PICK i \in 1..m - 1 : s[i].key = k
    BY <1>1, <1>g, <1>8
  <2>2. rank(k) = i
    BY <1>5, <1>f, <2>1
  <2>3. from[i] \in 1..n /\ managers[from[i]] = s[i]
    BY <1>2, <1>f, <2>1
  <2>4. Rank(k) = from[i] /\ Cached(k) /\ EntryOf(k) = s[i]
    BY <1>0, <2>1, <2>3, RankOf DEF Cached, EntryOf
  <2>5. ASSUME NEW j \in 1..m, j > i PROVE s[j].key \in Newer(k) \cup {e.key}
    <3>1. CASE j \in 1..m - 1
      <4>1. from[j] > from[i] /\ from[j] \in 1..n /\ s[j] = managers[from[j]]
        BY <1>2, <1>f, <2>5, <3>1, SMT
      <4> QED BY <1>0, <2>4, <4>1 DEF Newer
    <3> QED BY <1>1, <1>g, <3>1
  <2> QED BY <1>1, <2>2, <2>4, <2>5
<1>9. ASSUME NEW k, k # e.key, Cached(k), ~(\E i \in DOMAIN s : s[i].key = k)
      PROVE  m = Capacity /\ \A i \in 1..m : s[i].key \in Newer(k) \cup {e.key}
  <2>1. Rank(k) \in 1..n /\ managers[Rank(k)].key = k
    BY <1>9, RankIs DEF n
  <2>2. \A i \in 1..m - 1 : from[i] # Rank(k)
    BY <1>1, <1>2, <1>9, <1>f, <2>1
  <2>3. Rank(k) = 1 /\ m = Capacity
    BY <1>2, <1>9, <2>1, <2>2
  <2>4. ASSUME NEW i \in 1..m - 1 PROVE s[i].key \in Newer(k)
    <3>1. from[i] \in 1..n /\ from[i] > 1 /\ s[i] = managers[from[i]]
      BY <1>0, <1>2, <1>f, <2>2, <2>3
    <3> QED BY <1>0, <2>3, <3>1 DEF Newer
  <2> QED BY <1>1, <1>g, <2>3, <2>4
<1>10. m <= Capacity
  BY <1>0, <1>1
<1> QED BY <1>0, <1>1, <1>3, <1>6, <1>7, <1>8, <1>9, <1>10

-------------------------------------------------------------------------------
(* The requests *)

\* Every manager in the cache was built with the key of its entry.
Own(e) == e.appwrite = e.key /\ e.prediction \in {e.key, NoManager}
AllOwn == \A i \in DOMAIN managers : Own(managers[i])

\* What holds of a request r at place p.
CarriedAt(p, r) ==
    /\ p # "idle" => r.key \in Keys
    /\ p \in {"probe", "store"} => "appwrite" \notin r.needs
    /\ \A n \in Needs : r.got[n] \in {r.key, NoManager}

\* w: whether the function is wrapped.
TimedAt(w, p, r) ==
    /\ r.timed \/ (r.mixed /\ p = "unwrap")
    /\ p = "send" => w \/ r.mixed

\* c: whether the key is cached, e: its entry, N: the keys used after it.
BuiltAt(c, e, p, r) ==
    /\ p = "ready" => r.raced \/ \E n \in Needs : r.got[n] # NoManager
    /\ p = "fetch" /\ "appwrite" \notin r.needs /\ c => r.raced \/ e.prediction # NoManager

HeldAt(c, N, p, r) ==
    /\ IsFiniteSet(r.used)
    /\ p \in {"probe", "store", "fetch"} =>
          IF ~r.held THEN c \/ r.used # {}
          ELSE IF c THEN N \subseteq r.used ELSE Capacity <= Cardinality(r.used)

AtInv(w, c, e, N, p, r) ==
    CarriedAt(p, r) /\ TimedAt(w, p, r) /\ BuiltAt(c, e, p, r) /\ HeldAt(c, N, p, r)

ThreadInv(t) == LET k == request[t].key
                IN  AtInv(wrapped, Cached(k), EntryOf(k), Newer(k), at[t], request[t])

Typed == wrapped \in BOOLEAN /\ at \in [Threads -> Places] /\ request \in [Threads -> Request]
DepInv == Typed /\ CacheInv /\ AllOwn /\ \A t \in Threads : ThreadInv(t)

LEMMA Seen ==
  ASSUME NEW t \in Threads, NEW k, k = request'[t].key
  PROVE  AtInv(wrapped', Cached(k)', EntryOf(k)', Newer(k)', at'[t], request'[t])
            => ThreadInv(t)'
  BY DEF ThreadInv, Cached, EntryOf, Newer, Rank

\* s is r, but for what the properties remember of the others.
Alike(r, s) ==
    /\ s.key = r.key /\ s.needs = r.needs /\ s.got = r.got /\ s.timed = r.timed
    /\ s.held = r.held

\* A cache at capacity has so many keys.
LEMMA FullCache ==
  ASSUME CacheInv', NEW S, IsFiniteSet(S), Len(managers') = Capacity,
         \A i \in DOMAIN managers' : managers'[i].key \in S
  PROVE  Capacity <= Cardinality(S)
<1> DEFINE f == [i \in 1..Capacity |-> managers'[i].key]
<1>1. Capacity \in Nat /\ DOMAIN managers' = 1..Capacity
  BY DependenciesAssumption DEF CacheInv
<1>2. f \in Injection(1..Capacity, S)
  BY <1>1 DEF CacheInv, Distinct, Injection, IsInjective
<1>3. IsFiniteSet(1..Capacity) /\ Cardinality(1..Capacity) = Capacity
  BY <1>1, FS_Interval
<1> HIDE DEF f
<1> QED BY <1>2, <1>3, FS_Injection

\* Another request uses or stores entry e.
LEMMA TouchedElsewhere ==
  ASSUME DepInv, NEW e \in Entry, managers' = Touched(e), wrapped' = wrapped,
         NEW u \in Threads, at'[u] = at[u], Alike(request[u], request'[u]),
         request'[u].mixed = request[u].mixed, request[u].raced => request'[u].raced,
         request'[u].used = IF request[u].key = e.key THEN request[u].used
                            ELSE request[u].used \cup {e.key},
         request[u].key = e.key => \/ request'[u].raced
                                   \/ e.prediction # NoManager
                                   \/ Cached(e.key) /\ EntryOf(e.key).prediction = NoManager
  PROVE  ThreadInv(u)'
<1> PICK k : k = request[u].key
  OBVIOUS
<1> DEFINE r == request[u]
           s == request'[u]
           q == at[u]
<1>1. AtInv(wrapped, Cached(k), EntryOf(k), Newer(k), q, r)
  BY DEF DepInv, ThreadInv
<1>2. s.key = k /\ s.needs = r.needs /\ s.got = r.got /\ s.timed = r.timed /\ s.held = r.held
  BY DEF Alike
<1>3. CacheInv
  BY DEF DepInv
<1> SUFFICES AtInv(wrapped, Cached(k)', EntryOf(k)', Newer(k)', q, s)
  BY <1>2, Seen
<1>4. CASE k = e.key
  <2>1. CacheInv' /\ Cached(k)' /\ EntryOf(k)' = e /\ Newer(k)' = {}
    BY <1>3, <1>4, TouchKeeps
  <2>2. s.used = r.used /\ (\/ s.raced \/ e.prediction # NoManager
                            \/ Cached(k) /\ EntryOf(k).prediction = NoManager)
    BY <1>4
  <2>3. BuiltAt(TRUE, e, q, s)
    BY <1>1, <1>2, <1>4, <2>2 DEF AtInv, BuiltAt
  <2> QED BY <1>1, <1>2, <2>1, <2>2, <2>3 DEF AtInv, CarriedAt, TimedAt, HeldAt
<1>5. CASE k # e.key
  <2>1. s.used = r.used \cup {e.key} /\ IsFiniteSet(r.used) /\ IsFiniteSet(s.used)
    BY <1>1, <1>5, FS_AddElement DEF AtInv, HeldAt
  <2>2. /\ CacheInv'
        /\ Cached(k)' => /\ Cached(k) /\ EntryOf(k)' = EntryOf(k)
                         /\ Newer(k)' \subseteq Newer(k) \cup {e.key}
        /\ Cached(k) /\ ~Cached(k)' =>
              /\ Len(managers') = Capacity
              /\ \A i \in DOMAIN managers' : managers'[i].key \in Newer(k) \cup {e.key}
    BY <1>3, <1>5, TouchKeeps
  <2>3. HeldAt(Cached(k)', Newer(k)', q, s)
    <3>1. CASE ~Cached(k) /\ Capacity <= Cardinality(r.used)
      <4>1. Capacity <= Cardinality(s.used)
        <5>1. Cardinality(r.used) <= Cardinality(s.used)
          BY <2>1, FS_Subset
        <5>2. Cardinality(r.used) \in Nat /\ Cardinality(s.used) \in Nat /\ Capacity \in Nat
          BY <2>1, FS_CardinalityType, DependenciesAssumption
        <5> QED BY <3>1, <5>1, <5>2
      <4> QED BY <1>2, <2>1, <2>2, <3>1, <4>1 DEF HeldAt
    <3>2. CASE Cached(k) /\ ~Cached(k)' /\ Newer(k) \subseteq r.used
      <4>1. Capacity <= Cardinality(s.used)
        BY <2>1, <2>2, <3>2, FullCache
      <4> QED BY <1>2, <2>1, <3>2, <4>1 DEF HeldAt
    <3>3. CASE Cached(k)' /\ Newer(k) \subseteq r.used
      BY <1>2, <2>1, <2>2, <3>3 DEF HeldAt
    <3>4. CASE ~r.held \/ q \notin {"probe", "store", "fetch"}
      BY <1>2, <2>1, <3>4 DEF HeldAt
    <3> QED BY <1>1, <2>2, <3>1, <3>2, <3>3, <3>4 DEF AtInv, HeldAt
  <2>4. BuiltAt(Cached(k)', EntryOf(k)', q, s)
    BY <1>1, <1>2, <2>2 DEF AtInv, BuiltAt
  <2> QED BY <1>1, <1>2, <2>3, <2>4 DEF AtInv, CarriedAt, TimedAt
<1> QED BY <1>4, <1>5

\* Another request wraps the function or puts it back, or does nothing of consequence.
LEMMA Elsewhere ==
  ASSUME DepInv, managers' = managers,
         NEW u \in Threads, at'[u] = at[u],
         \/ request'[u] = request[u] /\ wrapped' = wrapped
         \/ request'[u] = [request[u] EXCEPT !.mixed = TRUE]
  PROVE  ThreadInv(u)'
<1> PICK k : k = request[u].key
  OBVIOUS
<1>1. AtInv(wrapped, Cached(k), EntryOf(k), Newer(k), at[u], request[u]) /\ request[u] \in Request
  BY DEF DepInv, Typed, ThreadInv
<1>2. /\ Alike(request[u], request'[u]) /\ request'[u].key = k
      /\ request'[u].used = request[u].used /\ request'[u].raced = request[u].raced
      /\ (request'[u].mixed = request[u].mixed /\ wrapped' = wrapped) \/ request'[u].mixed
  BY <1>1 DEF Request, Alike
<1>3. Cached(k)' = Cached(k) /\ EntryOf(k)' = EntryOf(k) /\ Newer(k)' = Newer(k)
  BY DEF Cached, EntryOf, Newer, Rank
<1>4. AtInv(wrapped', Cached(k), EntryOf(k), Newer(k), at[u], request'[u])
  BY <1>1, <1>2 DEF Alike, AtInv, CarriedAt, TimedAt, BuiltAt, HeldAt
<1> QED BY <1>2, <1>3, <1>4, Seen

-------------------------------------------------------------------------------
(* The actions *)

LEMMA RequestFields ==
  ASSUME NEW r \in Request
  PROVE  /\ \A S \in SUBSET Needs : [r EXCEPT !.needs = S] \in Request
         /\ \A n \in Needs, k \in Keys \cup {NoManager} : [r EXCEPT !.got[n] = k] \in Request
         /\ \A y \in {"validate", "route"} : [r EXCEPT !.why = y] \in Request
         /\ \A b \in BOOLEAN : [r EXCEPT !.saved = b] \in Request
         /\ \A b \in BOOLEAN : [r EXCEPT !.timed = b] \in Request
         /\ \A S \in SUBSET Keys : [r EXCEPT !.used = S] \in Request
         /\ \A b \in BOOLEAN : [r EXCEPT !.held = b] \in Request
         /\ \A b \in BOOLEAN : [r EXCEPT !.raced = b] \in Request
         /\ \A b \in BOOLEAN : [r EXCEPT !.mixed = b] \in Request
  BY DEF Request

LEMMA NewFields ==
  ASSUME NEW k \in Keys \cup {NoManager}, NEW S \in SUBSET Needs
  PROVE  /\ NewRequest(k, S) \in Request
         /\ \A x \in {"none", "ok", "refused", "failed"} :
               [NewRequest(k, S) EXCEPT !.reply = x] \in Request
  BY DEF NewRequest, Request

\* A request that just began, or is over.
LEMMA NewHolds ==
  ASSUME NEW k \in Keys \cup {NoManager}, NEW S \in SUBSET Needs, NEW x,
         NEW p \in {"idle", "check"}, p = "check" => k \in Keys, NEW w, NEW c, NEW e, NEW N
  PROVE  /\ AtInv(w, c, e, N, p, NewRequest(k, S))
         /\ AtInv(w, c, e, N, p, [NewRequest(k, S) EXCEPT !.reply = x])
  BY FS_EmptySet DEF NewRequest, AtInv, CarriedAt, TimedAt, BuiltAt, HeldAt

\* All that a step of thread t changes for the others: the function, which is w after it.
OnlyMixed(t, w) ==
    \A u \in Threads : u # t => \/ request'[u] = request[u] /\ w = wrapped
                                \/ request'[u] = [request[u] EXCEPT !.mixed = TRUE]

\* A step of thread t that leaves the cache alone.
LEMMA QuietStep ==
  ASSUME DepInv, NEW t \in Threads, NEW p \in Places, NEW s \in Request, NEW w \in BOOLEAN,
         managers' = managers, wrapped' = w, at' = [at EXCEPT ![t] = p],
         request' = [u \in Threads |-> request'[u]], request'[t] = s,
         OnlyMixed(t, w),
         AtInv(w, Cached(s.key), EntryOf(s.key), Newer(s.key), p, s)
  PROVE  DepInv'
<1>1. CacheInv' /\ AllOwn'
  BY DEF DepInv, CacheInv, Distinct, AllOwn
<1>2. at' \in [Threads -> Places] /\ at'[t] = p /\ \A u \in Threads : u # t => at'[u] = at[u]
  BY DEF DepInv, Typed
<1>3. \A u \in Threads : u # t => request'[u] \in Request
  BY RequestFields DEF OnlyMixed, DepInv, Typed
<1>4. request' \in [Threads -> Request]
  BY <1>3
<1>5. ASSUME NEW u \in Threads, u # t PROVE ThreadInv(u)'
  BY <1>2, <1>5, Elsewhere DEF OnlyMixed
<1>6. ThreadInv(t)'
  <2> PICK k : k = s.key
    OBVIOUS
  <2>1. Cached(k)' = Cached(k) /\ EntryOf(k)' = EntryOf(k) /\ Newer(k)' = Newer(k)
    BY DEF Cached, EntryOf, Newer, Rank
  <2>2. AtInv(wrapped', Cached(k)', EntryOf(k)', Newer(k)', at'[t], request'[t])
    BY <1>2, <2>1
  <2> QED BY <2>2, Seen
<1> QED BY <1>1, <1>2, <1>4, <1>5, <1>6 DEF DepInv, Typed

\* What a look-up or a store of entry e by thread t changes for the others.
Bystanders(t, e) ==
    \A u \in Threads : u # t =>
       IF request[u].key # e.key
       THEN request'[u] = [request[u] EXCEPT !.used = @ \cup {e.key}]
       ELSE \/ request'[u] = [request[u] EXCEPT !.raced = TRUE]
            \/ /\ request'[u] = request[u]
               /\ \/ e.prediction # NoManager
                  \/ Cached(e.key) /\ EntryOf(e.key).prediction = NoManager

\* A step of thread t that looks up or stores entry e.
LEMMA TouchStep ==
  ASSUME DepInv, NEW t \in Threads, NEW p \in Places, NEW s \in Request, NEW e \in Entry, Own(e),
         managers' = Touched(e), wrapped' = wrapped, at' = [at EXCEPT ![t] = p],
         request' = [u \in Threads |-> request'[u]], request'[t] = s, s.key = e.key,
         Bystanders(t, e),
         AtInv(wrapped, TRUE, e, {}, p, s)
  PROVE  DepInv'
<1>1. /\ CacheInv /\ CacheInv' /\ Cached(e.key)' /\ EntryOf(e.key)' = e /\ Newer(e.key)' = {}
      /\ \A i \in DOMAIN managers' :
            managers'[i] = e \/ \E j \in DOMAIN managers : managers'[i] = managers[j]
  BY TouchKeeps DEF DepInv
<1>2. AllOwn'
  BY <1>1 DEF AllOwn, DepInv
<1>3. at' \in [Threads -> Places] /\ at'[t] = p /\ \A u \in Threads : u # t => at'[u] = at[u]
  BY DEF DepInv, Typed
<1>4. ASSUME NEW u \in Threads, u # t PROVE request'[u] \in Request /\ ThreadInv(u)'
  <2> DEFINE r == request[u]
             q == request'[u]
  <2>1. r \in Request /\ e.key \in Keys
    BY DEF DepInv, Typed, Entry
  <2>2. r.used \cup {e.key} \in SUBSET Keys
    BY <2>1 DEF Request
  <2>3. q \in Request
    <3>1. q \in {[r EXCEPT !.used = r.used \cup {e.key}], [r EXCEPT !.raced = TRUE], r}
      BY <1>4 DEF Bystanders
    <3> HIDE DEF q, r
    <3>2. [r EXCEPT !.used = r.used \cup {e.key}] \in Request
      BY <2>1, <2>2, RequestFields
    <3>3. [r EXCEPT !.raced = TRUE] \in Request
      BY <2>1, RequestFields
    <3> QED BY <2>1, <3>1, <3>2, <3>3
  <2>4. Alike(r, q) /\ q.mixed = r.mixed /\ (r.raced => q.raced)
        /\ q.used = (IF r.key = e.key THEN r.used ELSE r.used \cup {e.key})
    BY <1>4, <2>1 DEF Bystanders, Alike, Request
  <2>5. r.key = e.key => \/ q.raced \/ e.prediction # NoManager
                         \/ Cached(e.key) /\ EntryOf(e.key).prediction = NoManager
    BY <1>4, <2>1 DEF Bystanders, Request
  <2> HIDE DEF q, r
  <2>6. ThreadInv(u)'
    BY <1>3, <1>4, <2>4, <2>5, TouchedElsewhere DEF q, r
  <2> QED BY <2>3, <2>6 DEF q
<1>5. request' \in [Threads -> Request]
  BY <1>4
<1>6. ThreadInv(t)'
  <2> PICK k : k = e.key
    OBVIOUS
  <2>1. AtInv(wrapped', Cached(k)', EntryOf(k)', Newer(k)', at'[t], request'[t])
    BY <1>1, <1>3
  <2> QED BY <2>1, Seen
<1> QED BY <1>1, <1>2, <1>3, <1>4, <1>5, <1>6 DEF DepInv, Typed

LEMMA EntryIs ==
  ASSUME DepInv, NEW k, Cached(k)
  PROVE  EntryOf(k) \in Entry /\ EntryOf(k).key = k /\ Own(EntryOf(k))
<1>1. Rank(k) \in DOMAIN managers /\ managers[Rank(k)].key = k
  BY RankIs DEF DepInv, CacheInv
<1> QED BY <1>1 DEF DepInv, CacheInv, AllOwn, EntryOf

\* What thread t knows at its place.
LEMMA Here ==
  ASSUME DepInv, NEW t \in Threads
  PROVE  /\ request[t] \in Request /\ at[t] \in Places /\ wrapped \in BOOLEAN
         /\ LET k == request[t].key
            IN  AtInv(wrapped, Cached(k), EntryOf(k), Newer(k), at[t], request[t])
  BY DEF DepInv, Typed, ThreadInv

\* A request is over, or fails.
LEMMA AnswerKeeps ==
  ASSUME DepInv, NEW t \in Threads, NEW x \in {"ok", "failed"}, Answer(t, x),
         UNCHANGED <<managers, wrapped>>
  PROVE  DepInv'
<1> DEFINE s == [NewRequest(NoManager, {}) EXCEPT !.reply = x]
<1>1. s \in Request
  BY NewFields
<1>2. /\ at' = [at EXCEPT ![t] = "idle"] /\ request' = [u \in Threads |-> request'[u]]
      /\ request'[t] = s /\ OnlyMixed(t, wrapped)
  BY DEF Answer, Goto, DepInv, Typed, OnlyMixed
<1>3. AtInv(wrapped, Cached(s.key), EntryOf(s.key), Newer(s.key), "idle", s)
  BY NewHolds
<1>4. wrapped \in BOOLEAN /\ "idle" \in Places
  BY Here DEF Places
<1> HIDE DEF s
<1> QED BY <1>1, <1>2, <1>3, <1>4, QuietStep

LEMMA BeginKeeps ==
  ASSUME DepInv, NEW t \in Threads, NEW k \in Keys, NEW S \in SUBSET Needs, Begin(t, k, S)
  PROVE  DepInv'
<1> DEFINE s == NewRequest(k, S)
<1>1. s \in Request
  BY NewFields
<1>2. /\ at' = [at EXCEPT ![t] = "check"] /\ request' = [u \in Threads |-> request'[u]]
      /\ request'[t] = s /\ OnlyMixed(t, wrapped)
      /\ managers' = managers /\ wrapped' = wrapped
  BY DEF Begin, Goto, DepInv, Typed, OnlyMixed
<1>3. AtInv(wrapped, Cached(s.key), EntryOf(s.key), Newer(s.key), "check", s)
  BY NewHolds
<1>4. wrapped \in BOOLEAN /\ "check" \in Places
  BY Here DEF Places
<1> HIDE DEF s
<1> QED BY <1>1, <1>2, <1>3, <1>4, QuietStep

LEMMA CheckedFields ==
  ASSUME NEW r \in Request, NEW s, s = [r EXCEPT !.why = "validate", !.used = {}, !.held = FALSE]
  PROVE  /\ s \in Request
         /\ s.key = r.key /\ s.needs = r.needs /\ s.got = r.got /\ s.timed = r.timed
         /\ s.used = {} /\ s.held = FALSE /\ s.mixed = r.mixed /\ s.raced = r.raced
  BY DEF Request

LEMMA CheckKeeps ==
  ASSUME DepInv, NEW t \in Threads, Check(t)
  PROVE  DepInv'
<1> PICK s : s = request'[t]
  OBVIOUS
<1> DEFINE r == request[t]
           p == IF Cached(r.key) THEN Looked(t) ELSE "wrap"
<1>1. /\ at' = [at EXCEPT ![t] = p] /\ request' = [u \in Threads |-> request'[u]]
      /\ request'[t] = s
      /\ OnlyMixed(t, wrapped)
      /\ managers' = managers /\ wrapped' = wrapped /\ at[t] = "check"
  BY DEF Check, Goto, DepInv, Typed, OnlyMixed
<1>a. s = [r EXCEPT !.why = "validate", !.used = {}, !.held = FALSE]
  BY DEF Check, DepInv, Typed
<1>2. /\ s \in Request
      /\ s.key = r.key /\ s.needs = r.needs /\ s.got = r.got /\ s.timed = r.timed
      /\ s.used = {} /\ s.held = FALSE /\ s.mixed = r.mixed /\ s.raced = r.raced
  BY <1>a, Here, CheckedFields
<1>3. \/ p = "wrap"
      \/ p = "fetch" /\ "appwrite" \in r.needs /\ Cached(r.key)
      \/ p = "probe" /\ "appwrite" \notin r.needs /\ Cached(r.key)
  BY DEF Looked, Current
<1>4. p \in Places /\ wrapped \in BOOLEAN
  BY <1>3, Here DEF Places
<1>5. AtInv(wrapped, Cached(r.key), EntryOf(r.key), Newer(r.key), "check", r)
  BY <1>1, Here
<1>6. AtInv(wrapped, Cached(s.key), EntryOf(s.key), Newer(s.key), p, s)
  <2> HIDE DEF p, r
  <2> QED BY <1>2, <1>3, <1>5, FS_EmptySet DEF AtInv, CarriedAt, TimedAt, BuiltAt, HeldAt
<1> HIDE DEF p, r
<1> QED BY <1>1, <1>2, <1>4, <1>6, QuietStep

LEMMA HeldFields ==
  ASSUME NEW r \in Request, NEW s, s = [r EXCEPT !.used = {}, !.held = TRUE]
  PROVE  /\ s \in Request
         /\ s.key = r.key /\ s.needs = r.needs /\ s.got = r.got /\ s.timed = r.timed
         /\ s.used = {} /\ s.held = TRUE /\ s.mixed = r.mixed /\ s.raced = r.raced
  BY DEF Request

LEMMA InsertKeeps ==
  ASSUME DepInv, NEW t \in Threads, Insert(t)
  PROVE  DepInv'
<1> PICK s : s = request'[t]
  OBVIOUS
<1> DEFINE r == request[t]
           p == Looked(t)
           e == [key |-> r.key, appwrite |-> r.key, prediction |-> NoManager]
<1>1. /\ at' = [at EXCEPT ![t] = p] /\ request' = [u \in Threads |-> request'[u]]
      /\ request'[t] = s
      /\ managers' = Touched(e) /\ wrapped' = wrapped /\ at[t] = "insert"
  BY DEF Insert, Goto, DepInv, Typed
<1>a. s = [r EXCEPT !.used = {}, !.held = TRUE]
  BY DEF Insert, DepInv, Typed
<1>2. Bystanders(t, e)
  BY DEF Insert, Bystanders
<1>3. /\ s \in Request
      /\ s.key = r.key /\ s.needs = r.needs /\ s.got = r.got /\ s.timed = r.timed
      /\ s.used = {} /\ s.held = TRUE /\ s.mixed = r.mixed /\ s.raced = r.raced
  BY <1>a, Here, HeldFields
<1>4. \/ p = "fetch" /\ "appwrite" \in r.needs
      \/ p = "probe" /\ "appwrite" \notin r.needs
  BY DEF Looked, Current
<1>5. p \in Places
  BY <1>4 DEF Places
<1>6. AtInv(wrapped, Cached(r.key), EntryOf(r.key), Newer(r.key), "insert", r)
  BY <1>1, Here
<1>7. r.key \in Keys
  BY <1>6 DEF AtInv, CarriedAt
<1>8. e \in Entry /\ Own(e) /\ e.key = r.key
  BY <1>7 DEF Entry, Own
<1> HIDE DEF p, r, e
<1>9. AtInv(wrapped, TRUE, e, {}, p, s)
  BY <1>3, <1>4, <1>6, <1>7, FS_EmptySet DEF AtInv, CarriedAt, TimedAt, BuiltAt, HeldAt
<1>10. s.key = e.key
  BY <1>3, <1>8
<1> QED BY <1>1, <1>2, <1>3, <1>5, <1>8, <1>9, <1>10, TouchStep

\* The others, when thread t finds the entry of its key and leaves e there.
LEMMA UseBystanders ==
  ASSUME DepInv, NEW t \in Threads, NEW mine, Use(t, mine), Cached(request[t].key),
         NEW e \in Entry, e.key = request[t].key,
         e.prediction # NoManager \/ EntryOf(e.key).prediction = NoManager
  PROVE  Bystanders(t, e)
<1>1. \A u \in Threads : u # t =>
         request'[u] = IF request[u].key = e.key THEN request[u]
                       ELSE [request[u] EXCEPT !.used = @ \cup {e.key}]
  BY DEF Use
<1> QED BY <1>1 DEF Bystanders

LEMMA ProbeKeeps ==
  ASSUME DepInv, NEW t \in Threads, Probe(t)
  PROVE  DepInv'
<1> PICK s : s = request'[t]
  OBVIOUS
<1> DEFINE r == request[t]
           e == EntryOf(r.key)
           p == IF e.prediction = NoManager THEN "store" ELSE "fetch"
<1>1. /\ at' = [at EXCEPT ![t] = p] /\ request' = [u \in Threads |-> request'[u]]
      /\ request'[t] = s /\ Use(t, r) /\ Cached(r.key)
      /\ managers' = Touched(e) /\ wrapped' = wrapped /\ at[t] = "probe"
  BY DEF Probe, Found, Use, Goto, DepInv, Typed
<1>a. s = [r EXCEPT !.used = {}, !.held = TRUE]
  BY DEF Probe, Use
<1>2. e \in Entry /\ e.key = r.key /\ Own(e)
  BY <1>1, EntryIs
<1>3. /\ s \in Request
      /\ s.key = r.key /\ s.needs = r.needs /\ s.got = r.got /\ s.timed = r.timed
      /\ s.used = {} /\ s.held = TRUE /\ s.mixed = r.mixed /\ s.raced = r.raced
  BY <1>a, Here, HeldFields
<1>4. p \in {"store", "fetch"} /\ (p = "fetch" => e.prediction # NoManager)
  OBVIOUS
<1>5. p \in Places
  BY <1>4 DEF Places
<1>6. AtInv(wrapped, Cached(r.key), e, Newer(r.key), "probe", r)
  BY <1>1, Here
<1>7. Bystanders(t, e)
  BY <1>1, <1>2, UseBystanders
<1> HIDE DEF p, r, e
<1>8. AtInv(wrapped, TRUE, e, {}, p, s)
  BY <1>3, <1>4, <1>6, FS_EmptySet DEF AtInv, CarriedAt, TimedAt, BuiltAt, HeldAt
<1>9. s.key = e.key
  BY <1>2, <1>3
<1> QED BY <1>1, <1>2, <1>3, <1>5, <1>7, <1>8, <1>9, TouchStep

LEMMA StoreKeeps ==
  ASSUME DepInv, NEW t \in Threads, Store(t)
  PROVE  DepInv'
<1> PICK s : s = request'[t]
  OBVIOUS
<1> DEFINE r == request[t]
           f == EntryOf(r.key)
           e == [f EXCEPT !.prediction = r.key]
<1>1. /\ at' = [at EXCEPT ![t] = "fetch"] /\ request' = [u \in Threads |-> request'[u]]
      /\ request'[t] = s /\ Use(t, r) /\ Cached(r.key)
      /\ managers' = Touched(e) /\ wrapped' = wrapped /\ at[t] = "store"
  BY DEF Store, Found, Use, Goto, DepInv, Typed
<1>a. s = [r EXCEPT !.used = {}, !.held = TRUE]
  BY DEF Store, Use
<1>2. f \in Entry /\ f.key = r.key /\ Own(f)
  BY <1>1, EntryIs
<1>3. /\ s \in Request
      /\ s.key = r.key /\ s.needs = r.needs /\ s.got = r.got /\ s.timed = r.timed
      /\ s.used = {} /\ s.held = TRUE /\ s.mixed = r.mixed /\ s.raced = r.raced
  BY <1>a, Here, HeldFields
<1>4. AtInv(wrapped, Cached(r.key), f, Newer(r.key), "store", r)
  BY <1>1, Here
<1>5. r.key \in Keys /\ r.key # NoManager
  BY <1>4, DependenciesAssumption DEF AtInv, CarriedAt
<1>6. e \in Entry /\ e.key = r.key /\ Own(e) /\ e.prediction # NoManager
  BY <1>2, <1>5 DEF Entry, Own
<1> HIDE DEF e
<1>7. Bystanders(t, e)
  BY <1>1, <1>6, UseBystanders
<1> HIDE DEF r, f
<1>8. AtInv(wrapped, TRUE, e, {}, "fetch", s)
  BY <1>3, <1>4, <1>6, FS_EmptySet DEF AtInv, CarriedAt, TimedAt, BuiltAt, HeldAt
<1>9. s.key = e.key /\ "fetch" \in Places
  BY <1>3, <1>6 DEF Places
<1> QED BY <1>1, <1>3, <1>6, <1>7, <1>8, <1>9, TouchStep

\* What a fetch changes in a request: it has what it needed, and holds the entry.
Fetched(r, S, n, k) ==
    [[r EXCEPT !.needs = S, !.got[n] = k] EXCEPT !.used = {}, !.held = TRUE]
CanFetch(r, S, n, k) ==
    r \in Request /\ S \in SUBSET Needs /\ n \in Needs /\ k \in Keys \cup {NoManager}
FetchIs(r, S, n, k, s) ==
    /\ s \in Request
    /\ s.key = r.key /\ s.needs = S /\ s.timed = r.timed
    /\ s.got[n] = k /\ \A m \in Needs : m # n => s.got[m] = r.got[m]
    /\ s.used = {} /\ s.held = TRUE /\ s.mixed = r.mixed /\ s.raced = r.raced

LEMMA FetchedFields ==
  ASSUME NEW r, NEW S, NEW n, NEW k, CanFetch(r, S, n, k)
  PROVE  FetchIs(r, S, n, k, Fetched(r, S, n, k))
<1> DEFINE g == [r.got EXCEPT ![n] = k]
           s == Fetched(r, S, n, k)
<1> USE DEF CanFetch
<1>1. g \in [Needs -> Keys \cup {NoManager}]
  BY DEF Request
<1>2. g[n] = k /\ \A m \in Needs : m # n => g[m] = r.got[m]
  BY DEF Request
<1>3. /\ s \in Request
      /\ s.key = r.key /\ s.needs = S /\ s.timed = r.timed /\ s.got = g
      /\ s.used = {} /\ s.held = TRUE /\ s.mixed = r.mixed /\ s.raced = r.raced
  BY <1>1 DEF Fetched, Request
<1> HIDE DEF g, s
<1>4. FetchIs(r, S, n, k, s)
  BY <1>2, <1>3 DEF FetchIs
<1> QED BY <1>4 DEF s

LEMMA FetchKeeps ==
  ASSUME DepInv, NEW t \in Threads, Fetch(t)
  PROVE  DepInv'
<1> PICK s : s = request'[t]
  OBVIOUS
<1> DEFINE r == request[t]
           e == EntryOf(r.key)
           n == Current(t)
           S == r.needs \ {n}
           p == IF S = {} THEN "ready" ELSE "check"
           mine == [r EXCEPT !.needs = S, !.got[n] = e[n]]
<1>1. /\ at' = [at EXCEPT ![t] = p] /\ request' = [u \in Threads |-> request'[u]]
      /\ request'[t] = s /\ Use(t, mine) /\ Cached(r.key)
      /\ managers' = Touched(e) /\ wrapped' = wrapped /\ at[t] = "fetch"
  BY DEF Fetch, Found, Use, Goto, DepInv, Typed
<1>a. s = [mine EXCEPT !.used = {}, !.held = TRUE]
  BY DEF Fetch, Use
<1>2. e \in Entry /\ e.key = r.key /\ Own(e)
  BY <1>1, EntryIs
<1>3. /\ n \in Needs /\ (n = "prediction" => "appwrite" \notin r.needs)
      /\ r \in Request
  BY Here DEF Current, Needs
<1>4. e[n] \in {r.key, NoManager} /\ e[n] \in Keys \cup {NoManager}
      /\ (n = "appwrite" => e[n] = r.key) /\ (n = "prediction" => e[n] = e.prediction)
      /\ e.key # NoManager
  BY <1>2, <1>3, DependenciesAssumption DEF Entry, Own, Needs
<1>5. S \in SUBSET Needs
  BY <1>3 DEF Request
<1>b. FetchIs(r, S, n, e[n], s)
  <2>1. s = Fetched(r, S, n, e[n])
    BY <1>a DEF Fetched
  <2>2. CanFetch(r, S, n, e[n])
    BY <1>3, <1>4, <1>5 DEF CanFetch
  <2> HIDE DEF r, e, n, S, mine
  <2> QED BY <2>1, <2>2, FetchedFields
<1>c. /\ s \in Request
      /\ s.key = r.key /\ s.needs = S /\ s.timed = r.timed
      /\ s.got[n] = e[n] /\ \A m \in Needs : m # n => s.got[m] = r.got[m]
      /\ s.used = {} /\ s.held = TRUE /\ s.mixed = r.mixed /\ s.raced = r.raced
  <2> HIDE DEF r, e, n, S, mine
  <2> QED BY <1>b DEF FetchIs
<1>6. AtInv(wrapped, Cached(r.key), e, Newer(r.key), "fetch", r)
  BY <1>1, Here
<1>7. Bystanders(t, e)
  <2> HIDE DEF mine
  <2> QED BY <1>1, <1>2, UseBystanders
<1>8. p \in {"ready", "check"} /\ p \in Places
  BY DEF Places
<1> HIDE DEF p, r, e, n, S, mine
<1>9. s.key = e.key
  BY <1>2, <1>c
<1>10. CarriedAt(p, s)
  BY <1>2, <1>4, <1>6, <1>8, <1>c DEF AtInv, CarriedAt
<1>11. BuiltAt(TRUE, e, p, s)
  <2>1. r.raced \/ e[n] # NoManager
    BY <1>1, <1>2, <1>3, <1>4, <1>6 DEF AtInv, BuiltAt, Needs
  <2> QED BY <1>3, <1>8, <1>c, <2>1 DEF BuiltAt
<1>12. AtInv(wrapped, TRUE, e, {}, p, s)
  BY <1>6, <1>8, <1>10, <1>11, <1>c, FS_EmptySet DEF AtInv, TimedAt, HeldAt
<1> QED BY <1>1, <1>2, <1>7, <1>8, <1>9, <1>12, <1>c, TouchStep

LEMMA RouteKeeps ==
  ASSUME DepInv, NEW t \in Threads, Route(t)
  PROVE  DepInv'
<1>1. CASE Answer(t, "failed")
  BY <1>1, AnswerKeeps DEF Route
<1>2. CASE Goto(t, "wrap") /\ request' = [request EXCEPT ![t].why = "route"]
  <2> PICK s : s = request'[t]
    OBVIOUS
  <2> DEFINE r == request[t]
  <2>1. /\ at' = [at EXCEPT ![t] = "wrap"] /\ request' = [u \in Threads |-> request'[u]]
        /\ request'[t] = s /\ OnlyMixed(t, wrapped)
        /\ managers' = managers /\ wrapped' = wrapped /\ at[t] = "ready"
    BY <1>2 DEF Route, Goto, DepInv, Typed, OnlyMixed
  <2>2. s = [r EXCEPT !.why = "route"]
    BY <1>2 DEF DepInv, Typed
  <2>3. r \in Request
    BY Here
  <2> HIDE DEF r
  <2>4. /\ s \in Request
        /\ s.key = r.key /\ s.needs = r.needs /\ s.got = r.got /\ s.timed = r.timed
        /\ s.used = r.used /\ s.held = r.held /\ s.mixed = r.mixed /\ s.raced = r.raced
    BY <2>2, <2>3 DEF Request
  <2>5. AtInv(wrapped, Cached(r.key), EntryOf(r.key), Newer(r.key), "ready", r)
    BY <2>1, Here DEF r
  <2>6. AtInv(wrapped, Cached(s.key), EntryOf(s.key), Newer(s.key), "wrap", s)
    BY <2>4, <2>5 DEF AtInv, CarriedAt, TimedAt, BuiltAt, HeldAt
  <2>7. wrapped \in BOOLEAN /\ "wrap" \in Places
    BY Here DEF Places
  <2> QED BY <2>1, <2>4, <2>6, <2>7, QuietStep
<1> QED BY <1>1, <1>2 DEF Route

LEMMA SaveKeeps ==
  ASSUME DepInv, NEW t \in Threads, Save(t)
  PROVE  DepInv'
<1> PICK s : s = request'[t]
  OBVIOUS
<1> DEFINE r == request[t]
<1>1. /\ at' = [at EXCEPT ![t] = "patch"] /\ request' = [u \in Threads |-> request'[u]]
      /\ request'[t] = s /\ OnlyMixed(t, wrapped)
      /\ managers' = managers /\ wrapped' = wrapped /\ at[t] = "wrap"
  BY DEF Save, Goto, DepInv, Typed, OnlyMixed
<1>2. s = [r EXCEPT !.saved = wrapped]
  BY DEF Save, DepInv, Typed
<1>3. r \in Request /\ wrapped \in BOOLEAN /\ "patch" \in Places
  BY Here DEF Places
<1>4. AtInv(wrapped, Cached(r.key), EntryOf(r.key), Newer(r.key), "wrap", r)
  BY <1>1, Here
<1> HIDE DEF r
<1>5. /\ s \in Request
      /\ s.key = r.key /\ s.needs = r.needs /\ s.got = r.got /\ s.timed = r.timed
      /\ s.used = r.used /\ s.held = r.held /\ s.mixed = r.mixed /\ s.raced = r.raced
  BY <1>2, <1>3 DEF Request
<1>6. AtInv(wrapped, Cached(s.key), EntryOf(s.key), Newer(s.key), "patch", s)
  BY <1>4, <1>5 DEF AtInv, CarriedAt, TimedAt, BuiltAt, HeldAt
<1> QED BY <1>1, <1>3, <1>5, <1>6, QuietStep

LEMMA WrapKeeps ==
  ASSUME DepInv, NEW t \in Threads, Wrap(t)
  PROVE  DepInv'
<1> PICK s : s = request'[t]
  OBVIOUS
<1> DEFINE r == request[t]
<1>1. /\ at' = [at EXCEPT ![t] = "send"] /\ request' = [u \in Threads |-> request'[u]]
      /\ request'[t] = s
      /\ OnlyMixed(t, TRUE)
      /\ managers' = managers /\ wrapped' = TRUE /\ at[t] = "patch"
  BY DEF Wrap, Patch, Goto, OnlyMixed
<1>2. s = [r EXCEPT !.mixed = FALSE]
  BY DEF Wrap, Patch
<1>3. r \in Request /\ wrapped \in BOOLEAN /\ "send" \in Places
  BY Here DEF Places
<1>4. AtInv(wrapped, Cached(r.key), EntryOf(r.key), Newer(r.key), "patch", r)
  BY <1>1, Here
<1> HIDE DEF r
<1>5. /\ s \in Request
      /\ s.key = r.key /\ s.needs = r.needs /\ s.got = r.got /\ s.timed = r.timed
      /\ s.used = r.used /\ s.held = r.held /\ s.raced = r.raced
  BY <1>2, <1>3 DEF Request
<1>6. AtInv(TRUE, Cached(s.key), EntryOf(s.key), Newer(s.key), "send", s)
  BY <1>4, <1>5 DEF AtInv, CarriedAt, TimedAt, BuiltAt, HeldAt
<1> QED BY <1>1, <1>3, <1>5, <1>6, QuietStep

LEMMA SendKeeps ==
  ASSUME DepInv, NEW t \in Threads, Send(t)
  PROVE  DepInv'
<1> PICK s : s = request'[t]
  OBVIOUS
<1> DEFINE r == request[t]
<1>1. /\ at' = [at EXCEPT ![t] = "unwrap"] /\ request' = [u \in Threads |-> request'[u]]
      /\ request'[t] = s /\ OnlyMixed(t, wrapped)
      /\ managers' = managers /\ wrapped' = wrapped /\ at[t] = "send"
  BY DEF Send, Goto, DepInv, Typed, OnlyMixed
<1>2. s = [r EXCEPT !.timed = wrapped]
  BY DEF Send, DepInv, Typed
<1>3. r \in Request /\ wrapped \in BOOLEAN /\ "unwrap" \in Places
  BY Here DEF Places
<1>4. AtInv(wrapped, Cached(r.key), EntryOf(r.key), Newer(r.key), "send", r)
  BY <1>1, Here
<1> HIDE DEF r
<1>5. /\ s \in Request
      /\ s.key = r.key /\ s.needs = r.needs /\ s.got = r.got /\ s.timed = wrapped
      /\ s.used = r.used /\ s.held = r.held /\ s.mixed = r.mixed /\ s.raced = r.raced
  BY <1>2, <1>3 DEF Request
<1>6. AtInv(wrapped, Cached(s.key), EntryOf(s.key), Newer(s.key), "unwrap", s)
  BY <1>4, <1>5 DEF AtInv, CarriedAt, TimedAt, BuiltAt, HeldAt
<1> QED BY <1>1, <1>3, <1>5, <1>6, QuietStep

LEMMA UnwrapKeeps ==
  ASSUME DepInv, NEW t \in Threads, Unwrap(t)
  PROVE  DepInv'
<1> PICK s : s = request'[t]
  OBVIOUS
<1> DEFINE r == request[t]
<1>1. r \in Request /\ at[t] = "unwrap" /\ "insert" \in Places /\ "idle" \in Places
  BY Here DEF Unwrap, Places
<1> PICK w : w = r.saved
  OBVIOUS
<1>2. w \in BOOLEAN
  BY <1>1 DEF Request
<1>3. CASE Goto(t, "insert") /\ Patch(t, r.saved, [r EXCEPT !.saved = FALSE, !.timed = TRUE])
  <2>1. /\ at' = [at EXCEPT ![t] = "insert"] /\ request' = [u \in Threads |-> request'[u]]
        /\ request'[t] = s
        /\ OnlyMixed(t, w)
        /\ managers' = managers /\ wrapped' = w
    BY <1>3 DEF Patch, Goto, OnlyMixed
  <2>2. s = [r EXCEPT !.saved = FALSE, !.timed = TRUE]
    BY <1>3 DEF Patch
  <2>3. AtInv(wrapped, Cached(r.key), EntryOf(r.key), Newer(r.key), "unwrap", r)
    BY <1>1, Here
  <2> HIDE DEF r
  <2>4. /\ s \in Request
        /\ s.key = r.key /\ s.needs = r.needs /\ s.got = r.got /\ s.timed = TRUE
        /\ s.used = r.used /\ s.held = r.held /\ s.mixed = r.mixed /\ s.raced = r.raced
    BY <1>1, <2>2 DEF Request
  <2>5. AtInv(w, Cached(s.key), EntryOf(s.key), Newer(s.key), "insert", s)
    BY <2>3, <2>4 DEF AtInv, CarriedAt, TimedAt, BuiltAt, HeldAt
  <2> QED BY <1>1, <1>2, <2>1, <2>4, <2>5, QuietStep
<1>4. ASSUME NEW x \in {"ok", "refused", "failed"}, Goto(t, "idle"),
             Patch(t, r.saved, [NewRequest(NoManager, {}) EXCEPT !.reply = x])
      PROVE  DepInv'
  <2>1. /\ at' = [at EXCEPT ![t] = "idle"] /\ request' = [u \in Threads |-> request'[u]]
        /\ request'[t] = s
        /\ OnlyMixed(t, w)
        /\ managers' = managers /\ wrapped' = w
    BY <1>4 DEF Patch, Goto, OnlyMixed
  <2>2. s = [NewRequest(NoManager, {}) EXCEPT !.reply = x]
    BY <1>4 DEF Patch
  <2>3. s \in Request
    <3>1. [NewRequest(NoManager, {}) EXCEPT !.reply = x] \in Request
      BY NewFields
    <3> QED BY <2>2, <3>1
  <2>4. AtInv(w, Cached(s.key), EntryOf(s.key), Newer(s.key), "idle", s)
    BY <2>2, NewHolds
  <2> HIDE DEF r
  <2> QED BY <1>1, <1>2, <2>1, <2>3, <2>4, QuietStep
<1> QED BY <1>3, <1>4 DEF Unwrap

-------------------------------------------------------------------------------
(* The invariant *)

LEMMA DepInvInit == DependenciesInit => DepInv
<1> SUFFICES ASSUME DependenciesInit PROVE DepInv
  OBVIOUS
<1> USE DEF DependenciesInit
<1>1. CacheInv /\ AllOwn
  BY DependenciesAssumption DEF CacheInv, Distinct, AllOwn
<1>2. Typed
  BY NewFields DEF Typed, Places
<1>3. ASSUME NEW t \in Threads PROVE ThreadInv(t)
  <2> PICK k : k = request[t].key
    OBVIOUS
  <2>1. at[t] = "idle" /\ request[t] = NewRequest(NoManager, {})
    OBVIOUS
  <2>2. AtInv(wrapped, Cached(k), EntryOf(k), Newer(k), "idle", NewRequest(NoManager, {}))
    BY NewHolds
  <2> QED BY <2>1, <2>2 DEF ThreadInv
<1> QED BY <1>1, <1>2, <1>3 DEF DepInv

LEMMA DepInvStep == DepInv /\ [DependenciesNext]_depVars => DepInv'
<1> SUFFICES ASSUME DepInv, [DependenciesNext]_depVars PROVE DepInv'
  OBVIOUS
<1>1. CASE UNCHANGED depVars
  BY <1>1 DEF depVars, DepInv, Typed, CacheInv, Distinct, AllOwn, ThreadInv, Cached, EntryOf,
              Newer, Rank
<1>2. ASSUME NEW t \in Threads, NEW k \in Keys, NEW needs \in SUBSET Needs, Begin(t, k, needs)
      PROVE  DepInv'
  BY <1>2, BeginKeeps
<1>3. ASSUME NEW t \in Threads, Unbuilt(t) PROVE DepInv'
  BY <1>3, AnswerKeeps DEF Unbuilt
<1>4. ASSUME NEW t \in Threads, NEW place, Lost(t, place) PROVE DepInv'
  BY <1>4, AnswerKeeps DEF Lost
<1> QED BY <1>1, <1>2, <1>3, <1>4, CheckKeeps, InsertKeeps, ProbeKeeps, StoreKeeps, FetchKeeps,
           RouteKeeps, SaveKeeps, WrapKeeps, SendKeeps, UnwrapKeeps DEF DependenciesNext

\* The invariant of the dependencies, from which the theorems below follow (api.py:381-461
\* and manager.py:58-88).
THEOREM DependenciesInvariant == DependenciesSpec => []DepInv
<1> QED BY DepInvInit, DepInvStep, PTL DEF DependenciesSpec

-------------------------------------------------------------------------------
(* The theorems *)

\* The cache stays within its size and every variable in its type (api.py:413-461).
THEOREM DependenciesTyped == DependenciesSpec => []DependenciesTypeOK
<1>1. DepInv => DependenciesTypeOK
  BY DEF DepInv, CacheInv, Typed, DependenciesTypeOK
<1> QED BY <1>1, DependenciesInvariant, PTL

\* A route is only ever handed managers of its own caller (api.py:413-461).
THEOREM ManagersOfTheCaller == DependenciesSpec => []TenantOwnManager
<1>1. DepInv => TenantOwnManager
  BY DEF DepInv, ThreadInv, AtInv, CarriedAt, TenantOwnManager
<1> QED BY <1>1, DependenciesInvariant, PTL

\* An entry is not evicted between two statements of a dependency by fewer callers than
\* the cache has room for (api.py:429-461).
THEOREM EvictionTakesCapacity == DependenciesSpec => []EvictedOnlyByCapacity
<1>1. ASSUME DepInv, NEW t \in Threads, at[t] \in {"probe", "store", "fetch"},
             ~Cached(request[t].key)
      PROVE  Cardinality(request[t].used) >= IF request[t].held THEN Capacity ELSE 1
  <2> DEFINE S == request[t].used
  <2>1. IsFiniteSet(S) /\ IF request[t].held THEN Capacity <= Cardinality(S) ELSE S # {}
    BY <1>1, Here DEF AtInv, HeldAt
  <2>2. Cardinality(S) \in Nat /\ Capacity \in Nat /\ (S # {} => Cardinality(S) # 0)
    BY <2>1, FS_CardinalityType, FS_EmptySet, DependenciesAssumption
  <2> HIDE DEF S
  <2>3. CASE request[t].held
    BY <2>1, <2>2, <2>3 DEF S
  <2>4. CASE ~request[t].held
    <3>1. Cardinality(S) >= 1
      BY <2>1, <2>2, <2>4
    <3> QED BY <2>4, <3>1 DEF S
  <2> QED BY <2>3, <2>4
<1>2. DepInv => EvictedOnlyByCapacity
  BY <1>1 DEF EvictedOnlyByCapacity
<1> QED BY <1>2, DependenciesInvariant, PTL

\* A route that depends on a manager goes without one only by a race of first requests
\* of one key (api.py:437-461).
THEOREM NoneOnlyByRace == DependenciesSpec => []UnbuiltOnlyIfRaced
<1>1. ASSUME DepInv, NEW t \in Threads, at[t] = "ready",
             request[t].got = [n \in Needs |-> NoManager]
      PROVE  request[t].raced
  <2>1. request[t].raced \/ \E n \in Needs : request[t].got[n] # NoManager
    BY <1>1, Here DEF AtInv, BuiltAt
  <2> QED BY <1>1, <2>1
<1>2. DepInv => UnbuiltOnlyIfRaced
  BY <1>1 DEF UnbuiltOnlyIfRaced
<1> QED BY <1>2, DependenciesInvariant, PTL

\* A request goes to Appwrite without its timeout only when another call wrapped or put
\* back the function meanwhile (manager.py:58-88).
THEOREM UntimedOnlyByOverlap == DependenciesSpec => []UntimedOnlyIfMixed
<1>1. DepInv => UntimedOnlyIfMixed
  BY DEF DepInv, ThreadInv, AtInv, TimedAt, UntimedOnlyIfMixed
<1> QED BY <1>1, DependenciesInvariant, PTL

=================================================================================
