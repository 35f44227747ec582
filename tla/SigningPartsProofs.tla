------------------------- MODULE SigningPartsProofs -------------------------
(***************************************************************************)
(* Proofs about two parts of the sign path that no module composes: the    *)
(* bundled cache store (BoundedCache), and the check runners of fund       *)
(* binding, swap and request whitelisting (PolicyChecks). Both rest on     *)
(* what Filter keeps of a sequence.                                        *)
(***************************************************************************)
EXTENDS BoundedCache, PolicyChecks, FiniteSetTheorems, SequenceTheorems, TLAPS

-----------------------------------------------------------------------------
(* Numbers, positions and Filter.                                          *)

\* A nonempty set of naturals has a least element: what takes the place of
\* induction for the ranks of positions.
LEMMA LeastNumber ==
  ASSUME NEW T \in SUBSET Nat, T # {}
  PROVE  \E x \in T : \A y \in T : x <= y
<1>. DEFINE Below == {0..n : n \in T}
<1>1. PICK n0 \in T : TRUE
  OBVIOUS
<1>2. Below \subseteq FiniteSubsetsOf(Nat)
  <2>1. ASSUME NEW n \in Nat PROVE 0..n \in SUBSET Nat /\ IsFiniteSet(0..n)
    BY <2>1, FS_Interval
  <2>. QED
    BY <2>1 DEF FiniteSubsetsOf
<1>3. 0..n0 \in Below
  BY <1>1
<1>4. \E X \in Below : \A Y \in Below : ~(<<Y, X>> \in StrictSubsetOrdering(Nat))
  <2>. HIDE DEF Below
  <2>. QED
    BY <1>2, <1>3, FS_StrictSubsetOrderingWellFounded, WFMin
<1>5. PICK x \in T : \A Y \in Below : ~(<<Y, 0..x>> \in StrictSubsetOrdering(Nat))
  BY <1>4
<1>6. ASSUME NEW y \in T, y < x PROVE FALSE
  <2>0. x \in Nat /\ y \in Nat
    OBVIOUS
  <2>1. 0..y \subseteq 0..x /\ x \in 0..x /\ x \notin 0..y
    BY <1>6, <2>0
  <2>2. 0..y \in Below /\ 0..y \in SUBSET Nat /\ 0..x \in SUBSET Nat
    OBVIOUS
  <2>. QED
    BY <1>5, <2>1, <2>2 DEF StrictSubsetOrdering
<1>. QED
  BY <1>5, <1>6

\* The positions kept have the ranks 1 to their number, each once and in their
\* order.
LEMMA Ranks ==
  ASSUME NEW n \in Nat, NEW P \in SUBSET (1..n)
  PROVE  /\ IsFiniteSet(P) /\ Cardinality(P) \in Nat
         /\ \A i \in 0..n : Rank(P, i) \in 0..Cardinality(P)
         /\ \A i \in 0..n, j \in P : i < j => Rank(P, i) < Rank(P, j)
         /\ \A j \in 1..Cardinality(P) : \E i \in P : Rank(P, i) = j
<1>0. ASSUME NEW k \in P PROVE k \in Int /\ 1 <= k /\ k <= n
  OBVIOUS
<1>1. IsFiniteSet(P) /\ Cardinality(P) \in Nat
  <2>1. IsFiniteSet(1..n)
    BY FS_Interval
  <2>2. IsFiniteSet(P)
    BY <2>1, FS_Subset
  <2>. QED
    BY <2>2, FS_CardinalityType
<1>2. ASSUME NEW i \in 0..n
      PROVE  /\ UpTo(P, i) \in SUBSET P /\ IsFiniteSet(UpTo(P, i))
             /\ Rank(P, i) \in 0..Cardinality(P)
  <2>1. UpTo(P, i) \in SUBSET P
    BY DEF UpTo
  <2>2. /\ IsFiniteSet(UpTo(P, i)) /\ Rank(P, i) <= Cardinality(P)
    BY <1>1, <2>1, FS_Subset DEF Rank
  <2>3. Rank(P, i) \in Nat
    BY <2>2, FS_CardinalityType DEF Rank
  <2>. QED
    BY <1>1, <2>1, <2>2, <2>3
<1>3. ASSUME NEW i \in 0..n, NEW j \in P, i < j PROVE Rank(P, i) < Rank(P, j)
  <2>1. j \in 0..n /\ UpTo(P, i) \in SUBSET UpTo(P, j)
    <3>1. ASSUME NEW k \in P, k <= i PROVE k <= j
      BY <1>0, <1>3, <3>1
    <3>2. j \in 0..n
      BY <1>0
    <3>. QED
      BY <3>1, <3>2, Zenon DEF UpTo
  <2>2. j \in UpTo(P, j) /\ j \notin UpTo(P, i)
    BY <1>0, <1>3 DEF UpTo
  <2>3. IsFiniteSet(UpTo(P, j))
    BY <1>2, <2>1
  <2>4. Rank(P, i) <= Rank(P, j) /\ Rank(P, i) # Rank(P, j)
    BY <2>1, <2>2, <2>3, FS_Subset DEF Rank
  <2>. QED
    BY <1>1, <1>2, <2>1, <2>4
<1>4. ASSUME NEW j \in 1..Cardinality(P) PROVE \E i \in P : Rank(P, i) = j
  <2>. DEFINE T == {i \in 0..n : Rank(P, i) >= j}
  <2>1. T # {}
    <3>1. UpTo(P, n) = P
      BY <1>0 DEF UpTo
    <3>2. n \in 0..n /\ Rank(P, n) = Cardinality(P)
      BY <3>1 DEF Rank
    <3>. QED
      BY <1>1, <3>2
  <2>2. PICK i \in T : \A y \in T : i <= y
    <3>. T \in SUBSET Nat
      OBVIOUS
    <3>. HIDE DEF T
    <3>. QED
      BY <2>1, LeastNumber
  <2>3. i # 0
    <3>1. UpTo(P, 0) = {}
      <4>1. ASSUME NEW k \in P PROVE ~(k <= 0)
        BY <1>0
      <4>. QED
        BY <4>1, Zenon DEF UpTo
    <3>2. Rank(P, 0) = 0
      BY <3>1, FS_EmptySet DEF Rank
    <3>. QED
      BY <1>1, <3>2
  <2>4. i-1 \in 0..n /\ i \in 0..n
    BY <2>2, <2>3
  <2>5. Rank(P, i) \in Nat /\ Rank(P, i-1) \in Nat
    BY <1>1, <1>2, <2>4
  <2>6. Rank(P, i-1) < j /\ Rank(P, i) >= j
    BY <1>1, <2>2, <2>4, <2>5
  <2>7. i \in P
    <3>1. i \notin P => UpTo(P, i) = UpTo(P, i-1)
      <4>1. ASSUME NEW k \in P, k # i PROVE k <= i <=> k <= i-1
        BY <1>0, <2>4, <4>1
      <4>. QED
        BY <4>1 DEF UpTo
    <3>. QED
      BY <1>1, <2>5, <2>6, <3>1 DEF Rank
  <2>8. UpTo(P, i) = UpTo(P, i-1) \cup {i} /\ i \notin UpTo(P, i-1)
    <3>1. ASSUME NEW k \in P PROVE k <= i <=> k <= i-1 \/ k = i
      BY <1>0, <2>4, <3>1
    <3>. QED
      <4>1. ~(i <= i - 1)
        BY <2>4
      <4>. QED
        BY <2>7, <3>1, <4>1, Zenon DEF UpTo
  <2>9. Rank(P, i) = Rank(P, i-1) + 1
    BY <1>2, <2>4, <2>8, FS_AddElement DEF Rank
  <2>. QED
    BY <1>1, <2>5, <2>6, <2>7, <2>9
<1>. QED
  BY <1>1, <1>2, <1>3, <1>4

\* What Filter returns (Array.prototype.filter): as many items as positions are
\* kept, of those positions, in their order.
THEOREM FilterProperties ==
  ASSUME NEW S, NEW s \in Seq(S), NEW P \in SUBSET (1..Len(s))
  PROVE  /\ Filter(s, P) \in Seq(S)
         /\ IsFiniteSet(P) /\ Len(Filter(s, P)) = Cardinality(P) /\ Cardinality(P) \in Nat
         /\ \E h \in [1..Len(Filter(s, P)) -> P] :
              /\ \A j \in 1..Len(Filter(s, P)) : Filter(s, P)[j] = s[h[j]]
              /\ \A i, j \in 1..Len(Filter(s, P)) : i < j => h[i] < h[j]
              /\ \A i \in P : \E j \in 1..Len(Filter(s, P)) : h[j] = i
<1>. DEFINE N == Cardinality(P)
            h == [j \in 1..N |-> Position(P, j)]
<1>0. Len(s) \in Nat
  OBVIOUS
<1>1. /\ IsFiniteSet(P) /\ N \in Nat
      /\ \A i \in 0..Len(s) : Rank(P, i) \in 0..N
      /\ \A i \in 0..Len(s), j \in P : i < j => Rank(P, i) < Rank(P, j)
      /\ \A j \in 1..N : \E i \in P : Rank(P, i) = j
  BY <1>0, Ranks
<1>2. \A j \in 1..N : Position(P, j) \in P /\ Rank(P, Position(P, j)) = j
  BY <1>1 DEF Position
<1>. HIDE DEF N
<1>3. h \in [1..N -> P]
  BY <1>2
<1>4. /\ Filter(s, P) \in Seq(S) /\ Len(Filter(s, P)) = N
      /\ \A j \in 1..N : Filter(s, P)[j] = s[h[j]]
  <2>1. Filter(s, P) = [j \in 1..N |-> s[Position(P, j)]]
    BY DEF Filter, N
  <2>2. \A j \in 1..N : s[Position(P, j)] \in S
    BY <1>0, <1>2, ElementOfSeq
  <2>3. Filter(s, P) \in [1..N -> S]
    BY <2>1, <2>2
  <2>4. N \in Nat
    BY <1>1
  <2>. QED
    BY <2>1, <2>3, <2>4
<1>5. ASSUME NEW i \in 1..N, NEW j \in 1..N, i < j PROVE h[i] < h[j]
  <2>1. h[i] \in P /\ h[j] \in P /\ Rank(P, h[i]) = i /\ Rank(P, h[j]) = j
    BY <1>2
  <2>2. h[i] \in 1..Len(s) /\ h[j] \in 1..Len(s)
    BY <2>1
  <2>3. ~(h[j] < h[i]) /\ h[i] # h[j]
    BY <1>0, <1>1, <1>5, <2>1, <2>2
  <2>. QED
    BY <1>0, <2>2, <2>3
<1>6. ASSUME NEW i \in P PROVE \E j \in 1..N : h[j] = i
  <2>1. i \in 1..Len(s) /\ i \in 0..Len(s) /\ 0 \in 0..Len(s) /\ 0 < i
    BY <1>0
  <2>2. Rank(P, i) \in 1..N
    BY <1>1, <2>1
  <2>3. h[Rank(P, i)] \in P /\ Rank(P, h[Rank(P, i)]) = Rank(P, i)
    BY <1>2, <2>2
  <2>4. h[Rank(P, i)] \in 1..Len(s)
    BY <2>3
  <2>5. h[Rank(P, i)] = i
    <3>. HIDE DEF h
    <3>. QED
      BY <1>0, <1>1, <2>1, <2>2, <2>3, <2>4
  <2>. QED
    BY <2>2, <2>5
<1>7. IsFiniteSet(P) /\ Cardinality(P) = N /\ N \in Nat
  BY <1>1 DEF N
<1>. DEFINE f == Filter(s, P)
<1>. HIDE DEF h, f
<1>8. f \in Seq(S) /\ Len(f) = N /\ Len(f) = Cardinality(P) /\ IsFiniteSet(P) /\ Cardinality(P) \in Nat
  BY <1>4, <1>7 DEF f
<1>9. /\ h \in [1..Len(f) -> P]
      /\ \A j \in 1..Len(f) : f[j] = s[h[j]]
      /\ \A i, j \in 1..Len(f) : i < j => h[i] < h[j]
      /\ \A i \in P : \E j \in 1..Len(f) : h[j] = i
  BY <1>3, <1>4, <1>5, <1>6, <1>8 DEF f
<1>10. \E g \in [1..Len(f) -> P] :
         /\ \A j \in 1..Len(f) : f[j] = s[g[j]]
         /\ \A i, j \in 1..Len(f) : i < j => g[i] < g[j]
         /\ \A i \in P : \E j \in 1..Len(f) : g[j] = i
  BY <1>9, Zenon
<1>. QED
  BY <1>8, <1>10, Zenon DEF f

\* Filtering nothing out changes nothing.
LEMMA FilterAll ==
  ASSUME NEW S, NEW s \in Seq(S)
  PROVE  Filter(s, 1..Len(s)) = s
<1>. DEFINE n == Len(s)
            P == 1..Len(s)
<1>0. n \in Nat
  OBVIOUS
<1>1. Cardinality(P) = n
  BY <1>0, FS_Interval
<1>2. ASSUME NEW i \in P PROVE Rank(P, i) = i
  <2>1. UpTo(P, i) = 1..i
    <3>1. ASSUME NEW k \in P PROVE k \in 1..i <=> k <= i
      BY <1>0
    <3>2. 1..i \subseteq P
      BY <1>0
    <3>. QED
      BY <3>1, <3>2, Zenon DEF UpTo
  <2>. QED
    BY <1>0, <2>1, FS_Interval DEF Rank
<1>3. ASSUME NEW j \in P PROVE Position(P, j) = j
  BY <1>2, Zenon DEF Position
<1>4. Filter(s, P) = [j \in 1..n |-> s[j]]
  BY <1>1, <1>3 DEF Filter
<1>. QED
  BY <1>4

-----------------------------------------------------------------------------
(* The bundled cache store: its inductive invariant.                       *)

\* A Map has no key twice.
Distinct(m) == \A i, j \in DOMAIN m : m[i].key = m[j].key => i = j

\* What is found in f was already in m.
PartOf(f, m) ==
  /\ f \in Seq(Item) /\ Distinct(f)
  /\ \A i \in DOMAIN f : \E j \in DOMAIN m : f[i] = m[j]

\* Held, of any Map.
HeldIn(m) == [k \in Keys |->
  IF Has(m, k) THEN [value |-> At(m, k).value, expires |-> At(m, k).expiresAt] ELSE Absent]

\* The type of the store.
StoreTypeOK ==
  /\ map \in Seq(Item) /\ clock \in Nat
  /\ reading \in [Readers -> {Absent} \cup [key : Keys, raw : Values]]

\* No key is in the Map twice, and the Map is within its bound between calls.
StoreInv ==
  /\ StoreTypeOK
  /\ Distinct(map)
  /\ MaxEntries > 0 => Len(map) <= MaxEntries

\* The entry a Map finds at the key of one of its entries is that entry.
LEMMA AtUnique ==
  ASSUME NEW m \in Seq(Item), Distinct(m), NEW i \in DOMAIN m
  PROVE  Has(m, m[i].key) /\ At(m, m[i].key) = m[i]
BY DEF Has, At, Distinct

\* What a Map finds at a key it has is an entry of that key.
LEMMA HasAt ==
  ASSUME NEW m \in Seq(Item), NEW k, Has(m, k)
  PROVE  \E i \in DOMAIN m : m[i].key = k /\ At(m, k) = m[i]
BY DEF Has, At

\* What is left of a Map finds what the Map found.
LEMMA PartShrinks ==
  ASSUME NEW m \in Seq(Item), Distinct(m), NEW f, PartOf(f, m), NEW k, Has(f, k)
  PROVE  Has(m, k) /\ At(f, k) = At(m, k)
<1>1. PICK i \in DOMAIN f : f[i].key = k /\ At(f, k) = f[i]
  BY HasAt DEF PartOf
<1>2. PICK j \in DOMAIN m : f[i] = m[j]
  BY <1>1 DEF PartOf
<1>. QED
  BY <1>1, <1>2, AtUnique

\* What is left of a Map holds of a key what the Map held, or nothing.
LEMMA HeldShrinks ==
  ASSUME NEW m \in Seq(Item), Distinct(m), NEW f, PartOf(f, m), NEW k \in Keys
  PROVE  HeldIn(f)[k] \in {Absent, HeldIn(m)[k]}
<1>1. CASE Has(f, k)
  BY <1>1, PartShrinks DEF HeldIn
<1>2. CASE ~Has(f, k)
  BY <1>2 DEF HeldIn
<1>. QED
  BY <1>1, <1>2

\* Two removals, a sweep and then a trim, are a removal.
LEMMA PartOfPart ==
  ASSUME NEW m, NEW f, NEW g, PartOf(f, m), PartOf(g, f)
  PROVE  PartOf(g, m)
BY Zenon DEF PartOf

\* Filtering keeps what it should, in its order.
LEMMA FilterMap ==
  ASSUME NEW m \in Seq(Item), Distinct(m), NEW P \in SUBSET (DOMAIN m)
  PROVE  /\ PartOf(Filter(m, P), m)
         /\ Len(Filter(m, P)) <= Len(m)
         /\ Len(Filter(m, P)) = Len(m) => Filter(m, P) = m
         /\ \A i \in P : Has(Filter(m, P), m[i].key)
         /\ \A j \in DOMAIN Filter(m, P) : \E i \in P : Filter(m, P)[j] = m[i]
<1>. DEFINE f == Filter(m, P)
<1>0. DOMAIN m = 1..Len(m) /\ Len(m) \in Nat
  OBVIOUS
<1>1. /\ f \in Seq(Item) /\ IsFiniteSet(P)
      /\ Len(f) = Cardinality(P) /\ Cardinality(P) \in Nat
  BY <1>0, FilterProperties
<1>2. PICK h \in [1..Len(f) -> P] :
        /\ \A j \in 1..Len(f) : f[j] = m[h[j]]
        /\ \A i, j \in 1..Len(f) : i < j => h[i] < h[j]
        /\ \A i \in P : \E j \in 1..Len(f) : h[j] = i
  BY <1>0, FilterProperties
<1>. HIDE DEF f
<1>3. DOMAIN f = 1..Len(f) /\ Len(f) \in Nat
  BY <1>1
<1>4. ASSUME NEW i \in DOMAIN f, NEW j \in DOMAIN f, f[i].key = f[j].key PROVE i = j
  <2>1. h[i] \in DOMAIN m /\ h[j] \in DOMAIN m /\ f[i] = m[h[i]] /\ f[j] = m[h[j]]
    BY <1>2, <1>3
  <2>2. h[i] = h[j]
    BY <1>4, <2>1 DEF Distinct
  <2>3. h[i] \in Int /\ h[j] \in Int
    BY <1>0, <2>1
  <2>4. ~(i < j) /\ ~(j < i)
    BY <1>2, <1>3, <2>2, <2>3
  <2>. QED
    BY <1>3, <2>4
<1>5. PartOf(f, m)
  BY <1>1, <1>2, <1>3, <1>4 DEF PartOf, Distinct
<1>6. ASSUME NEW i \in P PROVE Has(f, m[i].key)
  BY <1>2, <1>3 DEF Has
<1>7. Len(f) <= Len(m) /\ (Len(f) = Len(m) => P = 1..Len(m))
  <2>. DEFINE n == Len(m)
              D == 1..n
  <2>1. IsFiniteSet(D) /\ Cardinality(D) = n
    <3>1. n \in Int /\ 1 \in Int /\ 1 <= n + 1
      BY <1>0
    <3>. HIDE DEF n
    <3>2. IsFiniteSet(D) /\ Cardinality(D) = IF 1 <= n THEN n - 1 + 1 ELSE 0
      BY <3>1, FS_Interval
    <3>. QED
      BY <3>1, <3>2
  <2>2. P \in SUBSET D
    BY <1>0
  <2>. HIDE DEF D
  <2>3. Cardinality(P) <= Cardinality(D) /\ (Cardinality(D) = Cardinality(P) => D = P)
    BY <2>1, <2>2, FS_Subset
  <2>. QED
    BY <1>1, <2>1, <2>3 DEF D
<1>8. Len(f) = Len(m) => f = m
  <2>2. Len(f) = Len(m) => P = 1..Len(m)
    BY <1>7
  <2>. QED
    BY <2>2, FilterAll DEF f
<1>9. \A j \in DOMAIN f : \E i \in P : f[j] = m[i]
  BY <1>2, <1>3
<1>. QED
  BY <1>5, <1>6, <1>7, <1>8, <1>9 DEF f

\* A delete of one key (rawDelete) takes that key and no other.
LEMMA WithoutMap ==
  ASSUME NEW m \in Seq(Item), Distinct(m), NEW k
  PROVE  /\ PartOf(Without(m, k), m)
         /\ Len(Without(m, k)) <= Len(m)
         /\ Has(m, k) => Len(Without(m, k)) < Len(m)
         /\ ~Has(m, k) => Without(m, k) = m
         /\ ~Has(Without(m, k), k)
         /\ \A i \in DOMAIN m : m[i].key # k => Has(Without(m, k), m[i].key)
<1>. DEFINE P == {i \in DOMAIN m : m[i].key # k}
<1>0. P \in SUBSET (DOMAIN m) /\ Without(m, k) = Filter(m, P)
  BY DEF Without
<1>1. DOMAIN m = 1..Len(m) /\ Len(m) \in Nat
  OBVIOUS
<1>2. ~Has(m, k) => P = 1..Len(m)
  BY <1>1 DEF Has
<1>3. ~Has(Without(m, k), k)
  BY <1>0, FilterMap DEF Has
<1>4. Has(m, k) => Without(m, k) # m
  BY <1>3
<1>5. PartOf(Filter(m, P), m) /\ Len(Filter(m, P)) <= Len(m)
        /\ (Len(Filter(m, P)) = Len(m) => Filter(m, P) = m)
        /\ (\A i \in P : Has(Filter(m, P), m[i].key))
  <2>. HIDE DEF P
  <2>. QED
    BY <1>0, FilterMap
<1>6. Len(Filter(m, P)) \in Nat
  BY <1>5 DEF PartOf
<1>7. ASSUME NEW i \in DOMAIN m, m[i].key # k PROVE Has(Without(m, k), m[i].key)
  BY <1>0, <1>5, <1>7
<1>8. ~Has(m, k) => Without(m, k) = m
  BY <1>0, <1>2, FilterAll
<1>. HIDE DEF P
<1>9. Has(m, k) => Len(Without(m, k)) < Len(m)
  BY <1>0, <1>1, <1>4, <1>5, <1>6
<1>. QED
  BY <1>0, <1>3, <1>5, <1>7, <1>8, <1>9

\* A sweep (sweepExpired) keeps every live entry and no expired one.
LEMMA SweepMap ==
  ASSUME NEW m \in Seq(Item), Distinct(m), NEW now
  PROVE  /\ PartOf(sweepExpired(m, now), m)
         /\ Len(sweepExpired(m, now)) <= Len(m)
         /\ Len(sweepExpired(m, now)) = Len(m) => sweepExpired(m, now) = m
         /\ \A i \in DOMAIN m : ~Expired(m[i], now) => Has(sweepExpired(m, now), m[i].key)
         /\ \A j \in DOMAIN sweepExpired(m, now) : ~Expired(sweepExpired(m, now)[j], now)
<1>. DEFINE P == {i \in DOMAIN m : ~Expired(m[i], now)}
<1>0. P \in SUBSET (DOMAIN m) /\ sweepExpired(m, now) = Filter(m, P)
  BY DEF sweepExpired
<1>1. ASSUME NEW i \in DOMAIN m, ~Expired(m[i], now) PROVE i \in P
  BY <1>1
<1>2. \A i \in P : ~Expired(m[i], now)
  OBVIOUS
<1>. HIDE DEF P
<1>3. /\ PartOf(Filter(m, P), m) /\ Len(Filter(m, P)) <= Len(m)
      /\ Len(Filter(m, P)) = Len(m) => Filter(m, P) = m
      /\ \A i \in P : Has(Filter(m, P), m[i].key)
      /\ \A j \in DOMAIN Filter(m, P) : \E i \in P : Filter(m, P)[j] = m[i]
  BY <1>0, FilterMap
<1>. QED
  BY <1>0, <1>1, <1>2, <1>3

\* When one entry too many is there, the oldest goes.
LEMMA TrimMap ==
  ASSUME NEW m \in Seq(Item), Distinct(m)
  PROVE  /\ PartOf(trimToBound(m), m)
         /\ (MaxEntries = 0 \/ Len(m) <= MaxEntries) => trimToBound(m) = m
         /\ (MaxEntries > 0 /\ Len(m) = MaxEntries + 1) =>
              /\ Len(trimToBound(m)) = MaxEntries
              /\ DOMAIN trimToBound(m) = 1..MaxEntries
              /\ \A i \in 1..MaxEntries : trimToBound(m)[i] = m[i + 1]
<1>0. DOMAIN m = 1..Len(m) /\ Len(m) \in Nat /\ MaxEntries \in Nat
  BY BoundIsNat
<1>1. CASE MaxEntries = 0 \/ Len(m) <= MaxEntries
  <2>1. trimToBound(m) = m
    BY <1>1 DEF trimToBound
  <2>2. PartOf(m, m)
    BY DEF PartOf
  <2>3. ~(MaxEntries > 0 /\ Len(m) = MaxEntries + 1)
    <3>. DEFINE n == Len(m)
    <3>1. n \in Nat /\ (MaxEntries = 0 \/ n <= MaxEntries)
      BY <1>0, <1>1
    <3>. HIDE DEF n
    <3>2. ~(MaxEntries > 0 /\ n = MaxEntries + 1)
      BY <1>0, <3>1
    <3>. QED
      BY <3>2 DEF n
  <2>. QED
    BY <2>1, <2>2, <2>3
<1>2. CASE MaxEntries > 0 /\ Len(m) > MaxEntries
  <2>. DEFINE a == Len(m) - MaxEntries + 1
              f == SubSeq(m, a, Len(m))
  <2>1. a \in 1..Len(m)
    BY <1>0, <1>2
  <2>2. trimToBound(m) = f
    BY <1>0, <1>2 DEF trimToBound
  <2>3. \A i \in a..Len(m) : m[i] \in Item
    BY <1>0, <2>1, ElementOfSeq
  <2>4. /\ f \in Seq(Item) /\ Len(f) = Len(m) - a + 1
        /\ \A i \in 1..(Len(m) - a + 1) : f[i] = m[a + i - 1]
    <3>. HIDE DEF a
    <3>. QED
      BY <1>0, <2>1, <2>3, SubSeqProperties
  <2>. HIDE DEF f
  <2>5. DOMAIN f = 1..MaxEntries /\ Len(f) = MaxEntries
    BY <1>0, <2>4
  <2>6. ASSUME NEW i \in DOMAIN f PROVE a + i - 1 \in DOMAIN m /\ f[i] = m[a + i - 1]
    BY <1>0, <1>2, <2>4, <2>5
  <2>7. Distinct(f)
    <3>. SUFFICES ASSUME NEW i \in DOMAIN f, NEW j \in DOMAIN f, f[i].key = f[j].key
                  PROVE  i = j
      BY DEF Distinct
    <3>1. a + i - 1 = a + j - 1
      BY <2>6 DEF Distinct
    <3>. QED
      BY <1>0, <2>5, <3>1
  <2>8. PartOf(f, m)
    BY <2>4, <2>6, <2>7 DEF PartOf
  <2>9. Len(m) = MaxEntries + 1 => \A i \in 1..MaxEntries : f[i] = m[i + 1]
    <3>. SUFFICES ASSUME Len(m) = MaxEntries + 1, NEW i \in 1..MaxEntries
                  PROVE  f[i] = m[i + 1]
      OBVIOUS
    <3>1. f[i] = m[a + i - 1]
      BY <2>5, <2>6
    <3>. QED
      BY <1>0, <3>1
  <2>10. ~(MaxEntries = 0 \/ Len(m) <= MaxEntries)
    BY <1>0, <1>2
  <2>. QED
    BY <2>2, <2>5, <2>8, <2>9, <2>10
<1>3. (MaxEntries = 0 \/ Len(m) <= MaxEntries) \/ (MaxEntries > 0 /\ Len(m) > MaxEntries)
  BY <1>0
<1>. QED
  BY <1>1, <1>2, <1>3, Zenon

\* A write puts its key last, in place of the entry the key had, and leaves
\* every other key alone (rawSet, up to its sweep).
LEMMA InsertedMap ==
  ASSUME StoreInv, NEW k \in Keys, NEW v \in Values, NEW ttl \in Lives
  PROVE  LET m == Inserted(k, v, ttl)
             item == [key |-> k, value |-> v, expiresAt |-> clock + ttl]
         IN  /\ m \in Seq(Item) /\ Distinct(m)
             /\ HeldIn(m)[k] = [value |-> v, expires |-> clock + ttl]
             /\ \A other \in Keys \ {k} : HeldIn(m)[other] \in {Absent, Held[other]}
             /\ Has(m, k)
             /\ \A i \in DOMAIN map : Has(m, map[i].key)
             /\ Has(map, k) => Len(m) <= Len(map)
             /\ ~Has(map, k) => m = Append(map, item)
<1>. DEFINE w == Without(map, k)
            item == [key |-> k, value |-> v, expiresAt |-> clock + ttl]
            m == Append(w, item)
<1>0. map \in Seq(Item) /\ Distinct(map) /\ clock \in Nat /\ ttl \in Int /\ Held = HeldIn(map)
  BY LivesAreInt DEF StoreInv, StoreTypeOK, Held, HeldIn
<1>1. m = Inserted(k, v, ttl)
  BY DEF Inserted
<1>2. /\ PartOf(w, map) /\ Len(w) <= Len(map)
      /\ Has(map, k) => Len(w) < Len(map)
      /\ ~Has(map, k) => w = map
      /\ ~Has(w, k)
      /\ \A i \in DOMAIN map : map[i].key # k => Has(w, map[i].key)
  BY <1>0, WithoutMap
<1>3. item \in Item
  BY <1>0 DEF Item
<1>4. w \in Seq(Item) /\ Distinct(w)
  BY <1>2 DEF PartOf
<1>. HIDE DEF w, item
<1>5. /\ m \in Seq(Item) /\ DOMAIN m = 1..(Len(w) + 1) /\ Len(m) = Len(w) + 1
      /\ \A i \in DOMAIN w : m[i] = w[i]
      /\ m[Len(w) + 1] = item
      /\ DOMAIN w = 1..Len(w) /\ Len(w) \in Nat
  BY <1>3, <1>4
<1>. HIDE DEF m
<1>6. item.key = k /\ item.value = v /\ item.expiresAt = clock + ttl
  BY DEF item
<1>7. ASSUME NEW i \in DOMAIN w PROVE m[i].key # k /\ m[i] = w[i] /\ i \in DOMAIN m
  BY <1>2, <1>5 DEF Has
<1>8. ASSUME NEW i \in DOMAIN m PROVE i \in DOMAIN w \/ i = Len(w) + 1
  BY <1>5
<1>9. Distinct(m)
  BY <1>4, <1>5, <1>6, <1>7, <1>8 DEF Distinct
<1>10. Has(m, k) /\ At(m, k) = item
  <2>1. Len(w) + 1 \in DOMAIN m
    BY <1>5
  <2>. QED
    BY <1>5, <1>6, <1>9, <2>1, AtUnique
<1>11. ASSUME NEW other \in Keys \ {k}, Has(m, other)
       PROVE  Has(w, other) /\ At(m, other) = At(w, other)
  <2>1. PICK i \in DOMAIN m : m[i].key = other
    BY <1>11 DEF Has
  <2>2. i \in DOMAIN w /\ w[i].key = other
    BY <1>5, <1>6, <1>7, <1>8, <2>1
  <2>. QED
    BY <1>4, <1>5, <1>7, <1>9, <2>1, <2>2, AtUnique
<1>12. ASSUME NEW other \in Keys \ {k} PROVE HeldIn(m)[other] \in {Absent, Held[other]}
  <2>1. CASE Has(m, other)
    BY <1>0, <1>2, <1>11, <2>1, PartShrinks DEF HeldIn
  <2>2. CASE ~Has(m, other)
    BY <2>2 DEF HeldIn
  <2>. QED
    BY <2>1, <2>2
<1>13. HeldIn(m)[k] = [value |-> v, expires |-> clock + ttl]
  BY <1>6, <1>10 DEF HeldIn
<1>14. ASSUME NEW i \in DOMAIN map PROVE Has(m, map[i].key)
  <2>1. CASE map[i].key = k
    BY <1>10, <2>1
  <2>2. CASE map[i].key # k
    <3>1. Has(w, map[i].key)
      BY <1>2, <2>2
    <3>. QED
      BY <1>7, <3>1 DEF Has
  <2>. QED
    BY <2>1, <2>2
<1>15. Has(map, k) => Len(m) <= Len(map)
  BY <1>0, <1>2, <1>5
<1>16. ~Has(map, k) => m = Append(map, item)
  BY <1>2 DEF m
<1>. QED
  BY <1>1, <1>5, <1>9, <1>10, <1>12, <1>13, <1>14, <1>15, <1>16 DEF item

\* What a write leaves in the Map: at most what was inserted, within the bound.
LEMMA SetMap ==
  ASSUME StoreInv, NEW k \in Keys, NEW v \in Values, NEW ttl \in Lives, set(k, v, ttl)
  PROVE  /\ PartOf(map', Inserted(k, v, ttl))
         /\ MaxEntries > 0 => Len(map') <= MaxEntries
<1>. DEFINE m == Inserted(k, v, ttl)
            s == sweepExpired(m, clock)
<1>0. map \in Seq(Item) /\ MaxEntries \in Nat /\ (MaxEntries > 0 => Len(map) <= MaxEntries)
  BY BoundIsNat DEF StoreInv, StoreTypeOK
<1>1. /\ m \in Seq(Item) /\ Distinct(m)
      /\ Has(map, k) => Len(m) <= Len(map)
      /\ ~Has(map, k) => m = Append(map, [key |-> k, value |-> v, expiresAt |-> clock + ttl])
  BY InsertedMap
<1>2. map' = IF MaxEntries > 0 /\ Len(m) > MaxEntries THEN trimToBound(s) ELSE m
  BY DEF set
<1>3. ~Has(map, k) => Len(m) = Len(map) + 1
  BY <1>0, <1>1
<1>. HIDE DEF m
<1>4. Len(m) \in Nat /\ Len(map) \in Nat
  BY <1>0, <1>1
<1>5. MaxEntries > 0 => Len(m) <= MaxEntries + 1
  BY <1>0, <1>1, <1>3, <1>4
<1>6. CASE MaxEntries > 0 /\ Len(m) > MaxEntries
  <2>1. PartOf(s, m) /\ Len(s) <= Len(m)
    BY <1>1, SweepMap
  <2>2. s \in Seq(Item) /\ Distinct(s) /\ map' = trimToBound(s)
    BY <1>2, <1>6, <2>1 DEF PartOf
  <2>. HIDE DEF s
  <2>3. Len(s) \in Nat
    BY <2>2
  <2>4. PartOf(map', s)
    BY <2>2, TrimMap
  <2>5. CASE Len(s) <= MaxEntries
    <3>1. map' = s
      BY <2>2, <2>5, TrimMap
    <3>2. Len(map') <= MaxEntries
      BY <2>5, <3>1
    <3>. QED
      BY <2>1, <3>1, <3>2 DEF m
  <2>6. CASE Len(s) = MaxEntries + 1
    <3>1. Len(map') = MaxEntries
      BY <1>6, <2>2, <2>6, TrimMap
    <3>2. Len(map') <= MaxEntries
      BY <1>0, <3>1
    <3>. QED
      BY <2>1, <2>4, <3>2, PartOfPart DEF m
  <2>7. Len(s) <= MaxEntries \/ Len(s) = MaxEntries + 1
    BY <1>0, <1>4, <1>5, <1>6, <2>1, <2>3
  <2>. QED
    BY <2>5, <2>6, <2>7
<1>7. CASE ~(MaxEntries > 0 /\ Len(m) > MaxEntries)
  <2>1. map' = m
    BY <1>2, <1>7
  <2>2. PartOf(m, m)
    BY <1>1 DEF PartOf
  <2>3. MaxEntries > 0 => Len(map') <= MaxEntries
    BY <1>0, <1>4, <1>7, <2>1
  <2>. QED
    BY <2>1, <2>2, <2>3 DEF m
<1>. QED
  BY <1>6, <1>7

\* A delete keeps the bound.
LEMMA WithoutStore ==
  ASSUME StoreInv, NEW k, map' = Without(map, k)
  PROVE  /\ PartOf(map', map)
         /\ MaxEntries > 0 => Len(map') <= MaxEntries
<1>1. PartOf(map', map) /\ Len(map') <= Len(map)
  BY WithoutMap DEF StoreInv, StoreTypeOK
<1>2. Len(map) \in Nat /\ Len(map') \in Nat /\ MaxEntries \in Nat
  BY <1>1, BoundIsNat DEF StoreInv, StoreTypeOK, PartOf
<1>. QED
  BY <1>1, <1>2 DEF StoreInv

\* The store begins empty.
LEMMA StoreInitial == CacheInit => StoreInv
<1>1. <<>> \in Seq(Item) /\ Len(<<>>) = 0 /\ DOMAIN <<>> = {}
  OBVIOUS
<1>. QED
  BY <1>1, BoundIsNat DEF CacheInit, StoreInv, StoreTypeOK, Distinct

\* Every operation of the store keeps its invariant: a lookup that deletes, a
\* purge, a delete and a write past the bound.
LEMMA StoreStep == StoreInv /\ [CacheNext]_cacheVars => StoreInv'
<1>. SUFFICES ASSUME StoreInv, [CacheNext]_cacheVars PROVE StoreInv'
  OBVIOUS
<1>. USE DEF StoreInv, StoreTypeOK
<1>1. ASSUME NEW r \in Readers, NEW k \in Keys, rawGet(r, k) PROVE StoreInv'
  <2>1. CASE Expired(At(map, k), clock)
    BY <1>1, <2>1, WithoutStore DEF rawGet, PartOf
  <2>2. CASE ~Expired(At(map, k), clock)
    <3>1. At(map, k).value \in Values
      <4>1. PICK i \in DOMAIN map : At(map, k) = map[i]
        BY <1>1, HasAt DEF rawGet
      <4>2. map[i] \in Item
        BY <4>1
      <4>. QED
        BY <4>1, <4>2 DEF Item
    <3>. QED
      BY <1>1, <2>2, <3>1 DEF rawGet, Distinct
  <2>. QED
    BY <2>1, <2>2
<1>2. ASSUME NEW r \in Readers, getReturns(r) PROVE StoreInv'
  BY <1>2 DEF getReturns, Distinct
<1>3. ASSUME NEW r \in Readers, getPurges(r) PROVE StoreInv'
  BY <1>3, WithoutStore DEF getPurges, PartOf
<1>4. ASSUME NEW k \in Keys, delete(k) PROVE StoreInv'
  BY <1>4, WithoutStore DEF delete, PartOf
<1>5. ASSUME NEW k \in Keys, NEW v \in Values, NEW ttl \in Lives, set(k, v, ttl) PROVE StoreInv'
  <2>1. PartOf(map', Inserted(k, v, ttl)) /\ (MaxEntries > 0 => Len(map') <= MaxEntries)
    BY <1>5, SetMap
  <2>2. UNCHANGED <<clock, reading>>
    BY <1>5 DEF set
  <2>. QED
    BY <2>1, <2>2 DEF PartOf
<1>6. CASE CacheTick
  BY <1>6 DEF CacheTick, Distinct
<1>7. CASE UNCHANGED cacheVars
  BY <1>7 DEF cacheVars, Distinct
<1>. QED
  BY <1>1, <1>2, <1>3, <1>4, <1>5, <1>6, <1>7 DEF CacheNext

\* Whatever gets and sets are under way, the Map never has a key twice and is
\* within its bound between two steps (InMemoryCache, rawSet).
THEOREM StoreCorrect == CacheSpec => []StoreInv
<1>. QED
  BY StoreInitial, StoreStep, PTL DEF CacheSpec

-----------------------------------------------------------------------------
(* The bundled cache store implements its promise.                         *)

\* Held is what the Map holds, now and after the step.
LEMMA HeldNow == Held = HeldIn(map) /\ Held' = HeldIn(map')
BY DEF Held, HeldIn, Has, At

\* What is left of the Map is a forgetting of what it held.
LEMMA ShrinkForgets ==
  ASSUME StoreInv, PartOf(map', map)
  PROVE  Promise!Forget
<1>1. map \in Seq(Item) /\ Distinct(map)
  BY DEF StoreInv, StoreTypeOK
<1>2. ASSUME NEW k \in Keys PROVE Held'[k] \in {Absent, Held[k]}
  BY <1>1, HeldNow, HeldShrinks
<1>3. Held' = [k \in Keys |-> Held'[k]]
  BY HeldNow DEF HeldIn
<1>. HIDE DEF Held
<1>4. Held' \in [Keys -> {Absent} \cup {Held[k] : k \in Keys}]
  BY <1>2, <1>3
<1>. QED
  BY <1>2, <1>4 DEF Promise!Forget

\* A write of the store is a write of the promise: the key holds the new value
\* or is trimmed away at once, and other keys at most forget.
LEMMA SetWrites ==
  ASSUME StoreInv, NEW k \in Keys, NEW v \in Values, NEW ttl \in Lives, set(k, v, ttl)
  PROVE  Promise!Write(k, v, ttl)
<1>. DEFINE m == Inserted(k, v, ttl)
            fresh == [value |-> v, expires |-> clock + ttl]
<1>1. /\ m \in Seq(Item) /\ Distinct(m)
      /\ HeldIn(m)[k] = fresh
      /\ \A other \in Keys \ {k} : HeldIn(m)[other] \in {Absent, Held[other]}
  BY InsertedMap
<1>2. PartOf(map', m)
  BY SetMap
<1>. HIDE DEF m
<1>3. ASSUME NEW other \in Keys PROVE Held'[other] \in {Absent, HeldIn(m)[other]}
  BY <1>1, <1>2, HeldNow, HeldShrinks
<1>4. ASSUME NEW other \in Keys
      PROVE  Held'[other] \in {Absent, IF other = k THEN fresh ELSE Held[other]}
  BY <1>1, <1>3
<1>5. Held' = [other \in Keys |-> Held'[other]]
  BY HeldNow DEF HeldIn
<1>. HIDE DEF Held, fresh
<1>6. Held' \in [Keys -> {Absent} \cup {Held[other] : other \in Keys} \cup {fresh}]
  BY <1>4, <1>5
<1>. QED
  BY <1>4, <1>6 DEF Promise!Write, Promise!Fresh, fresh

\* An empty Map promises nothing.
LEMMA PromiseInit == CacheInit => Promise!Init
<1>. SUFFICES ASSUME CacheInit PROVE Promise!Init
  OBVIOUS
<1>1. \A k \in Keys : ~Has(map, k)
  BY DEF CacheInit, Has
<1>. QED
  BY <1>1 DEF CacheInit, Promise!Init, Held

\* Every step of the store is a step of the promise, or none: a lookup finds
\* only what is held and has not expired, and every removal is a forgetting.
LEMMA PromiseStep ==
  StoreInv /\ [CacheNext]_cacheVars => [Promise!Next]_<<Held, reading, clock>>
<1>. SUFFICES ASSUME StoreInv, [CacheNext]_cacheVars
              PROVE  Promise!Next \/ UNCHANGED <<Held, reading, clock>>
  OBVIOUS
<1>0. map \in Seq(Item) /\ Distinct(map) /\ PartOf(map, map)
  BY DEF StoreInv, StoreTypeOK, PartOf
<1>u. map' = map => UNCHANGED Held
  BY HeldNow
<1>f. map' = map => Promise!Forget
  BY <1>0, ShrinkForgets
<1>w. ASSUME NEW k, map' = Without(map, k) PROVE Promise!Forget
  BY <1>w, WithoutStore, ShrinkForgets
<1>. HIDE DEF Held
<1>1. ASSUME NEW r \in Readers, NEW k \in Keys, rawGet(r, k) PROVE Promise!Next
  <2>1. CASE Expired(At(map, k), clock)
    BY <1>1, <1>w, <2>1 DEF rawGet, Promise!Next
  <2>2. CASE ~Expired(At(map, k), clock)
    <3>1. Has(map, k) /\ At(map, k) \in Item
      BY <1>0, <1>1, HasAt DEF rawGet
    <3>2. Held[k] = [value |-> At(map, k).value, expires |-> At(map, k).expiresAt]
      BY <3>1 DEF Held
    <3>3. Held[k] # Absent
      BY <3>1, <3>2, AbsentApart DEF Item
    <3>4. Promise!Hit(k)
      BY <2>2, <3>1, <3>2, <3>3 DEF Promise!Hit, Expired, StoreInv, StoreTypeOK, Item
    <3>5. /\ reading' = [reading EXCEPT ![r] = [key |-> k, raw |-> Held[k].value]]
          /\ UNCHANGED <<Held, clock>>
      BY <1>1, <1>u, <2>2, <3>2 DEF rawGet
    <3>. QED
      BY <3>4, <3>5 DEF Promise!Next, Promise!Lookup
  <2>. QED
    BY <2>1, <2>2
<1>2. ASSUME NEW r \in Readers, getReturns(r) PROVE Promise!Next
  BY <1>2, <1>f DEF getReturns, Promise!Next
<1>3. ASSUME NEW r \in Readers, getPurges(r) PROVE Promise!Next
  BY <1>3, <1>w DEF getPurges, Promise!Next
<1>4. ASSUME NEW k \in Keys, delete(k) PROVE Promise!Next
  BY <1>4, <1>w DEF delete, Promise!Next
<1>5. ASSUME NEW k \in Keys, NEW v \in Values, NEW ttl \in Lives, set(k, v, ttl) PROVE Promise!Next
  BY <1>5, SetWrites DEF set, Promise!Next
<1>6. CASE CacheTick
  BY <1>6, <1>u DEF CacheTick, Promise!Next, StoreInv, StoreTypeOK
<1>7. CASE UNCHANGED cacheVars
  BY <1>7, <1>u DEF cacheVars
<1>. QED
  BY <1>1, <1>2, <1>3, <1>4, <1>5, <1>6, <1>7 DEF CacheNext

\* The bundled store is a lossy map (AsyncCache, get and set): for any keys,
\* values, bound and times to live, whatever gets overlap, what a get finds is
\* what was last written to that key and had not expired at the lookup.
THEOREM CacheKeepsPromise == CacheSpec => ImplementsLossyMap
<1>1. CacheInit => Promise!Init
  BY PromiseInit
<1>2. StoreInv /\ [CacheNext]_cacheVars => [Promise!Next]_<<Held, reading, clock>>
  BY PromiseStep
<1>. QED
  BY <1>1, <1>2, StoreCorrect, PTL DEF CacheSpec, ImplementsLossyMap, Promise!Spec

-----------------------------------------------------------------------------
(* The bundled cache store makes room by age.                              *)

\* One step of RoomIsMadeByAge.
Roomy ==
  /\ MaxEntries > 0 => Len(map') <= MaxEntries
  /\ \A i \in DOMAIN map :
       ~Expired(map[i], clock) /\ ~Has(map', map[i].key) =>
         \/ map' = Without(map, map[i].key)
         \/ /\ Len(map') = MaxEntries
            /\ \A j \in 1..i : ~Has(map', map[j].key) \/ At(map', map[j].key) # map[j]
            /\ \A j \in DOMAIN map' : ~Expired(map'[j], clock)

\* A write that goes past the bound drops one live entry only when every entry
\* is live, and then the oldest.
LEMMA SetMakesRoom ==
  ASSUME StoreInv, NEW k \in Keys, NEW v \in Values, NEW ttl \in Lives, set(k, v, ttl),
         NEW i \in DOMAIN map, ~Expired(map[i], clock), ~Has(map', map[i].key)
  PROVE  /\ i = 1 /\ Len(map') = MaxEntries
         /\ \A j \in DOMAIN map' : ~Expired(map'[j], clock)
<1>. DEFINE item == [key |-> k, value |-> v, expiresAt |-> clock + ttl]
            m == Inserted(k, v, ttl)
            s == sweepExpired(m, clock)
            n == Len(map)
<1>0. /\ map \in Seq(Item) /\ MaxEntries \in Nat /\ (MaxEntries > 0 => n <= MaxEntries)
      /\ clock \in Nat /\ ttl \in Int /\ ttl > 0 /\ n \in Nat /\ DOMAIN map = 1..n
  BY BoundIsNat, LivesAreInt DEF StoreInv, StoreTypeOK, set
<1>1. /\ m \in Seq(Item) /\ Distinct(m) /\ Has(m, k)
      /\ \A j \in DOMAIN map : Has(m, map[j].key)
      /\ Has(map, k) => Len(m) <= Len(map)
      /\ ~Has(map, k) => m = Append(map, item)
  BY InsertedMap
<1>2. map' = IF MaxEntries > 0 /\ Len(m) > MaxEntries THEN trimToBound(s) ELSE m
  BY DEF set
<1>3. Len(m) \in Nat
  BY <1>1
<1>4. MaxEntries > 0 /\ Len(m) > MaxEntries
  BY <1>1, <1>2
<1>5. ~Has(map, k)
  BY <1>0, <1>1, <1>3, <1>4
<1>6. /\ m = Append(map, item) /\ Len(m) = n + 1 /\ m[n + 1] = item
      /\ \A j \in 1..n : m[j] = map[j]
  BY <1>0, <1>1, <1>5
<1>7. n = MaxEntries /\ DOMAIN m = 1..(n + 1)
  <2>1. DOMAIN m = 1..(n + 1)
    BY <1>1, <1>6
  <2>2. n + 1 > MaxEntries /\ MaxEntries > 0
    BY <1>4, <1>6
  <2>. HIDE DEF n, m
  <2>. QED
    BY <1>0, <2>1, <2>2
<1>8. i \in DOMAIN m /\ m[i] = map[i]
  BY <1>0, <1>6, <1>7
<1>9. /\ PartOf(s, m) /\ Len(s) <= Len(m)
      /\ Len(s) = Len(m) => s = m
      /\ \A j \in DOMAIN m : ~Expired(m[j], clock) => Has(s, m[j].key)
      /\ \A j \in DOMAIN s : ~Expired(s[j], clock)
  <2>. HIDE DEF m
  <2>. QED
    BY <1>1, SweepMap
<1>10. s \in Seq(Item) /\ Distinct(s) /\ map' = trimToBound(s) /\ Len(s) \in Nat
  BY <1>2, <1>4, <1>9 DEF PartOf
<1>11. Has(s, map[i].key)
  BY <1>8, <1>9
<1>. HIDE DEF s, m
<1>12. Len(s) = MaxEntries + 1
  <2>1. CASE Len(s) <= MaxEntries
    <3>1. map' = s
      BY <1>10, <2>1, TrimMap
    <3>. QED
      BY <1>11, <3>1
  <2>. QED
    BY <1>0, <1>6, <1>7, <1>9, <1>10, <2>1
<1>13. s = m
  BY <1>6, <1>7, <1>9, <1>12
<1>14. /\ Len(map') = MaxEntries /\ DOMAIN map' = 1..MaxEntries
       /\ \A j \in 1..MaxEntries : map'[j] = m[j + 1]
  BY <1>4, <1>10, <1>12, <1>13, TrimMap
<1>15. i = 1
  <2>1. CASE i # 1
    <3>1. i - 1 \in 1..MaxEntries /\ (i - 1) + 1 = i
      BY <1>0, <1>7, <2>1
    <3>2. map'[i - 1] = m[(i - 1) + 1]
      BY <1>14, <3>1
    <3>3. map'[i - 1] = map[i]
      BY <1>8, <3>1, <3>2
    <3>. QED
      BY <1>14, <3>1, <3>3 DEF Has
  <2>. QED
    BY <2>1
<1>16. ASSUME NEW j \in DOMAIN map' PROVE ~Expired(map'[j], clock)
  <2>1. j + 1 \in DOMAIN m /\ map'[j] = m[j + 1]
    BY <1>7, <1>14
  <2>. QED
    BY <1>9, <1>13, <2>1
<1>. QED
  BY <1>14, <1>15, <1>16

\* Every step of the store makes room by age, or makes none.
LEMMA RoomyStep == StoreInv /\ StoreInv' /\ [CacheNext]_cacheVars => Roomy
<1>. SUFFICES ASSUME StoreInv, StoreInv', [CacheNext]_cacheVars,
                     NEW i \in DOMAIN map, ~Expired(map[i], clock), ~Has(map', map[i].key)
              PROVE  \/ map' = Without(map, map[i].key)
                     \/ /\ Len(map') = MaxEntries
                        /\ \A j \in 1..i : ~Has(map', map[j].key) \/ At(map', map[j].key) # map[j]
                        /\ \A j \in DOMAIN map' : ~Expired(map'[j], clock)
  BY DEF StoreInv, Roomy
<1>0. map \in Seq(Item) /\ Distinct(map)
  BY DEF StoreInv, StoreTypeOK
<1>1. map' # map
  BY <1>0, AtUnique
<1>w. ASSUME NEW k, map' = Without(map, k) PROVE map' = Without(map, map[i].key)
  BY <1>0, <1>w, WithoutMap
<1>2. ASSUME NEW r \in Readers, NEW k \in Keys, rawGet(r, k) PROVE map' = Without(map, map[i].key)
  BY <1>1, <1>2, <1>w DEF rawGet
<1>3. ASSUME NEW r \in Readers, getPurges(r) PROVE map' = Without(map, map[i].key)
  BY <1>3, <1>w DEF getPurges
<1>4. ASSUME NEW k \in Keys, delete(k) PROVE map' = Without(map, map[i].key)
  BY <1>4, <1>w DEF delete
<1>5. ASSUME NEW k \in Keys, NEW v \in Values, NEW ttl \in Lives, set(k, v, ttl)
      PROVE  /\ Len(map') = MaxEntries
             /\ \A j \in 1..i : ~Has(map', map[j].key) \/ At(map', map[j].key) # map[j]
             /\ \A j \in DOMAIN map' : ~Expired(map'[j], clock)
  <2>1. /\ i = 1 /\ Len(map') = MaxEntries
        /\ \A j \in DOMAIN map' : ~Expired(map'[j], clock)
    BY <1>5, SetMakesRoom
  <2>2. \A j \in 1..i : j = i
    BY <2>1
  <2>. QED
    BY <2>1, <2>2
<1>6. ASSUME NEW r \in Readers PROVE ~getReturns(r)
  BY <1>1 DEF getReturns
<1>7. ~CacheTick /\ ~UNCHANGED cacheVars
  BY <1>1 DEF CacheTick, cacheVars
<1>. QED
  BY <1>2, <1>3, <1>4, <1>5, <1>6, <1>7 DEF CacheNext

\* A live entry goes only by a delete or purge of its own key, by a new write
\* to it, or because the Map is full of live entries inserted later (rawSet,
\* sweepExpired, trimToBound), for any bound.
THEOREM RoomCorrect == CacheSpec => RoomIsMadeByAge
<1>1. StoreInv /\ StoreInv' /\ [CacheNext]_cacheVars => [Roomy]_cacheVars
  BY RoomyStep
<1>2. RoomIsMadeByAge <=> [][Roomy]_cacheVars
  BY DEF RoomIsMadeByAge, Roomy
<1>. QED
  BY <1>1, <1>2, StoreCorrect, PTL DEF CacheSpec

-----------------------------------------------------------------------------
(* Sequences of entries.                                                   *)

\* The items of a concatenation: those of the first sequence, then those of the
\* second.
LEMMA Glue ==
  ASSUME NEW S, NEW a \in Seq(S), NEW b \in Seq(S)
  PROVE  /\ a \o b \in Seq(S) /\ DOMAIN (a \o b) = 1..(Len(a) + Len(b))
         /\ Len(a) \in Nat /\ DOMAIN a = 1..Len(a) /\ Len(b) \in Nat /\ DOMAIN b = 1..Len(b)
         /\ \A i \in DOMAIN a : (a \o b)[i] = a[i]
         /\ \A i \in DOMAIN b : (a \o b)[Len(a) + i] = b[i]
         /\ \A i \in DOMAIN (a \o b) :
              i \in DOMAIN a \/ \E j \in DOMAIN b : i = Len(a) + j
<1>1. /\ a \o b \in Seq(S) /\ Len(a \o b) = Len(a) + Len(b)
      /\ \A i \in 1..(Len(a) + Len(b)) : (a \o b)[i] = IF i <= Len(a) THEN a[i] ELSE b[i - Len(a)]
  BY ConcatProperties
<1>2. Len(a) \in Nat /\ DOMAIN a = 1..Len(a) /\ Len(b) \in Nat /\ DOMAIN b = 1..Len(b)
  OBVIOUS
<1>3. DOMAIN (a \o b) = 1..(Len(a) + Len(b))
  BY <1>1
<1>. DEFINE c == a \o b
            m == Len(a)
            n == Len(b)
<1>. HIDE DEF c, m, n
<1>4. \A i \in DOMAIN c : i \in 1..m \/ \E j \in 1..n : i = m + j
  <2>. SUFFICES ASSUME NEW i \in 1..(m + n), i \notin 1..m PROVE \E j \in 1..n : i = m + j
    BY <1>3 DEF c, m, n
  <2>1. m \in Nat /\ n \in Nat
    BY <1>2 DEF m, n
  <2>2. i - m \in 1..n /\ i = m + (i - m)
    BY <2>1
  <2>. QED
    BY <2>2
<1>5. ASSUME NEW i \in 1..m PROVE c[i] = a[i]
  BY <1>1, <1>2 DEF c, m
<1>6. ASSUME NEW i \in 1..n PROVE c[m + i] = b[i]
  <2>1. m + i \in 1..(m + n) /\ ~(m + i <= m) /\ (m + i) - m = i
    BY <1>2 DEF m, n
  <2>. QED
    BY <1>1, <2>1 DEF c, m, n
<1>. QED
  BY <1>1, <1>2, <1>3, <1>4, <1>5, <1>6 DEF c, m, n

\* A sequence with the items of two others, one after the other, is their
\* concatenation.
LEMMA ConcatIs ==
  ASSUME NEW S, NEW u \in Seq(S), NEW v \in Seq(S), NEW t \in Seq(S),
         Len(t) = Len(u) + Len(v),
         \A i \in 1..Len(u) : t[i] = u[i], \A i \in 1..Len(v) : t[Len(u) + i] = v[i]
  PROVE  u \o v = t
<1>. DEFINE n == Len(u)
            k == Len(v)
<1>0. n \in Nat /\ k \in Nat
  OBVIOUS
<1>1. /\ u \o v \in Seq(S) /\ Len(u \o v) = n + k
      /\ \A i \in 1..(n + k) : (u \o v)[i] = IF i <= n THEN u[i] ELSE v[i - n]
  BY ConcatProperties
<1>. HIDE DEF n, k
<1>2. ASSUME NEW i \in 1..(n + k) PROVE (u \o v)[i] = t[i]
  <2>1. CASE i <= n
    BY <1>0, <1>1, <2>1 DEF n, k
  <2>2. CASE ~(i <= n)
    <3>1. i - n \in 1..k /\ n + (i - n) = i
      BY <1>0, <2>2
    <3>. QED
      BY <1>1, <2>2, <3>1 DEF n, k
  <2>. QED
    BY <2>1, <2>2
<1>. QED
  BY <1>1, <1>2, SeqEqual DEF n, k

\* A concatenation of two items and one.
LEMMA Glue21 ==
  ASSUME NEW a, NEW b, NEW c
  PROVE  <<a, b>> \o <<c>> = <<a, b, c>>
<1>. DEFINE S == {a, b, c}
            u == <<a, b>>
            v == <<c>>
            t == <<a, b, c>>
<1>1. u \in Seq(S) /\ v \in Seq(S) /\ t \in Seq(S) /\ Len(t) = Len(u) + Len(v)
  OBVIOUS
<1>2. (\A i \in 1..Len(u) : t[i] = u[i]) /\ (\A i \in 1..Len(v) : t[Len(u) + i] = v[i])
  OBVIOUS
<1>. HIDE DEF S, u, v, t
<1>3. u \o v = t
  BY <1>1, <1>2, ConcatIs
<1>. QED
  BY <1>3 DEF u, v, t

\* A concatenation of three items and three.
LEMMA Glue33 ==
  ASSUME NEW a, NEW b, NEW c, NEW d, NEW e, NEW f
  PROVE  <<a, b, c>> \o <<d, e, f>> = <<a, b, c, d, e, f>>
<1>. DEFINE S == {a, b, c, d, e, f}
            u == <<a, b, c>>
            v == <<d, e, f>>
            t == <<a, b, c, d, e, f>>
<1>1. u \in Seq(S) /\ v \in Seq(S) /\ t \in Seq(S) /\ Len(t) = Len(u) + Len(v)
  OBVIOUS
<1>2. (\A i \in 1..Len(u) : t[i] = u[i]) /\ (\A i \in 1..Len(v) : t[Len(u) + i] = v[i])
  OBVIOUS
<1>. HIDE DEF S, u, v, t
<1>3. u \o v = t
  BY <1>1, <1>2, ConcatIs
<1>. QED
  BY <1>3 DEF u, v, t

\* A concatenation of two items and four.
LEMMA Glue24 ==
  ASSUME NEW a, NEW b, NEW c, NEW d, NEW e, NEW f
  PROVE  <<a, b>> \o <<c, d, e, f>> = <<a, b, c, d, e, f>>
<1>. DEFINE S == {a, b, c, d, e, f}
            u == <<a, b>>
            v == <<c, d, e, f>>
            t == <<a, b, c, d, e, f>>
<1>1. u \in Seq(S) /\ v \in Seq(S) /\ t \in Seq(S) /\ Len(t) = Len(u) + Len(v)
  OBVIOUS
<1>2. (\A i \in 1..Len(u) : t[i] = u[i]) /\ (\A i \in 1..Len(v) : t[Len(u) + i] = v[i])
  OBVIOUS
<1>. HIDE DEF S, u, v, t
<1>3. u \o v = t
  BY <1>1, <1>2, ConcatIs
<1>. QED
  BY <1>3 DEF u, v, t

\* A sequence with the items of another and one more is what Append returns.
LEMMA AppendIs ==
  ASSUME NEW S, NEW u \in Seq(S), NEW y \in S, NEW t \in Seq(S), Len(t) = Len(u) + 1,
         \A i \in 1..Len(u) : t[i] = u[i], t[Len(u) + 1] = y
  PROVE  Append(u, y) = t
<1>1. Append(u, y) \in Seq(S) /\ Len(Append(u, y)) = Len(u) + 1 /\ Len(u) \in Nat
  BY AppendProperties
<1>2. (\A i \in 1..Len(u) : Append(u, y)[i] = u[i]) /\ Append(u, y)[Len(u) + 1] = y
  OBVIOUS
<1>3. \A i \in 1..(Len(u) + 1) : i \in 1..Len(u) \/ i = Len(u) + 1
  BY <1>1
<1>4. \A i \in 1..Len(t) : Append(u, y)[i] = t[i]
  BY <1>2, <1>3
<1>. QED
  BY <1>1, <1>4, SeqEqual

\* Append to a sequence of one item.
LEMMA AppendSecond ==
  ASSUME NEW x, NEW y
  PROVE  Append(<<x>>, y) = <<x, y>>
<1>. DEFINE S == {x, y}
            u == <<x>>
            t == <<x, y>>
<1>1. u \in Seq(S) /\ y \in S /\ t \in Seq(S) /\ Len(t) = Len(u) + 1
  OBVIOUS
<1>2. (\A i \in 1..Len(u) : t[i] = u[i]) /\ t[Len(u) + 1] = y
  OBVIOUS
<1>. HIDE DEF S, u, t
<1>3. Append(u, y) = t
  BY <1>1, <1>2, AppendIs
<1>. QED
  BY <1>3 DEF u, t

\* What the reads of one kind found.
LEMMA FoundRead ==
  ASSUME NEW read, NEW x
  PROVE  x \in Found(read) <=> \E i \in DOMAIN saw : saw[i].read = read /\ saw[i].found = x
BY DEF Found, Did

\* The first failed slot is the least (multicall throws at it).
LEMMA MinIs ==
  ASSUME NEW F \in SUBSET Int, NEW x \in F, \A y \in F : x <= y
  PROVE  Min(F) = x
<1>1. \A z \in F : (\A y \in F : z <= y) => z = x
  OBVIOUS
<1>2. \E z \in F : \A y \in F : z <= y
  OBVIOUS
<1>. QED
  BY <1>1, <1>2, Zenon DEF Min

-----------------------------------------------------------------------------
(* The reads of a check runner.                                            *)

\* What stands for an answer that did not come or does not decode.
Unanswered == {Reverts, Malformed}

\* The read of two slots in one aggregate3 call.
TwoSlots(f, a, g, b, lost) == multicall(<<Slot(f, a), Slot(g, b)>>, lost)

\* The read of two slots in one call throws when the call is lost or a slot has
\* no answer, and its error is blamed on the client exactly when the first slot
\* without an answer reverted (isDeterministicContractCallFailure).
THEOREM TwoSlotsThrow ==
  ASSUME NEW f, NEW g, NEW a, NEW b, NEW lost \in Lost(2)
  PROVE  /\ Throws(TwoSlots(f, a, g, b, lost)) <=> lost # {} \/ a \in Unanswered \/ b \in Unanswered
         /\ Throws(TwoSlots(f, a, g, b, lost)) =>
              (isDeterministicContractCallFailure(Thrown(TwoSlots(f, a, g, b, lost)), {f, g}) <=>
                 lost = {} /\ (a = Reverts \/ (a # Malformed /\ b = Reverts)))
<1>. USE DEF Unanswered
<1>. DEFINE results == TwoSlots(f, a, g, b, lost)
            F == FailuresOf(results)
<1>0. Unreachable # Reverts /\ Reverts # Malformed
  BY SentinelsApart
<1>1. DOMAIN results = {1, 2} /\ lost \in {{}, {1, 2}}
  BY DEF TwoSlots, multicall, Lost
<1>2. /\ 1 \in F <=> lost # {} \/ a \in {Reverts, Malformed}
      /\ 2 \in F <=> lost # {} \/ b \in {Reverts, Malformed}
      /\ F \subseteq {1, 2}
  BY <1>1 DEF TwoSlots, multicall, FailuresOf, Failure, Slot
<1>3. /\ 1 \in F => results[1].cause = (IF lost # {} THEN Unreachable ELSE a)
      /\ 1 \in F /\ lost = {} => results[1].functionName = f
      /\ 2 \in F => results[2].cause = (IF lost # {} THEN Unreachable ELSE b)
      /\ 2 \in F /\ lost = {} => results[2].functionName = g
  BY <1>1, <1>2 DEF TwoSlots, multicall, Failure, Slot
<1>6. Throws(results) <=> F # {}
  BY DEF Throws
<1>7. Thrown(results) = results[Min(F)]
  BY DEF Thrown
<1>. HIDE DEF F, results
<1>4. 1 \in F => Min(F) = 1
  BY <1>2, MinIs
<1>5. 1 \notin F /\ 2 \in F => Min(F) = 2
  BY <1>2, MinIs
<1>. DEFINE client == isDeterministicContractCallFailure(Thrown(results), {f, g})
<1>8. CASE 1 \in F
  <2>1. Thrown(results).cause = (IF lost # {} THEN Unreachable ELSE a)
        /\ (lost = {} => Thrown(results).functionName = f)
    BY <1>3, <1>4, <1>7, <1>8
  <2>2. client <=> lost = {} /\ a = Reverts
    BY <1>0, <2>1 DEF isDeterministicContractCallFailure
  <2>3. lost = {} => a \in {Reverts, Malformed}
    BY <1>2, <1>8
  <2>. QED
    BY <1>0, <1>2, <1>6, <1>8, <2>2, <2>3 DEF results
<1>9. CASE 1 \notin F /\ 2 \in F
  <2>1. Thrown(results).cause = (IF lost # {} THEN Unreachable ELSE b)
        /\ (lost = {} => Thrown(results).functionName = g)
    BY <1>3, <1>5, <1>7, <1>9
  <2>2. client <=> lost = {} /\ b = Reverts
    BY <1>0, <2>1 DEF isDeterministicContractCallFailure
  <2>3. lost = {} /\ a \notin {Reverts, Malformed}
    BY <1>2, <1>9
  <2>. QED
    BY <1>0, <1>2, <1>6, <1>9, <2>2, <2>3 DEF results
<1>10. CASE 1 \notin F /\ 2 \notin F
  <2>1. F = {}
    BY <1>2, <1>10
  <2>. QED
    BY <1>2, <1>6, <1>10, <2>1 DEF results
<1>. QED
  BY <1>8, <1>9, <1>10

-----------------------------------------------------------------------------
(* Fund binding.                                                           *)

\* A call of one kind, under a policy the Guardian starts with.
Kind(kind) ==
  request \in Bodies /\ request.kind = kind /\ policy \in Policies /\ Builds(policy)

\* The deadline entry of the call.
Deadline == deadlineCheck(request, policy)

\* The entries of fund binding, by their outcomes.
FundEntries(listed, owner, manager, free) ==
  << Deadline, Entry("fund_accepted", listed), Entry("fund_owner_accepted", owner),
     Entry("position_manager_is_the_intents", manager), Entry("no_fund_is_bound", free),
     skipped("depositor_role") >>

\* The outcome of an entry that was evaluated.
Outcome(holds) == IF holds THEN "passed" ELSE "failed"

\* A fund binding call before its read.
FundWaits ==
  /\ Kind("fund") /\ request.fundContract \in policy.acceptedFunds
  /\ saw = <<>>
  /\ checks = <<Deadline, passed("fund_accepted")>>

\* Its verdict when both contracts answered.
FundJudged(owner, intent) ==
  FundVerdict(FundEntries("passed", Outcome(owner \in policy.acceptedOwners),
                          Outcome(request.positionManager \in intent.positionManagers),
                          Outcome(intent.fund = NoFund)))

\* A call for a fund that is not on the list ends without a read.
FundRefused ==
  /\ Kind("fund") /\ request.fundContract \notin policy.acceptedFunds
  /\ saw = <<>>
  /\ verdict = rollUp(FundEntries("failed", "skipped", "skipped", "skipped"))

\* A call that read ends by what it found: a lost read or undecodable data, a
\* revert, or answers.
FundAnswered ==
  /\ Kind("fund") /\ request.fundContract \in policy.acceptedFunds
  /\ \E owner \in FundAnswers, intent \in IntentAnswers, lost \in BOOLEAN :
       /\ saw = <<[read |-> "fund", found |-> [owner |-> owner, intent |-> intent], lost |-> lost]>>
       /\ \/ /\ lost \/ Malformed \in {owner, intent}
             /\ verdict = UpstreamUnavailableError
          \/ /\ ~lost /\ Reverts \in {owner, intent}
             /\ verdict = rollUp(FundEntries("passed", "failed", "skipped", "skipped"))
          \/ /\ ~lost /\ owner \notin Unanswered /\ intent \notin Unanswered
             /\ verdict = FundJudged(owner, intent)

\* The entries of an early return of fund binding.
LEMMA OffChainEntries ==
  ASSUME NEW d, NEW l, NEW o
  PROVE  <<d, l>> \o <<o>> \o OnChainFundChecks =
           << d, l, o, skipped("position_manager_is_the_intents"), skipped("no_fund_is_bound"),
              skipped("depositor_role") >>
<1>. DEFINE x == skipped("position_manager_is_the_intents")
            y == skipped("no_fund_is_bound")
            z == skipped("depositor_role")
<1>1. OnChainFundChecks = <<x, y, z>>
  BY DEF OnChainFundChecks
<1>. HIDE DEF x, y, z
<1>2. <<d, l>> \o <<o>> = <<d, l, o>>
  BY Glue21
<1>3. <<d, l, o>> \o <<x, y, z>> = <<d, l, o, x, y, z>>
  BY Glue33
<1>4. <<d, l>> \o <<o>> \o OnChainFundChecks = <<d, l, o, x, y, z>>
  BY <1>1, <1>2, <1>3
<1>. QED
  BY <1>4 DEF x, y, z

\* A fund binding call reads, or is refused (intent-fund-binding.ts).
LEMMA FundArrivesStep ==
  ASSUME NEW b \in Bodies, NEW p \in Policies, FundArrives(b, p)
  PROVE  \/ phase' = "fund" /\ FundWaits'
         \/ phase' = "done" /\ FundRefused'
<1>. DEFINE d == deadlineCheck(b, p)
            onList == checkMembership("fund_accepted", b.fundContract, p.acceptedFunds)
<1>1. request' = b /\ policy' = p /\ saw' = <<>> /\ Kind("fund")'
  BY DEF FundArrives, Arrives, Kind, Builds
<1>2. Deadline' = d
  BY <1>1 DEF Deadline, deadlineCheck, checkDeadline, entryIf, passed, failed, Entry
<1>3. CASE b.fundContract \in p.acceptedFunds
  <2>1. onList = passed("fund_accepted") /\ onList.outcome # "failed"
    BY <1>3 DEF checkMembership, entryIf, passed, Entry
  <2>2. phase' = "fund" /\ checks' = <<d, onList>>
    BY <2>1 DEF FundArrives, Await
  <2>. QED
    BY <1>1, <1>2, <1>3, <2>1, <2>2 DEF FundWaits, passed, Entry
<1>4. CASE b.fundContract \notin p.acceptedFunds
  <2>1. onList = failed("fund_accepted") /\ onList.outcome = "failed"
    BY <1>4 DEF checkMembership, entryIf, failed, Entry
  <2>2. phase' = "done" /\ verdict' = rollUp(<<d, onList>> \o <<skipped("fund_owner_accepted")>> \o OnChainFundChecks)
    BY <2>1 DEF FundArrives, Finish
  <2>3. <<d, onList>> \o <<skipped("fund_owner_accepted")>> \o OnChainFundChecks
          = << d, failed("fund_accepted"), skipped("fund_owner_accepted"),
               skipped("position_manager_is_the_intents"), skipped("no_fund_is_bound"),
               skipped("depositor_role") >>
    BY <2>1, OffChainEntries
  <2>4. FundEntries("failed", "skipped", "skipped", "skipped")' =
           << d, failed("fund_accepted"), skipped("fund_owner_accepted"),
               skipped("position_manager_is_the_intents"), skipped("no_fund_is_bound"),
               skipped("depositor_role") >>
    BY <1>2 DEF FundEntries, failed, skipped
  <2>5. FundRefused' <=>
     /\ Kind("fund")' /\ request'.fundContract \notin policy'.acceptedFunds
     /\ saw' = <<>>
     /\ verdict' = rollUp(FundEntries("failed", "skipped", "skipped", "skipped")')
     BY DEF FundRefused, rollUp, Answer, anyFailed
  <2>. QED
    BY <1>1, <1>4, <2>2, <2>3, <2>4, <2>5
<1>. QED
  BY <1>3, <1>4

\* The read of fund binding ends the call by what it found.
LEMMA FundReadStep ==
  ASSUME FundWaits, NEW owner \in FundAnswers, NEW intent \in IntentAnswers, NEW lost \in Lost(2),
         FundRead(owner, intent, lost)
  PROVE  phase' = "done" /\ FundAnswered'
<1>. DEFINE results == TwoSlots("owner", owner, "getIntent", intent, lost)
            found == [owner |-> owner, intent |-> intent]
            away == lost # {}
            listed == Outcome(owner \in policy.acceptedOwners)
            manager == Outcome(request.positionManager \in intent.positionManagers)
            free == Outcome(intent.fund = NoFund)
            client == isDeterministicContractCallFailure(Thrown(results), {"owner", "getIntent"})
<1>1. /\ Throws(results) <=> away \/ owner \in Unanswered \/ intent \in Unanswered
      /\ Throws(results) =>
           (client <=> ~away /\ (owner = Reverts \/ (owner # Malformed /\ intent = Reverts)))
  BY TwoSlotsThrow
<1>2. /\ request' = request /\ policy' = policy
      /\ saw' = <<[read |-> "fund", found |-> found, lost |-> away]>>
  BY DEF FundRead, Sees, FundWaits
<1>3. /\ Kind("fund")' /\ (request.fundContract \in policy.acceptedFunds)' /\ Deadline' = Deadline
  BY <1>2 DEF FundWaits, Kind, Builds, Deadline, deadlineCheck, checkDeadline, entryIf, passed, failed, Entry
<1>4. checks = <<Deadline, passed("fund_accepted")>>
  BY DEF FundWaits
<1>. HIDE DEF results, found, away, client
<1>5. CASE Throws(results) /\ client
  <2>1. /\ phase' = "done"
        /\ verdict' = rollUp(checks \o <<failed("fund_owner_accepted")>> \o OnChainFundChecks)
    BY <1>5 DEF FundRead, Finish, results, client, TwoSlots
  <2>2. checks \o <<failed("fund_owner_accepted")>> \o OnChainFundChecks
          = FundEntries("passed", "failed", "skipped", "skipped")'
    BY <1>3, <1>4, OffChainEntries DEF FundEntries, passed, failed, skipped
  <2>3. ~away /\ Reverts \in {owner, intent}
    BY <1>1, <1>5
  <2>4. verdict' = rollUp(FundEntries("passed", "failed", "skipped", "skipped"))'
    BY <2>1, <2>2
  <2>. QED
    BY <1>2, <1>3, <2>1, <2>3, <2>4 DEF FundAnswered, found, away
<1>6. CASE Throws(results) /\ ~client
  <2>1. phase' = "done" /\ verdict' = UpstreamUnavailableError
    BY <1>6 DEF FundRead, Finish, results, client, TwoSlots
  <2>2. away \/ Malformed \in {owner, intent}
    BY <1>1, <1>6 DEF Unanswered
  <2>. QED
    BY <1>2, <1>3, <2>1, <2>2 DEF FundAnswered, found, away, UpstreamUnavailableError
<1>7. CASE ~Throws(results)
  <2>. DEFINE e3 == Entry("fund_owner_accepted", listed)
              e4 == Entry("position_manager_is_the_intents", manager)
              e5 == Entry("no_fund_is_bound", free)
  <2>1. /\ checkMembership("fund_owner_accepted", owner, policy.acceptedOwners) = e3
        /\ checkMembership("position_manager_is_the_intents", request.positionManager,
                           intent.positionManagers) = e4
        /\ entryIf("no_fund_is_bound", intent.fund = NoFund) = e5
    BY DEF checkMembership, entryIf, passed, failed, Outcome
  <2>2. /\ phase' = "done"
        /\ verdict' = FundVerdict(checks \o <<e3, e4, e5, skipped("depositor_role")>>)
    BY <1>7, <2>1 DEF FundRead, Finish, results, TwoSlots
  <2>. HIDE DEF e3, e4, e5
  <2>3. checks \o <<e3, e4, e5, skipped("depositor_role")>>
          = <<Deadline, passed("fund_accepted"), e3, e4, e5, skipped("depositor_role")>>
    BY <1>4, Glue24
  <2>4. FundEntries("passed", listed, manager, free)
          = <<Deadline, passed("fund_accepted"), e3, e4, e5, skipped("depositor_role")>>
    BY DEF FundEntries, e3, e4, e5, passed
  <2>5. verdict' = FundJudged(owner, intent)
    BY <2>2, <2>3, <2>4 DEF FundJudged
  <2>6. FundJudged(owner, intent)' = FundJudged(owner, intent)
    BY <1>2, <1>3 DEF FundJudged, FundEntries
  <2>7. ~away /\ owner \notin Unanswered /\ intent \notin Unanswered
    BY <1>1, <1>7
  <2>. QED
    BY <1>2, <1>3, <2>2, <2>5, <2>6, <2>7 DEF FundAnswered, found, away
<1>. QED
  BY <1>5, <1>6, <1>7

\* The deadline entry is the request's, and fails when the deadline is too far
\* ahead (checkDeadline).
LEMMA DeadlineEntry ==
  ASSUME request \in Bodies, policy \in Policies
  PROVE  /\ Deadline.check = "deadline" /\ Deadline.of = NoContract
         /\ Deadline.outcome \in {"passed", "failed"}
         /\ Deadline.outcome = "failed" <=> ~(request.deadline - request.now <= policy.maxDeadlineSecondsAhead)
<1>1. request.now \in Nat /\ request.deadline \in Nat /\ policy.maxDeadlineSecondsAhead \in Nat
  BY BodiesWellFormed, PoliciesWellFormed
<1>2. request.deadline <= request.now + policy.maxDeadlineSecondsAhead
        <=> request.deadline - request.now <= policy.maxDeadlineSecondsAhead
  BY <1>1
<1>. QED
  BY <1>2 DEF Deadline, deadlineCheck, checkDeadline, entryIf, passed, failed, Entry, DeadlineCheck

\* Six entries of six checks describe the appendix of fund binding.
LEMMA FundDescribed ==
  ASSUME Kind("fund"), NEW l, NEW o, NEW m, NEW f, verdict.checks = FundEntries(l, o, m, f)
  PROVE  AppendixIsDescribed
<1>. DEFINE e == verdict.checks
<1>1. DOMAIN e = 1..6
  BY DEF FundEntries
<1>2. /\ e[1].check = "deadline" /\ e[2].check = "fund_accepted"
      /\ e[3].check = "fund_owner_accepted" /\ e[4].check = "position_manager_is_the_intents"
      /\ e[5].check = "no_fund_is_bound" /\ e[6].check = "depositor_role"
  BY DeadlineEntry DEF FundEntries, Entry, skipped, Kind
<1>. HIDE DEF e
<1>3. Reported = {e[i].check : i \in 1..6}
  BY <1>1 DEF Reported, e
<1>4. Appendix = {"deadline", "fund_accepted", "fund_owner_accepted",
          "position_manager_is_the_intents", "no_fund_is_bound", "depositor_role"}
  BY DEF Appendix, Kind
<1>5. Appendix \subseteq Reported
  <2>1. e[1].check \in Reported /\ e[2].check \in Reported /\ e[3].check \in Reported
        /\ e[4].check \in Reported /\ e[5].check \in Reported /\ e[6].check \in Reported
    BY <1>3
  <2>. QED
    BY <1>2, <1>4, <2>1
<1>6. \A i, j \in DOMAIN e : e[i].check = e[j].check => i = j
  BY <1>1, <1>2
<1>. QED
  BY <1>5, <1>6 DEF AppendixIsDescribed, e

\* 422 wins over 409: the status by the outcomes of the six entries.
LEMMA FundTally ==
  ASSUME NEW l, NEW o, NEW m, NEW f
  PROVE  LET e == FundEntries(l, o, m, f) IN
         /\ anyFailed(e) <=> \/ Deadline.outcome = "failed" \/ l = "failed" \/ o = "failed"
                             \/ m = "failed" \/ f = "failed"
         /\ FundVerdict(e) = Answer(IF \/ Deadline.outcome = "failed" \/ l = "failed" \/ o = "failed"
                                       \/ m = "failed" THEN 422
                                    ELSE IF f = "failed" THEN 409 ELSE 200, e)
<1>. DEFINE e == FundEntries(l, o, m, f)
            other == [i \in DOMAIN e \ {5} |-> e[i]]
<1>1. DOMAIN e = 1..6
  BY DEF FundEntries
<1>2. /\ e[1].outcome = Deadline.outcome /\ e[2].outcome = l /\ e[3].outcome = o
      /\ e[4].outcome = m /\ e[5].outcome = f /\ e[6].outcome = "skipped"
  BY DEF FundEntries, Entry, skipped
<1>. HIDE DEF e
<1>3. anyFailed(e) <=> \/ Deadline.outcome = "failed" \/ l = "failed" \/ o = "failed"
                       \/ m = "failed" \/ f = "failed"
  BY <1>1, <1>2 DEF anyFailed
<1>3a. DOMAIN other = {1, 2, 3, 4, 6} /\ \A i \in DOMAIN other : other[i] = e[i]
  BY <1>1
<1>. HIDE DEF other
<1>4. anyFailed(other) <=> \/ Deadline.outcome = "failed" \/ l = "failed" \/ o = "failed" \/ m = "failed"
  BY <1>2, <1>3a DEF anyFailed
<1>5. FundVerdict(e) = IF anyFailed(other) THEN rollUp(e)
                       ELSE IF e[5].outcome = "failed" THEN StateConflictError(e) ELSE Answer(200, e)
  BY DEF FundVerdict, other
<1>6. FundVerdict(e) = Answer(IF \/ Deadline.outcome = "failed" \/ l = "failed" \/ o = "failed"
                                       \/ m = "failed" THEN 422
                                    ELSE IF f = "failed" THEN 409 ELSE 200, e)
  BY <1>2, <1>3, <1>4, <1>5 DEF rollUp, StateConflictError
<1>. QED
  BY <1>3, <1>6 DEF e

\* A refused fund binding call is right in all three ways.
LEMMA FundRefusedRight ==
  FundRefused => BlameIsRight /\ VerdictIsRight /\ AppendixIsDescribed
<1>. SUFFICES ASSUME FundRefused PROVE BlameIsRight /\ VerdictIsRight /\ AppendixIsDescribed
  OBVIOUS
<1>1. verdict = Answer(422, FundEntries("failed", "skipped", "skipped", "skipped"))
  BY FundTally DEF FundRefused, rollUp
<1>2. verdict.status = 422 /\ verdict.checks = FundEntries("failed", "skipped", "skipped", "skipped")
  BY <1>1 DEF Answer
<1>3. DOMAIN saw = {} /\ Kind("fund") /\ request.fundContract \notin policy.acceptedFunds
  BY DEF FundRefused
<1>4. ~RequestIsRight
  BY <1>3 DEF RequestIsRight, FundIsRight, Kind
<1>. QED
  BY <1>2, <1>3, <1>4, FundDescribed DEF BlameIsRight, VerdictIsRight

\* So is one that read, whatever it found.
LEMMA FundAnsweredRight ==
  FundAnswered => BlameIsRight /\ VerdictIsRight /\ AppendixIsDescribed
<1>. SUFFICES ASSUME FundAnswered PROVE BlameIsRight /\ VerdictIsRight /\ AppendixIsDescribed
  OBVIOUS
<1>0. /\ Kind("fund") /\ request.fundContract \in policy.acceptedFunds
      /\ request \in Bodies /\ request.kind = "fund" /\ policy \in Policies
  BY DEF FundAnswered, Kind
<1>1. PICK owner \in FundAnswers, intent \in IntentAnswers, lost \in BOOLEAN :
       /\ saw = <<[read |-> "fund", found |-> [owner |-> owner, intent |-> intent], lost |-> lost]>>
       /\ \/ /\ lost \/ Malformed \in {owner, intent}
             /\ verdict = UpstreamUnavailableError
          \/ /\ ~lost /\ Reverts \in {owner, intent}
             /\ verdict = rollUp(FundEntries("passed", "failed", "skipped", "skipped"))
          \/ /\ ~lost /\ owner \notin Unanswered /\ intent \notin Unanswered
             /\ verdict = FundJudged(owner, intent)
  BY DEF FundAnswered
<1>. DEFINE r == [owner |-> owner, intent |-> intent]
<1>2. DOMAIN saw = {1} /\ saw[1].read = "fund" /\ saw[1].found = r /\ saw[1].lost = lost
  BY <1>1
<1>3. Found("fund") = {r}
  BY <1>2 DEF Found, Did
<1>4. r.owner = owner /\ r.intent = intent
  OBVIOUS
<1>5. NotTheClients(saw[1]) <=> Malformed \in {owner, intent}
  BY <1>2, <1>4 DEF NotTheClients
<1>. HIDE DEF r
<1>6. FundIsRight <=> /\ owner \in policy.acceptedOwners /\ intent # Reverts
                      /\ request.positionManager \in intent.positionManagers
  BY <1>0, <1>3, <1>4 DEF FundIsRight
<1>7. RequestIsRight <=> /\ request.deadline - request.now <= policy.maxDeadlineSecondsAhead
                         /\ FundIsRight
  BY <1>0 DEF RequestIsRight
<1>8. (\E x \in Found("fund") : x.intent.fund # NoFund) <=> intent.fund # NoFund
  BY <1>3, <1>4
<1>9. CASE verdict = UpstreamUnavailableError /\ (lost \/ Malformed \in {owner, intent})
  <2>1. verdict.status = 503
    BY <1>9 DEF UpstreamUnavailableError, Answer
  <2>. QED
    BY <1>2, <1>5, <1>9, <2>1 DEF BlameIsRight, VerdictIsRight, AppendixIsDescribed
<1>10. CASE /\ ~lost /\ Reverts \in {owner, intent}
            /\ verdict = rollUp(FundEntries("passed", "failed", "skipped", "skipped"))
  <2>1. verdict = Answer(422, FundEntries("passed", "failed", "skipped", "skipped"))
    BY <1>10, FundTally DEF rollUp
  <2>2. verdict.status = 422 /\ verdict.checks = FundEntries("passed", "failed", "skipped", "skipped")
    BY <2>1 DEF Answer
  <2>3. ~FundIsRight
    BY <1>0, <1>6, <1>10, PoliciesWellFormed
  <2>. QED
    BY <1>0, <1>2, <1>7, <1>10, <2>2, <2>3, FundDescribed DEF BlameIsRight, VerdictIsRight
<1>11. CASE /\ ~lost /\ owner \notin Unanswered /\ intent \notin Unanswered
            /\ verdict = FundJudged(owner, intent)
  <2>. DEFINE listed == Outcome(owner \in policy.acceptedOwners)
              manager == Outcome(request.positionManager \in intent.positionManagers)
              free == Outcome(intent.fund = NoFund)
              e == FundEntries("passed", listed, manager, free)
  <2>1. /\ listed = "failed" <=> owner \notin policy.acceptedOwners
        /\ manager = "failed" <=> request.positionManager \notin intent.positionManagers
        /\ free = "failed" <=> intent.fund # NoFund
    BY DEF Outcome
  <2>2. verdict = FundVerdict(e)
    BY <1>11 DEF FundJudged
  <2>. HIDE DEF listed, manager, free
  <2>3. FundVerdict(e) = Answer(IF \/ Deadline.outcome = "failed" \/ "passed" = "failed" \/ listed = "failed"
                                   \/ manager = "failed" THEN 422
                                ELSE IF free = "failed" THEN 409 ELSE 200, e)
    BY FundTally
  <2>. HIDE DEF e
  <2>4. /\ verdict.checks = e
        /\ verdict.status = IF Deadline.outcome = "failed" \/ listed = "failed" \/ manager = "failed"
                            THEN 422 ELSE IF free = "failed" THEN 409 ELSE 200
    BY <2>2, <2>3 DEF Answer
  <2>5. ~RequestIsRight <=> Deadline.outcome = "failed" \/ listed = "failed" \/ manager = "failed"
    BY <1>0, <1>6, <1>7, <1>11, <2>1, DeadlineEntry DEF Unanswered
  <2>6. AppendixIsDescribed
    BY <1>0, <2>4, FundDescribed DEF e
  <2>. QED
    BY <1>0, <1>2, <1>8, <1>11, <2>1, <2>4, <2>5, <2>6 DEF BlameIsRight, VerdictIsRight
<1>. QED
  BY <1>1, <1>9, <1>10, <1>11

-----------------------------------------------------------------------------
(* Swap.                                                                   *)

\* A concatenation of one item and three.
LEMMA Glue13 ==
  ASSUME NEW a, NEW b, NEW c, NEW d
  PROVE  <<a>> \o <<b, c, d>> = <<a, b, c, d>>
<1>. DEFINE S == {a, b, c, d}
            u == <<a>>
            v == <<b, c, d>>
            t == <<a, b, c, d>>
<1>1. u \in Seq(S) /\ v \in Seq(S) /\ t \in Seq(S) /\ Len(t) = Len(u) + Len(v)
  OBVIOUS
<1>2. (\A i \in 1..Len(u) : t[i] = u[i]) /\ (\A i \in 1..Len(v) : t[Len(u) + i] = v[i])
  OBVIOUS
<1>. HIDE DEF S, u, v, t
<1>3. u \o v = t
  BY <1>1, <1>2, ConcatIs
<1>. QED
  BY <1>3 DEF u, v, t

\* A concatenation of four items and one.
LEMMA Glue41 ==
  ASSUME NEW a, NEW b, NEW c, NEW d, NEW e
  PROVE  <<a, b, c, d>> \o <<e>> = <<a, b, c, d, e>>
<1>. DEFINE S == {a, b, c, d, e}
            u == <<a, b, c, d>>
            v == <<e>>
            t == <<a, b, c, d, e>>
<1>1. u \in Seq(S) /\ v \in Seq(S) /\ t \in Seq(S) /\ Len(t) = Len(u) + Len(v)
  OBVIOUS
<1>2. (\A i \in 1..Len(u) : t[i] = u[i]) /\ (\A i \in 1..Len(v) : t[Len(u) + i] = v[i])
  OBVIOUS
<1>. HIDE DEF S, u, v, t
<1>3. u \o v = t
  BY <1>1, <1>2, ConcatIs
<1>. QED
  BY <1>3 DEF u, v, t

\* The entries of a swap, by their outcomes.
SwapEntries(d, one, owner, asset, price) ==
  << Entry("one_leg_is_a_manager", one), Entry("manager_owner_accepted", owner),
     Entry("other_leg_is_the_debt_asset", asset), Entry("price_within_tolerance", price), d >>

\* The verdict when not exactly one leg is a position manager.
NotOne == rollUp(SwapEntries(Deadline, "failed", "skipped", "skipped", "skipped"))

\* Some accepted factory says that the leg is a position manager.
HitLeg(found, leg) ==
  \E i \in DOMAIN policy.acceptedPmFactories : found[policy.acceptedPmFactories[i]][leg] = TRUE

\* The leg is the one position manager.
OneManager(found, leg) == HitLeg(found, leg) /\ ~HitLeg(found, 3 - leg)

\* Some factory did not answer, or not with a boolean.
Unclear(found) == \E f \in DOMAIN found, leg \in 1..2 : found[f][leg] \notin BOOLEAN

\* What the call saw of the factories.
FactoriesSeen(found, lost) == [read |-> "factories", found |-> found, lost |-> lost]

\* What it saw of the position manager.
ViewsSeen(views, lost) == [read |-> "views", found |-> views, lost |-> lost]

\* A swap call before its first read.
SwapWaits == Kind("swap") /\ saw = <<>>

\* Between its two reads: the first found one position manager, and left is the
\* legs, the manager's first.
SwapOnManager ==
  /\ Kind("swap") /\ checks = <<passed("one_leg_is_a_manager")>>
  /\ \E found \in FactoryAnswers, leg \in {1, 2} :
       /\ OneManager(found, leg)
       /\ saw = <<FactoriesSeen(found, FALSE)>>
       /\ left = <<request.legs[leg], request.legs[3 - leg]>>

\* With no factory accepted there is nothing to read.
SwapUnasked == Kind("swap") /\ saw = <<>> /\ verdict = NotOne

\* The first read ended the call.
SwapStopped ==
  /\ Kind("swap")
  /\ \E found \in FactoryAnswers, lost \in BOOLEAN :
       /\ saw = <<FactoriesSeen(found, lost)>>
       /\ \/ (lost \/ Unclear(found)) /\ verdict = UpstreamUnavailableError
          \/ ~lost /\ (HitLeg(found, 1) <=> HitLeg(found, 2)) /\ verdict = NotOne

\* The debt amount is within the tolerance, as priceCheck computes it.
Tolerated(shares, debt, views, bps) ==
  LET fees == views.pendingFees
      denom == fees.totalSupply + views.virtualShareOffset + fees.feeShares
      expected == (shares * (fees.totalAssets + 1)) \div denom
      delta == IF debt > expected THEN debt - expected ELSE expected - debt
  IN  denom # 0 /\ delta <= bpsToleranceWithWeiFloor(expected, bps)

\* The verdict when the position manager answered every view.
SwapJudged(leg, views) ==
  LET other == request.legs[3 - leg] IN
  rollUp(SwapEntries(Deadline, "passed", Outcome(views.owner \in policy.acceptedPmOwners),
                     Outcome(other.asset = views.debtAsset),
                     IF other.asset = views.debtAsset
                     THEN Outcome(Tolerated(request.legs[leg].amount, other.amount, views,
                                            policy.swapPriceToleranceBps))
                     ELSE "skipped"))

\* The second read ended the call.
SwapAnswered ==
  /\ Kind("swap")
  /\ \E found \in FactoryAnswers, leg \in {1, 2}, views \in ViewAnswers, lost \in BOOLEAN :
       /\ OneManager(found, leg)
       /\ saw = <<FactoriesSeen(found, FALSE), ViewsSeen(views, lost)>>
       /\ \/ /\ lost \/ \E view \in DOMAIN views : views[view] \in Unanswered
             /\ verdict = UpstreamUnavailableError
          \/ /\ ~lost /\ \A view \in DOMAIN views : views[view] \notin Unanswered
             /\ verdict = SwapJudged(leg, views)

\* The entries of a swap in their order.
LEMMA SwapSequence ==
  ASSUME NEW a, NEW b, NEW c, NEW d, NEW e
  PROVE  SwapChecks(a, <<b, c, d>>, e) = <<a, b, c, d, e>>
<1>1. <<a>> \o <<b, c, d>> = <<a, b, c, d>>
  BY Glue13
<1>2. <<a, b, c, d>> \o <<e>> = <<a, b, c, d, e>>
  BY Glue41
<1>. QED
  BY <1>1, <1>2 DEF SwapChecks

\* The early return of a swap is a 422 with every other check skipped.
LEMMA NotOneIs ==
  ASSUME NEW b, NEW p
  PROVE  NotOneManager(b, p) =
           rollUp(SwapEntries(deadlineCheck(b, p), "failed", "skipped", "skipped", "skipped"))
<1>. DEFINE x == skipped("manager_owner_accepted")
            y == skipped("other_leg_is_the_debt_asset")
            z == skipped("price_within_tolerance")
            f == failed("one_leg_is_a_manager")
            d == deadlineCheck(b, p)
<1>1. NotOneManager(b, p) = rollUp(SwapChecks(f, <<x, y, z>>, d))
  BY DEF NotOneManager, OnManagerSkipped
<1>2. SwapEntries(d, "failed", "skipped", "skipped", "skipped") = <<f, x, y, z, d>>
  BY DEF SwapEntries, skipped, failed
<1>. HIDE DEF x, y, z, f
<1>3. SwapChecks(f, <<x, y, z>>, d) = <<f, x, y, z, d>>
  BY SwapSequence
<1>. QED
  BY <1>1, <1>2, <1>3

\* A swap call reads the factories, or ends when none is accepted
\* (intent-swap.ts).
LEMMA SwapArrivesStep ==
  ASSUME NEW b \in Bodies, NEW p \in Policies, SwapArrives(b, p)
  PROVE  \/ phase' = "factories" /\ SwapWaits'
         \/ phase' = "done" /\ SwapUnasked'
<1>1. request' = b /\ policy' = p /\ saw' = <<>> /\ Kind("swap")'
  BY DEF SwapArrives, Arrives, Kind, Builds
<1>2. CASE p.acceptedPmFactories = <<>>
  <2>1. phase' = "done" /\ verdict' = NotOneManager(b, p)
    BY <1>2 DEF SwapArrives, Finish
  <2>2. NotOneManager(b, p) = NotOne'
    BY <1>1, NotOneIs DEF NotOne, Deadline
  <2>. QED
    BY <1>1, <2>1, <2>2 DEF SwapUnasked
<1>3. CASE p.acceptedPmFactories # <<>>
  BY <1>1, <1>3 DEF SwapArrives, Await, SwapWaits
<1>. QED
  BY <1>2, <1>3

\* The price check rounds as the contract does: for any amounts, fees and
\* tolerance, the delta is within bpsToleranceWithWeiFloor of the worth exactly
\* when the products say so, or by the one wei a positive tolerance grants.
THEOREM PriceMeans ==
  ASSUME NEW shares \in Nat, NEW debt \in Nat, NEW v, v.pendingFees \in Fees,
         v.virtualShareOffset \in Nat, NEW bps \in Nat
  PROVE  Tolerated(shares, debt, v, bps) <=> Priced(shares, debt, v, bps)
<1>. DEFINE fees == v.pendingFees
            denom == fees.totalSupply + v.virtualShareOffset + fees.feeShares
            worth == (shares * (fees.totalAssets + 1)) \div denom
            delta == IF debt > worth THEN debt - worth ELSE worth - debt
            tol == bpsToleranceWithWeiFloor(worth, bps)
<1>1. fees.totalSupply \in Nat /\ fees.feeShares \in Nat /\ fees.totalAssets \in Nat
  BY DEF Fees
<1>2. denom \in Nat
  BY <1>1
<1>3. CASE denom = 0
  BY <1>3 DEF Tolerated, Priced
<1>4. CASE denom # 0
  <2>1. worth \in Nat
    <3>. DEFINE n == shares * (fees.totalAssets + 1)
    <3>1. n \in Nat
      BY <1>1
    <3>. HIDE DEF n, denom
    <3>. QED
      BY <1>2, <1>4, <3>1 DEF n
  <2>. HIDE DEF worth
  <2>. DEFINE w == worth * bps
  <2>2. w \in Nat
    BY <2>1
  <2>3. tol = IF w \div 10000 > 0 THEN w \div 10000 ELSE IF bps > 0 THEN 1 ELSE 0
    BY DEF bpsToleranceWithWeiFloor
  <2>4. bps = 0 => w = 0
    BY <2>1
  <2>. HIDE DEF w, tol
  <2>5. delta \in Nat /\ (delta = debt - worth \/ delta = worth - debt)
    BY <2>1
  <2>6. delta <= tol <=> (delta * 10000 <= w \/ (bps > 0 /\ delta <= 1))
    <3>. HIDE DEF delta
    <3>1. w \div 10000 \in Nat /\ 10000 * (w \div 10000) <= w /\ w < 10000 * (w \div 10000) + 10000
      BY <2>2
    <3>. QED
      BY <2>2, <2>3, <2>4, <2>5, <3>1
  <2>7. (\A x \in {debt - worth, worth - debt} : x * 10000 <= w \/ (bps > 0 /\ x <= 1))
          <=> (delta * 10000 <= w \/ (bps > 0 /\ delta <= 1))
    BY <2>1, <2>2
  <2>8. Tolerated(shares, debt, v, bps) <=> delta <= tol
    BY <1>4 DEF Tolerated, worth, tol
  <2>9. Priced(shares, debt, v, bps)
          <=> \A x \in {debt - worth, worth - debt} : x * 10000 <= w \/ (bps > 0 /\ x <= 1)
    BY <1>2, <1>4 DEF Priced, worth, w
  <2>. QED
    BY <2>6, <2>7, <2>8, <2>9
<1>. QED
  BY <1>3, <1>4

\* What the factories' slots say of the legs: a lost slot is never taken for an
\* answer, 0 is for no manager or for two, and a leg is named only when it is
\* the only one that an accepted factory knows (isPositionManager).
THEOREM ManagerLegIs ==
  ASSUME policy \in Policies, NEW found \in FactoryAnswers,
         NEW lost \in SUBSET (1..(2 * Len(policy.acceptedPmFactories))),
         NEW leg, leg = ManagerLeg(multicall(FactorySlots(policy.acceptedPmFactories, found), lost))
  PROVE  /\ lost # {} => leg = Unreachable
         /\ leg = Unreachable => lost # {} \/ Unclear(found)
         /\ leg = 0 => (HitLeg(found, 1) <=> HitLeg(found, 2))
         /\ leg = 1 => OneManager(found, 1)
         /\ leg = 2 => OneManager(found, 2)
<1>. DEFINE F == policy.acceptedPmFactories
            n == Len(F)
            results == multicall(FactorySlots(F, found), lost)
            A(i) == IF i <= n THEN found[F[i]][1] ELSE found[F[i - n]][2]
<1>1. F \in Seq(Range(F)) /\ n \in Nat /\ DOMAIN F = 1..n
  BY PoliciesWellFormed
<1>2. DOMAIN results = 1..(2 * n) /\ results = [i \in 1..(2 * n) |-> results[i]]
  BY DEF multicall, FactorySlots
<1>3. Len(results) \div 2 = n
  <2>1. 2 * n \in Nat /\ (2 * n) \div 2 = n
    <3>1. n \in Nat
      BY <1>1
    <3>. HIDE DEF n
    <3>. QED
      BY <3>1
  <2>2. Len(results) = 2 * n
    <3>. HIDE DEF results
    <3>. QED
      BY <1>2, <2>1
  <2>. QED
    BY <2>1, <2>2
<1>4. ASSUME NEW i \in 1..(2 * n)
      PROVE  /\ i \in lost => results[i].failed /\ results[i].cause = Unreachable
             /\ i \notin lost /\ A(i) \in Unanswered =>
                  results[i].failed /\ results[i].cause = A(i)
                                    /\ results[i].functionName = "isPositionManager"
             /\ i \notin lost /\ A(i) \notin Unanswered =>
                  ~results[i].failed /\ results[i].result = A(i)
  BY DEF multicall, FactorySlots, Failure, Slot, Unanswered
<1>5. ASSUME NEW i \in 1..n
      PROVE  /\ F[i] \in DOMAIN found /\ i \in 1..(2 * n) /\ n + i \in 1..(2 * n)
             /\ A(i) = found[F[i]][1] /\ A(n + i) = found[F[i]][2]
             /\ A(i) \in BOOLEAN \cup Unanswered /\ A(n + i) \in BOOLEAN \cup Unanswered
  <2>1. i <= n /\ ~(n + i <= n) /\ (n + i) - n = i /\ i \in 1..(2 * n) /\ n + i \in 1..(2 * n)
    BY <1>1
  <2>2. F[i] \in Range(F)
    BY <1>1 DEF Range
  <2>. HIDE DEF F
  <2>3. F[i] \in DOMAIN found /\ found[F[i]][1] \in BOOLEAN \cup Unanswered
          /\ found[F[i]][2] \in BOOLEAN \cup Unanswered
    BY <2>2, AnswersWellFormed DEF Unanswered, F
  <2>. QED
    BY <2>1, <2>3
<1>6. ASSUME NEW i \in 1..(2 * n)
      PROVE  i \in 1..n \/ (i \in (n + 1)..(2 * n) /\ i - n \in 1..n /\ n + (i - n) = i)
  BY <1>1
<1>7. ASSUME NEW i \in 1..(2 * n)
      PROVE  /\ A(i) \in BOOLEAN \cup Unanswered
             /\ A(i) \in Unanswered => Unclear(found)
  <2>1. A(i) \in BOOLEAN \cup Unanswered
    BY <1>5, <1>6
  <2>2. ASSUME A(i) \in Unanswered PROVE Unclear(found)
    <3>1. A(i) \notin BOOLEAN
      BY <2>2, SentinelsApart DEF Unanswered
    <3>2. CASE i \in 1..n
      <4>1. F[i] \in DOMAIN found /\ A(i) = found[F[i]][1]
        BY <1>5, <3>2
      <4>. QED
        BY <3>1, <4>1 DEF Unclear
    <3>3. CASE i - n \in 1..n /\ n + (i - n) = i
      <4>1. F[i - n] \in DOMAIN found /\ A(i) = found[F[i - n]][2]
        BY <1>5, <3>3
      <4>. QED
        BY <3>1, <4>1 DEF Unclear
    <3>. QED
      BY <1>6, <3>2, <3>3
  <2>. QED
    BY <2>1, <2>2
<1>. DEFINE aHits == Hits(results, 1..n)
            bHits == Hits(results, (n + 1)..(2 * n))
            odd == \E i \in FailuresOf(results) :
                      ~isDeterministicContractCallFailure(results[i], {"isPositionManager"})
            gone == FailuresOf(results) # {}
<1>8. leg = IF odd THEN Unreachable
            ELSE IF aHits = bHits THEN (IF ~aHits /\ gone THEN Unreachable ELSE 0)
            ELSE IF aHits THEN 1 ELSE 2
  BY <1>3 DEF ManagerLeg
<1>. HIDE DEF results, A
<1>9. lost # {} => odd
  <2>. SUFFICES ASSUME NEW i \in lost PROVE odd
    OBVIOUS
  <2>1. i \in FailuresOf(results) /\ results[i].cause # Reverts
    BY <1>2, <1>4, SentinelsApart DEF FailuresOf
  <2>. QED
    BY <2>1 DEF isDeterministicContractCallFailure
<1>10. odd \/ gone => lost # {} \/ Unclear(found)
  <2>. SUFFICES ASSUME NEW i \in FailuresOf(results) PROVE lost # {} \/ Unclear(found)
    OBVIOUS
  <2>1. i \in 1..(2 * n) /\ results[i].failed
    BY <1>2 DEF FailuresOf
  <2>. QED
    BY <1>4, <1>7, <2>1
<1>11. ASSUME lost = {} PROVE aHits <=> HitLeg(found, 1)
  <2>1. ASSUME NEW i \in 1..n PROVE ~results[i].failed /\ results[i].result <=> found[F[i]][1] = TRUE
    BY <1>4, <1>5, <1>11, SentinelsApart DEF Unanswered
  <2>. QED
    BY <1>1, <2>1 DEF Hits, HitLeg
<1>12. ASSUME lost = {} PROVE bHits <=> HitLeg(found, 2)
  <2>1. ASSUME NEW i \in 1..n
        PROVE  ~results[n + i].failed /\ results[n + i].result <=> found[F[i]][2] = TRUE
    BY <1>4, <1>5, <1>12, SentinelsApart DEF Unanswered
  <2>2. ASSUME NEW i \in 1..n PROVE n + i \in (n + 1)..(2 * n)
    BY <1>1
  <2>3. ASSUME NEW i \in (n + 1)..(2 * n) PROVE i - n \in 1..n /\ n + (i - n) = i
    BY <1>1
  <2>. QED
    BY <1>1, <2>1, <2>2, <2>3 DEF Hits, HitLeg
<1>13. Unreachable \notin {0, 1, 2}
  BY SentinelsApart
<1>14. aHits \in BOOLEAN /\ bHits \in BOOLEAN
  BY DEF Hits
<1>. HIDE DEF odd, aHits, bHits, gone
<1>. QED
  BY <1>8, <1>9, <1>10, <1>11, <1>12, <1>13, <1>14 DEF OneManager

\* The read of the factories goes on to one position manager, or ends the call.
LEMMA SwapFactoriesStep ==
  ASSUME SwapWaits, NEW found \in FactoryAnswers,
         NEW lost \in SUBSET (1..(2 * Len(policy.acceptedPmFactories))),
         SwapFactories(found, lost)
  PROVE  \/ phase' = "done" /\ SwapStopped'
         \/ phase' = "views" /\ SwapOnManager'
<1>. DEFINE leg == ManagerLeg(multicall(FactorySlots(policy.acceptedPmFactories, found), lost))
            away == lost # {}
<1>1. /\ away => leg = Unreachable
      /\ leg = Unreachable => away \/ Unclear(found)
      /\ leg = 0 => (HitLeg(found, 1) <=> HitLeg(found, 2))
      /\ leg = 1 => OneManager(found, 1)
      /\ leg = 2 => OneManager(found, 2)
  BY ManagerLegIs DEF SwapWaits, Kind
<1>2. /\ request' = request /\ policy' = policy /\ saw' = <<FactoriesSeen(found, away)>>
  BY DEF SwapFactories, Sees, SwapWaits, FactoriesSeen
<1>3. /\ Kind("swap")' /\ Deadline' = Deadline /\ NotOne' = NotOne
      /\ \A l : HitLeg(found, l)' <=> HitLeg(found, l)
  BY <1>2 DEF SwapWaits, Kind, Builds, Deadline, NotOne, HitLeg
<1>4. Unreachable \notin {0, 1, 2}
  BY SentinelsApart
<1>5. away \in BOOLEAN
  OBVIOUS
<1>6. CASE leg = Unreachable
  <2>1. phase' = "done" /\ verdict' = UpstreamUnavailableError
    BY <1>4, <1>6 DEF SwapFactories, Finish
  <2>. HIDE DEF leg, away
  <2>. QED
    BY <1>1, <1>2, <1>3, <1>5, <1>6, <2>1 DEF SwapStopped, FactoriesSeen, UpstreamUnavailableError
<1>7. CASE leg = 0
  <2>1. phase' = "done" /\ verdict' = NotOneManager(request, policy)
    BY <1>4, <1>7 DEF SwapFactories, Finish
  <2>2. verdict' = NotOne'
    BY <1>3, <2>1, NotOneIs DEF NotOne, Deadline
  <2>3. ~away
    BY <1>1, <1>4, <1>7
  <2>. HIDE DEF leg, away
  <2>. QED
    BY <1>1, <1>2, <1>3, <1>5, <1>7, <2>1, <2>2, <2>3 DEF SwapStopped, FactoriesSeen
<1>8. ASSUME NEW l \in {1, 2}, leg = l PROVE phase' = "views" /\ SwapOnManager'
  <2>1. /\ phase' = "views" /\ left' = << request.legs[l], request.legs[3 - l] >>
        /\ checks' = <<passed("one_leg_is_a_manager")>>
    BY <1>4, <1>8 DEF SwapFactories, Await
  <2>2. ~away /\ OneManager(found, l)
    BY <1>1, <1>4, <1>8
  <2>. HIDE DEF leg, away
  <2>3. OneManager(found, l)' /\ saw' = <<FactoriesSeen(found, FALSE)>>
    BY <1>2, <1>3, <1>5, <2>2 DEF OneManager
  <2>4. left' = << request'.legs[l], request'.legs[3 - l] >>
    BY <1>2, <2>1
  <2>. QED
    BY <1>3, <1>8, <2>1, <2>3, <2>4 DEF SwapOnManager, FactoriesSeen, passed, Entry
<1>9. leg = Unreachable \/ leg = 0 \/ leg \in {1, 2}
  BY DEF SwapFactories
<1>. QED
  BY <1>6, <1>7, <1>8, <1>9

\* The read of the four views throws when it is lost or a view has no answer.
LEMMA FourSlots ==
  ASSUME NEW v \in ViewAnswers, NEW lost \in Lost(4)
  PROVE  Throws(multicall(<< Slot("owner", v.owner), Slot("assets", v.debtAsset),
                             Slot("pendingFees", v.pendingFees),
                             Slot("virtualShareOffset", v.virtualShareOffset) >>, lost))
           <=> lost # {} \/ \E view \in DOMAIN v : v[view] \in Unanswered
<1>. DEFINE results == multicall(<< Slot("owner", v.owner), Slot("assets", v.debtAsset),
                             Slot("pendingFees", v.pendingFees),
                             Slot("virtualShareOffset", v.virtualShareOffset) >>, lost)
<1>1. DOMAIN v = {"owner", "debtAsset", "pendingFees", "virtualShareOffset"}
  BY AnswersWellFormed
<1>2. DOMAIN results = 1..4 /\ lost \in {{}, 1..4}
  BY DEF multicall, Lost
<1>3. /\ results[1].failed <=> lost # {} \/ v.owner \in Unanswered
      /\ results[2].failed <=> lost # {} \/ v.debtAsset \in Unanswered
      /\ results[3].failed <=> lost # {} \/ v.pendingFees \in Unanswered
      /\ results[4].failed <=> lost # {} \/ v.virtualShareOffset \in Unanswered
  BY <1>2 DEF multicall, Failure, Slot, Unanswered
<1>4. Throws(results) <=> \E i \in 1..4 : results[i].failed
  BY <1>2 DEF Throws, FailuresOf
<1>. HIDE DEF results
<1>5. (\E i \in 1..4 : results[i].failed) <=>
        results[1].failed \/ results[2].failed \/ results[3].failed \/ results[4].failed
  OBVIOUS
<1>6. (\E view \in DOMAIN v : v[view] \in Unanswered) <=>
         \/ v.owner \in Unanswered \/ v.debtAsset \in Unanswered
         \/ v.pendingFees \in Unanswered \/ v.virtualShareOffset \in Unanswered
  BY <1>1
<1>. QED
  BY <1>3, <1>4, <1>5, <1>6 DEF results

\* The read of the position manager ends the call by what it found.
LEMMA SwapViewsStep ==
  ASSUME SwapOnManager, NEW views \in ViewAnswers, NEW lost \in Lost(4), SwapViews(views, lost)
  PROVE  phase' = "done" /\ SwapAnswered'
<1>. DEFINE away == lost # {}
            dark == \E view \in DOMAIN views : views[view] \in Unanswered
            slots == << Slot("owner", views.owner), Slot("assets", views.debtAsset),
                        Slot("pendingFees", views.pendingFees),
                        Slot("virtualShareOffset", views.virtualShareOffset) >>
<1>1. PICK found \in FactoryAnswers, leg \in {1, 2} :
        /\ OneManager(found, leg)
        /\ saw = <<FactoriesSeen(found, FALSE)>>
        /\ left = <<request.legs[leg], request.legs[3 - leg]>>
  BY DEF SwapOnManager
<1>2. /\ request' = request /\ policy' = policy
      /\ saw' = <<FactoriesSeen(found, FALSE), ViewsSeen(views, away)>>
  <2>. DEFINE x == FactoriesSeen(found, FALSE)
              y == ViewsSeen(views, away)
  <2>1. saw' = Append(<<x>>, y) /\ request' = request /\ policy' = policy
    BY <1>1 DEF SwapViews, Sees, ViewsSeen
  <2>. HIDE DEF x, y
  <2>2. Append(<<x>>, y) = <<x, y>>
    BY AppendSecond
  <2>. QED
    BY <2>1, <2>2 DEF x, y
<1>3. /\ Kind("swap")' /\ Deadline' = Deadline /\ OneManager(found, leg)'
  BY <1>1, <1>2 DEF SwapOnManager, Kind, Builds, Deadline, OneManager, HitLeg
<1>4. Throws(multicall(slots, lost)) <=> away \/ dark
  BY FourSlots
<1>5. away \in BOOLEAN
  OBVIOUS
<1>6. CASE away \/ dark
  <2>1. phase' = "done" /\ verdict' = UpstreamUnavailableError
    BY <1>4, <1>6 DEF SwapViews, Finish
  <2>. HIDE DEF away
  <2>. QED
    BY <1>2, <1>3, <1>5, <1>6, <2>1 DEF SwapAnswered, FactoriesSeen, ViewsSeen, UpstreamUnavailableError
<1>7. CASE ~away /\ ~dark
  <2>. DEFINE one == request.legs[leg]
              other == request.legs[3 - leg]
              a == Entry("manager_owner_accepted", Outcome(views.owner \in policy.acceptedPmOwners))
              b == Entry("other_leg_is_the_debt_asset", Outcome(other.asset = views.debtAsset))
              t == Tolerated(one.amount, other.amount, views, policy.swapPriceToleranceBps)
              c == Entry("price_within_tolerance",
                         IF other.asset = views.debtAsset THEN Outcome(t) ELSE "skipped")
  <2>1. left[1] = one /\ left[2] = other /\ checks[1] = passed("one_leg_is_a_manager")
    BY <1>1 DEF SwapOnManager
  <2>2. checkMembership("manager_owner_accepted", views.owner, policy.acceptedPmOwners) = a
    BY DEF checkMembership, entryIf, passed, failed, Outcome
  <2>3. entryIf("other_leg_is_the_debt_asset", other.asset = views.debtAsset) = b
    BY DEF entryIf, passed, failed, Outcome
  <2>4. priceCheck(one.amount, other.amount, views, policy.swapPriceToleranceBps)
          = Entry("price_within_tolerance", Outcome(t))
    BY DEF priceCheck, Tolerated, entryIf, passed, failed, Outcome
  <2>. HIDE DEF t
  <2>5. b.outcome = "failed" <=> other.asset # views.debtAsset
    BY DEF Entry, Outcome
  <2>6. (IF b.outcome = "failed" THEN skipped("price_within_tolerance")
         ELSE priceCheck(one.amount, other.amount, views, policy.swapPriceToleranceBps)) = c
    BY <2>4, <2>5 DEF skipped
  <2>. HIDE DEF a, b, c, one, other
  <2>7. /\ phase' = "done"
        /\ verdict' = rollUp(SwapChecks(passed("one_leg_is_a_manager"), <<a, b, c>>, Deadline))
    BY <1>4, <1>7, <2>1, <2>2, <2>3, <2>6 DEF SwapViews, Finish, Deadline
  <2>8. SwapChecks(passed("one_leg_is_a_manager"), <<a, b, c>>, Deadline)
          = <<passed("one_leg_is_a_manager"), a, b, c, Deadline>>
    BY SwapSequence
  <2>9. verdict' = SwapJudged(leg, views)
    BY <2>7, <2>8 DEF SwapJudged, SwapEntries, passed, a, b, c, t, one, other
  <2>10. SwapJudged(leg, views)' = SwapJudged(leg, views)
    BY <1>2, <1>3 DEF SwapJudged
  <2>. HIDE DEF away
  <2>. QED
    BY <1>2, <1>3, <1>5, <1>7, <2>7, <2>9, <2>10 DEF SwapAnswered, FactoriesSeen, ViewsSeen
<1>. QED
  BY <1>6, <1>7

\* Five entries of five checks describe the appendix of a swap.
LEMMA SwapDescribed ==
  ASSUME Kind("swap"), NEW a, NEW b, NEW c, NEW d, verdict.checks = SwapEntries(Deadline, a, b, c, d)
  PROVE  AppendixIsDescribed
<1>. DEFINE e == verdict.checks
<1>1. DOMAIN e = 1..5
  BY DEF SwapEntries
<1>2. /\ e[1].check = "one_leg_is_a_manager" /\ e[2].check = "manager_owner_accepted"
      /\ e[3].check = "other_leg_is_the_debt_asset" /\ e[4].check = "price_within_tolerance"
      /\ e[5].check = "deadline"
  BY DeadlineEntry DEF SwapEntries, Entry, Kind
<1>. HIDE DEF e
<1>3. Reported = {e[i].check : i \in 1..5}
  BY <1>1 DEF Reported, e
<1>4. Appendix = {"deadline", "one_leg_is_a_manager", "manager_owner_accepted",
                  "other_leg_is_the_debt_asset", "price_within_tolerance"}
  BY DEF Appendix, Kind
<1>5. Appendix \subseteq Reported
  <2>1. e[1].check \in Reported /\ e[2].check \in Reported /\ e[3].check \in Reported
        /\ e[4].check \in Reported /\ e[5].check \in Reported
    BY <1>3
  <2>. QED
    BY <1>2, <1>4, <2>1
<1>6. \A i, j \in DOMAIN e : e[i].check = e[j].check => i = j
  BY <1>1, <1>2
<1>. QED
  BY <1>5, <1>6 DEF AppendixIsDescribed, e

\* A swap fails when any of its five entries does.
LEMMA SwapTally ==
  ASSUME NEW a, NEW b, NEW c, NEW d
  PROVE  anyFailed(SwapEntries(Deadline, a, b, c, d)) <=>
           Deadline.outcome = "failed" \/ a = "failed" \/ b = "failed" \/ c = "failed" \/ d = "failed"
<1>. DEFINE e == SwapEntries(Deadline, a, b, c, d)
<1>1. DOMAIN e = 1..5
  BY DEF SwapEntries
<1>2. /\ e[1].outcome = a /\ e[2].outcome = b /\ e[3].outcome = c
      /\ e[4].outcome = d /\ e[5].outcome = Deadline.outcome
  BY DEF SwapEntries, Entry
<1>. HIDE DEF e
<1>3. anyFailed(e) <=> Deadline.outcome = "failed" \/ a = "failed" \/ b = "failed"
                                                   \/ c = "failed" \/ d = "failed"
  BY <1>1, <1>2 DEF anyFailed
<1>. QED
  BY <1>3 DEF e

\* A swap without exactly one position manager is wrong, and is a 422.
LEMMA NotOneJudges ==
  ASSUME Kind("swap"), verdict = NotOne, \A leg \in 1..2 : ~(IsManager(leg) /\ ~IsManager(3 - leg))
  PROVE  verdict.status = 422 /\ ~RequestIsRight /\ AppendixIsDescribed
<1>1. verdict.status = 422 /\ verdict.checks = SwapEntries(Deadline, "failed", "skipped", "skipped", "skipped")
  BY SwapTally DEF NotOne, rollUp, Answer
<1>2. ~RequestIsRight
  BY DEF RequestIsRight, SwapIsRight, Kind
<1>. QED
  BY <1>1, <1>2, SwapDescribed

\* A swap call that read nothing is right in all three ways.
LEMMA SwapUnaskedRight ==
  SwapUnasked => BlameIsRight /\ VerdictIsRight /\ AppendixIsDescribed
<1>. SUFFICES ASSUME SwapUnasked PROVE BlameIsRight /\ VerdictIsRight /\ AppendixIsDescribed
  OBVIOUS
<1>1. DOMAIN saw = {} /\ Kind("swap") /\ verdict = NotOne
  BY DEF SwapUnasked
<1>2. \A leg \in 1..2 : ~IsManager(leg)
  BY <1>1 DEF IsManager, Found, Did
<1>3. verdict.status = 422 /\ ~RequestIsRight /\ AppendixIsDescribed
  BY <1>1, <1>2, NotOneJudges
<1>. QED
  BY <1>1, <1>3 DEF BlameIsRight, VerdictIsRight

\* So is one that its first read ended.
LEMMA SwapStoppedRight ==
  SwapStopped => BlameIsRight /\ VerdictIsRight /\ AppendixIsDescribed
<1>. SUFFICES ASSUME SwapStopped PROVE BlameIsRight /\ VerdictIsRight /\ AppendixIsDescribed
  OBVIOUS
<1>1. PICK found \in FactoryAnswers, lost \in BOOLEAN :
       /\ saw = <<FactoriesSeen(found, lost)>>
       /\ \/ (lost \/ Unclear(found)) /\ verdict = UpstreamUnavailableError
          \/ ~lost /\ (HitLeg(found, 1) <=> HitLeg(found, 2)) /\ verdict = NotOne
  BY DEF SwapStopped
<1>2. DOMAIN saw = {1} /\ saw[1].read = "factories" /\ saw[1].found = found /\ saw[1].lost = lost
  BY <1>1 DEF FactoriesSeen
<1>3. CASE (lost \/ Unclear(found)) /\ verdict = UpstreamUnavailableError
  <2>1. verdict.status = 503
    BY <1>3 DEF UpstreamUnavailableError, Answer
  <2>2. Unclear(found) => NotTheClients(saw[1])
    BY <1>2 DEF NotTheClients, Unclear
  <2>. QED
    BY <1>2, <1>3, <2>1, <2>2 DEF BlameIsRight, VerdictIsRight, AppendixIsDescribed
<1>4. CASE ~lost /\ (HitLeg(found, 1) <=> HitLeg(found, 2)) /\ verdict = NotOne
  <2>1. Found("factories") = {found}
    BY <1>2 DEF Found, Did
  <2>2. \A leg : IsManager(leg) <=> HitLeg(found, leg)
    BY <2>1 DEF IsManager, HitLeg
  <2>3. \A leg \in 1..2 : ~(IsManager(leg) /\ ~IsManager(3 - leg))
    BY <1>4, <2>2
  <2>4. Kind("swap") /\ request.kind = "swap"
    BY DEF SwapStopped, Kind
  <2>5. verdict.status = 422 /\ ~RequestIsRight /\ AppendixIsDescribed
    BY <1>4, <2>3, <2>4, NotOneJudges
  <2>. QED
    BY <1>2, <1>4, <2>4, <2>5 DEF BlameIsRight, VerdictIsRight
<1>. QED
  BY <1>1, <1>3, <1>4

\* So is one that read twice, whatever the chain did between the reads.
LEMMA SwapAnsweredRight ==
  SwapAnswered => BlameIsRight /\ VerdictIsRight /\ AppendixIsDescribed
<1>. SUFFICES ASSUME SwapAnswered PROVE BlameIsRight /\ VerdictIsRight /\ AppendixIsDescribed
  OBVIOUS
<1>0. /\ Kind("swap") /\ request \in Bodies /\ request.kind = "swap" /\ policy \in Policies
      /\ policy.swapPriceToleranceBps \in Nat
  BY DEF SwapAnswered, Kind, Builds
<1>1. PICK found \in FactoryAnswers, leg \in {1, 2}, views \in ViewAnswers, lost \in BOOLEAN :
       /\ OneManager(found, leg)
       /\ saw = <<FactoriesSeen(found, FALSE), ViewsSeen(views, lost)>>
       /\ \/ /\ lost \/ \E view \in DOMAIN views : views[view] \in Unanswered
             /\ verdict = UpstreamUnavailableError
          \/ /\ ~lost /\ \A view \in DOMAIN views : views[view] \notin Unanswered
             /\ verdict = SwapJudged(leg, views)
  BY DEF SwapAnswered
<1>2. /\ DOMAIN saw = {1, 2} /\ saw[1].read = "factories" /\ saw[1].found = found /\ saw[1].lost = FALSE
      /\ saw[2].read = "views" /\ saw[2].found = views /\ saw[2].lost = lost
  BY <1>1 DEF FactoriesSeen, ViewsSeen
<1>3. Found("factories") = {found} /\ Found("views") = {views}
  BY <1>2 DEF Found, Did
<1>4. \A l : IsManager(l) <=> HitLeg(found, l)
  BY <1>3 DEF IsManager, HitLeg
<1>. DEFINE one == request.legs[leg]
            other == request.legs[3 - leg]
<1>5. one.amount \in Nat /\ other.amount \in Nat
  BY <1>0, <1>1, BodiesWellFormed
<1>6. CASE /\ lost \/ \E view \in DOMAIN views : views[view] \in Unanswered
           /\ verdict = UpstreamUnavailableError
  <2>1. verdict.status = 503
    BY <1>6 DEF UpstreamUnavailableError, Answer
  <2>2. (\E view \in DOMAIN views : views[view] \in Unanswered) => NotTheClients(saw[2])
    BY <1>2 DEF NotTheClients, Unanswered
  <2>. QED
    BY <1>2, <1>6, <2>1, <2>2 DEF BlameIsRight, VerdictIsRight, AppendixIsDescribed
<1>7. CASE /\ ~lost /\ \A view \in DOMAIN views : views[view] \notin Unanswered
           /\ verdict = SwapJudged(leg, views)
  <2>. DEFINE owned == views.owner \in policy.acceptedPmOwners
              match == other.asset = views.debtAsset
              t == Tolerated(one.amount, other.amount, views, policy.swapPriceToleranceBps)
              c == IF match THEN Outcome(t) ELSE "skipped"
              e == SwapEntries(Deadline, "passed", Outcome(owned), Outcome(match), c)
  <2>1. verdict = rollUp(e)
    BY <1>7 DEF SwapJudged
  <2>2. views.pendingFees \in Fees /\ views.virtualShareOffset \in Nat
    <3>1. /\ DOMAIN views = {"owner", "debtAsset", "pendingFees", "virtualShareOffset"}
          /\ views.pendingFees \in Fees \cup {Reverts, Malformed}
          /\ views.virtualShareOffset \in Nat \cup {Reverts, Malformed}
      BY AnswersWellFormed
    <3>. QED
      BY <1>7, <3>1 DEF Unanswered
  <2>. HIDE DEF one, other
  <2>3. t <=> Priced(one.amount, other.amount, views, policy.swapPriceToleranceBps)
    BY <1>0, <1>5, <2>2, PriceMeans
  <2>4. SwapIsRight <=> owned /\ match /\ t
    <3>1. \A l \in 1..2 : IsManager(l) /\ ~IsManager(3 - l) <=> l = leg
      BY <1>1, <1>4 DEF OneManager
    <3>2. leg \in 1..2
      OBVIOUS
    <3>3. SwapIsRight <=> \E v \in Found("views") :
           /\ v.owner \in policy.acceptedPmOwners
           /\ v.debtAsset = other.asset
           /\ Priced(one.amount, other.amount, v, policy.swapPriceToleranceBps)
      BY <3>1, <3>2 DEF SwapIsRight, one, other
    <3>. QED
      BY <1>3, <2>3, <3>3
  <2>5. /\ Outcome(owned) = "failed" <=> ~owned
        /\ Outcome(match) = "failed" <=> ~match
        /\ c = "failed" <=> match /\ ~t
    BY DEF Outcome
  <2>. HIDE DEF c, t, owned, match
  <2>6. anyFailed(e) <=> Deadline.outcome = "failed" \/ ~owned \/ ~match \/ (match /\ ~t)
    BY <2>5, SwapTally
  <2>. HIDE DEF e
  <2>7. /\ verdict.checks = e
        /\ verdict.status = IF anyFailed(e) THEN 422 ELSE 200
    BY <2>1 DEF rollUp, Answer
  <2>8. RequestIsRight <=> Deadline.outcome # "failed" /\ SwapIsRight
    BY <1>0, DeadlineEntry DEF RequestIsRight
  <2>9. AppendixIsDescribed
    BY <1>0, <2>7, SwapDescribed DEF e
  <2>. QED
    BY <1>0, <1>2, <1>7, <2>4, <2>6, <2>7, <2>8, <2>9 DEF BlameIsRight, VerdictIsRight
<1>. QED
  BY <1>1, <1>6, <1>7

-----------------------------------------------------------------------------
(* Whitelisting.                                                           *)

\* The checks a sequence of entries reports.
Names(s) == {s[i].check : i \in DOMAIN s}

\* No check twice of one subject, nor of the request and of a contract.
Unique(s) ==
  \A i, j \in DOMAIN s : s[i].check = s[j].check /\ s[i].of \in {NoContract, s[j].of} => i = j

\* The entries a whitelisting call collects.
ListingEntries ==
  [ check : {"book_accepted", "request_contract", "deadline", "book_has_nonces",
             "nonce_unconsumed", "nonce_above_floor", "nonce_below_ceiling"},
    of : {NoContract} \cup Range(request.requestContracts),
    outcome : {"passed", "failed", "skipped"} ]

\* A part of the answer of a whitelisting call: its checks, and whether one
\* failed.
Part(s, names, bad) ==
  /\ s \in Seq(ListingEntries) /\ Names(s) = names /\ Unique(s)
  /\ anyFailed(s) <=> bad

\* Two parts with no check in common are a part, that fails when either does.
LEMMA Join ==
  ASSUME NEW a, NEW b, NEW M, NEW N, NEW x \in BOOLEAN, NEW y \in BOOLEAN,
         Part(a, M, x), Part(b, N, y), M \cap N = {}
  PROVE  Part(a \o b, M \cup N, x \/ y)
<1>. DEFINE c == a \o b
<1>0. /\ c \in Seq(ListingEntries) /\ DOMAIN c = 1..(Len(a) + Len(b))
      /\ Len(a) \in Nat /\ DOMAIN a = 1..Len(a) /\ Len(b) \in Nat /\ DOMAIN b = 1..Len(b)
      /\ \A i \in DOMAIN a : c[i] = a[i]
      /\ \A i \in DOMAIN b : c[Len(a) + i] = b[i]
      /\ \A i \in DOMAIN c : i \in DOMAIN a \/ \E j \in DOMAIN b : i = Len(a) + j
  BY Glue DEF Part
<1>. HIDE DEF c
<1>1. /\ \A i \in DOMAIN a : i \in DOMAIN c
      /\ \A j \in DOMAIN b : Len(a) + j \in DOMAIN c
  BY <1>0
<1>2. Names(c) = Names(a) \cup Names(b)
  <2>1. ASSUME NEW n \in Names(c) PROVE n \in Names(a) \/ n \in Names(b)
    BY <1>0 DEF Names
  <2>2. ASSUME NEW n \in Names(a) PROVE n \in Names(c)
    BY <1>0, <1>1 DEF Names
  <2>3. ASSUME NEW n \in Names(b) PROVE n \in Names(c)
    BY <1>0, <1>1 DEF Names
  <2>. QED
    BY <2>1, <2>2, <2>3
<1>3. anyFailed(c) <=> anyFailed(a) \/ anyFailed(b)
  BY <1>0, <1>1 DEF anyFailed
<1>4. ASSUME NEW i \in DOMAIN c, NEW j \in DOMAIN c,
             c[i].check = c[j].check, c[i].of \in {NoContract, c[j].of}
      PROVE  i = j
  <2>1. CASE i \in DOMAIN a /\ j \in DOMAIN a
    BY <1>0, <1>4, <2>1 DEF Part, Unique
  <2>2. ASSUME NEW k \in DOMAIN b, NEW l \in DOMAIN b, i = Len(a) + k, j = Len(a) + l PROVE i = j
    BY <1>0, <1>4, <2>2 DEF Part, Unique
  <2>3. ASSUME NEW k \in DOMAIN a, NEW l \in DOMAIN b PROVE a[k].check # b[l].check
    BY DEF Part, Names
  <2>. QED
    BY <1>0, <1>4, <2>1, <2>2, <2>3
<1>. QED
  BY <1>0, <1>2, <1>3, <1>4 DEF Part, Unique, c

\* The same, with a name for the outcome.
LEMMA JoinEither ==
  ASSUME NEW a, NEW b, NEW M, NEW N, NEW x \in BOOLEAN, NEW y \in BOOLEAN, NEW z,
         Part(a, M, x), Part(b, N, y), M \cap N = {}, z = (x \/ y)
  PROVE  Part(a \o b, M \cup N, z)
<1>1. CASE x = TRUE
  <2>1. Part(a \o b, M \cup N, TRUE \/ y)
    BY <1>1, Join
  <2>2. z = TRUE /\ z = (TRUE \/ y)
    BY <1>1
  <2>. QED
    BY <2>1, <2>2
<1>2. CASE x = FALSE
  <2>1. Part(a \o b, M \cup N, FALSE \/ y)
    BY <1>2, Join
  <2>2. z = y /\ z = (FALSE \/ y)
    BY <1>2
  <2>. QED
    BY <2>1, <2>2
<1>. QED
  BY <1>1, <1>2

\* The contracts whose A.1 checks the batch runs.
Listed == IF request.operation = "whitelist" THEN request.requestContracts ELSE <<>>

\* The batch is not too long.
WithinCap == Len(request.requestContracts) <= policy.maxRequestContracts

\* The whitelist book is one the policy accepts.
BookAccepted ==
  \/ policy.acceptedWhitelistBooks = AnyBook
  \/ request.whitelistBook \in policy.acceptedWhitelistBooks

\* The gate's entries.
Gate == BookGate(request, policy)

\* What a whitelisting call sees.
Reads ==
  [ read : {"contract", "book"},
    found : [contract : Range(request.requestContracts), passes : BOOLEAN] \cup BookAnswers,
    lost : BOOLEAN ]

\* The first n contracts of the batch have been checked, in their order.
Checked(n) ==
  \A i \in 1..n : /\ saw[i].read = "contract" /\ saw[i].lost = FALSE
                  /\ saw[i].found.contract = Listed[i]
                  /\ saw[i].found.passes \in BOOLEAN

\* The entry the batch keeps of one contract.
ContractEntry(contract, passes) ==
  [check |-> "request_contract", of |-> contract, outcome |-> Outcome(passes)]

\* The entries of the first n contracts, by what their checks found.
BatchEntries(n) == [i \in 1..n |-> ContractEntry(Listed[i], saw[i].found.passes)]

\* A whitelisting call that got past its two early returns.
Listing == Kind("whitelisting") /\ WithinCap /\ BookAccepted /\ saw \in Seq(Reads)

\* Between two contracts: the entries are those of the contracts checked, and
\* left is the others.
ListingAtContract ==
  /\ Listing /\ Len(saw) < Len(Listed) /\ Checked(Len(saw))
  /\ left \in Seq(Range(request.requestContracts))
  /\ Len(left) = Len(Listed) - Len(saw)
  /\ \A i \in 1..Len(left) : left[i] = Listed[Len(saw) + i]
  /\ checks = Gate \o BatchEntries(Len(saw))

\* What is collected before the book is read.
Collected == (Gate \o BatchEntries(Len(Listed))) \o <<Deadline>>

\* Before the read of the book: every contract has been checked.
ListingAtBook ==
  /\ Listing /\ Len(saw) = Len(Listed) /\ Checked(Len(saw))
  /\ checks = Collected

\* A batch that is too long is described by that alone.
ListingOverCap ==
  /\ Kind("whitelisting") /\ ~WithinCap /\ saw = <<>>
  /\ verdict = rollUp(<<failed("batch_within_cap")>>)

\* A book that is not accepted ends the call without a read.
ListingBookRefused ==
  /\ Kind("whitelisting") /\ WithinCap /\ ~BookAccepted /\ saw = <<>>
  /\ verdict = rollUp(Gate \o <<Deadline>> \o NonceSkipped)

\* An upstream failure in the batch ends the call.
ListingLost ==
  /\ Kind("whitelisting") /\ verdict = UpstreamUnavailableError
  /\ \E i \in DOMAIN saw : saw[i].lost

\* The nonce's entries by what the book answered.
NonceWindow(book) ==
  checkNonceWindow(request.nonce, book.consumed, book.floor, policy.maxNonceAboveFloor)

\* The read of the book ended the call.
ListingAnswered ==
  /\ Listing /\ Len(saw) = Len(Listed) + 1 /\ Checked(Len(Listed))
  /\ \E book \in BookAnswers, lost \in BOOLEAN :
       /\ saw[Len(saw)] = [read |-> "book", found |-> book, lost |-> lost]
       /\ \/ /\ lost \/ Malformed \in {book.floor, book.consumed}
             /\ verdict = UpstreamUnavailableError
          \/ /\ ~lost /\ Reverts \in {book.floor, book.consumed}
             /\ verdict = rollUp(Collected \o <<failed("book_has_nonces")>> \o NonceSkipped)
          \/ /\ ~lost /\ book.floor \notin Unanswered /\ book.consumed \notin Unanswered
             /\ verdict = rollUp(Collected \o NonceWindow(book))

\* No contract is in the batch twice, and no address stands for none.
LEMMA ListedWell ==
  ASSUME Kind("whitelisting")
  PROVE  /\ Listed \in Seq(Range(request.requestContracts)) /\ Len(Listed) \in Nat
         /\ DOMAIN Listed = 1..Len(Listed)
         /\ \A i \in 1..Len(Listed) : Listed[i] \in Range(request.requestContracts)
         /\ \A i, j \in 1..Len(Listed) : Listed[i] = Listed[j] => i = j
         /\ NoContract \notin Range(request.requestContracts)
         /\ request.nonce \in Nat /\ policy.maxNonceAboveFloor \in Nat
<1>. DEFINE R == Range(request.requestContracts)
<1>1. /\ request.requestContracts \in Seq(R) /\ IsInjective(request.requestContracts)
      /\ NoContract \notin R /\ request.nonce \in Nat /\ policy.maxNonceAboveFloor \in Nat
  BY BodiesWellFormed, PoliciesWellFormed DEF Kind
<1>. HIDE DEF R
<1>2. Listed \in Seq(R)
  BY <1>1 DEF Listed
<1>3. \A i, j \in 1..Len(Listed) : Listed[i] = Listed[j] => i = j
  BY <1>1 DEF Listed, IsInjective
<1>4. Len(Listed) \in Nat /\ DOMAIN Listed = 1..Len(Listed)
  BY <1>2
<1>5. \A i \in 1..Len(Listed) : Listed[i] \in R
  BY <1>2
<1>. QED
  BY <1>1, <1>2, <1>3, <1>4, <1>5 DEF R

\* The gate is a part that fails when the book is not accepted.
LEMMA GatePart ==
  ASSUME Kind("whitelisting")
  PROVE  Part(Gate, IF policy.acceptedWhitelistBooks = AnyBook THEN {} ELSE {"book_accepted"},
              ~BookAccepted)
<1>1. CASE policy.acceptedWhitelistBooks = AnyBook
  <2>1. Gate = <<>> /\ DOMAIN Gate = {}
    BY <1>1 DEF Gate, BookGate
  <2>2. Gate \in Seq(ListingEntries)
    BY <2>1
  <2>. QED
    BY <1>1, <2>1, <2>2 DEF Part, Names, Unique, anyFailed, BookAccepted
<1>2. CASE policy.acceptedWhitelistBooks # AnyBook
  <2>. DEFINE e == Entry("book_accepted", Outcome(request.whitelistBook \in policy.acceptedWhitelistBooks))
  <2>1. Gate = <<e>>
    BY <1>2 DEF Gate, BookGate, checkMembership, entryIf, passed, failed, Outcome
  <2>2. /\ e.check = "book_accepted" /\ e \in ListingEntries
        /\ e.outcome = "failed" <=> request.whitelistBook \notin policy.acceptedWhitelistBooks
    BY DEF Entry, Outcome, ListingEntries
  <2>. HIDE DEF e
  <2>3. DOMAIN Gate = {1} /\ Gate[1] = e /\ Gate \in Seq(ListingEntries)
    BY <2>1, <2>2
  <2>. QED
    BY <1>2, <2>2, <2>3 DEF Part, Names, Unique, anyFailed, BookAccepted
<1>. QED
  BY <1>1, <1>2

\* The deadline is a part.
LEMMA DeadlinePart ==
  ASSUME Kind("whitelisting")
  PROVE  Part(<<Deadline>>, {"deadline"}, Deadline.outcome = "failed")
<1>1. Deadline.check = "deadline" /\ Deadline \in ListingEntries
  BY DeadlineEntry DEF Kind, Deadline, deadlineCheck, checkDeadline, DeadlineCheck, entryIf, passed, failed,
     Entry, ListingEntries
<1>. DEFINE s == <<Deadline>>
<1>2. DOMAIN s = {1} /\ s[1] = Deadline /\ s \in Seq(ListingEntries)
  BY <1>1
<1>. HIDE DEF s
<1>3. Part(s, {"deadline"}, Deadline.outcome = "failed")
  BY <1>1, <1>2 DEF Part, Names, Unique, anyFailed
<1>. QED
  BY <1>3 DEF s

\* The contracts are a part, with an entry for each, that fails when one of
\* them does.
LEMMA BatchPart ==
  ASSUME Kind("whitelisting"), Checked(Len(Listed))
  PROVE  Part(BatchEntries(Len(Listed)), IF Listed = <<>> THEN {} ELSE {"request_contract"},
              \E i \in 1..Len(Listed) : ~saw[i].found.passes)
<1>. DEFINE n == Len(Listed)
            s == BatchEntries(n)
<1>1. /\ n \in Nat /\ Listed \in Seq(Range(request.requestContracts))
      /\ NoContract \notin Range(request.requestContracts)
      /\ \A i \in 1..n : Listed[i] \in Range(request.requestContracts)
      /\ \A i, j \in 1..n : Listed[i] = Listed[j] => i = j
  BY ListedWell
<1>2. /\ DOMAIN s = 1..n /\ s = [i \in 1..n |-> s[i]]
      /\ \A i \in 1..n : s[i].check = "request_contract" /\ s[i].of = Listed[i]
      /\ \A i \in 1..n : s[i].outcome = "failed" <=> ~saw[i].found.passes
      /\ \A i \in 1..n : s[i] \in ListingEntries
  BY <1>1 DEF BatchEntries, ContractEntry, Outcome, ListingEntries
<1>3. Listed = <<>> <=> n = 0
  BY <1>1
<1>. HIDE DEF s, n
<1>4. s \in Seq(ListingEntries)
  BY <1>1, <1>2
<1>5. Names(s) = IF n = 0 THEN {} ELSE {"request_contract"}
  BY <1>1, <1>2 DEF Names
<1>6. Unique(s)
  BY <1>1, <1>2 DEF Unique
<1>7. anyFailed(s) <=> \E i \in 1..n : ~saw[i].found.passes
  BY <1>2 DEF anyFailed
<1>. QED
  BY <1>3, <1>4, <1>5, <1>6, <1>7 DEF Part, s, n

\* The nonce checks of A.4.
NonceNames == {"nonce_unconsumed", "nonce_above_floor", "nonce_below_ceiling"}

\* Three entries of the nonce checks are a part.
LEMMA ThreePart ==
  ASSUME NEW a, NEW b, NEW c, NEW s, s = <<a, b, c>>,
         a \in ListingEntries, b \in ListingEntries, c \in ListingEntries,
         a.check = "nonce_unconsumed", b.check = "nonce_above_floor", c.check = "nonce_below_ceiling"
  PROVE  Part(s, NonceNames, a.outcome = "failed" \/ b.outcome = "failed" \/ c.outcome = "failed")
<1>1. /\ DOMAIN s = 1..3 /\ s[1] = a /\ s[2] = b /\ s[3] = c /\ s \in Seq(ListingEntries)
  OBVIOUS
<1>2. Names(s) = NonceNames
  <2>1. Names(s) = {s[i].check : i \in {1, 2, 3}}
    BY <1>1 DEF Names
  <2>. QED
    BY <1>1, <2>1 DEF NonceNames
<1>3. Unique(s)
  BY <1>1 DEF Unique
<1>4. anyFailed(s) <=> a.outcome = "failed" \/ b.outcome = "failed" \/ c.outcome = "failed"
  BY <1>1 DEF anyFailed
<1>. QED
  BY <1>1, <1>2, <1>3, <1>4 DEF Part

\* The nonce checks, skipped, are a part that does not fail.
LEMMA SkippedPart == Part(NonceSkipped, NonceNames, FALSE)
<1>. DEFINE a == skipped("nonce_unconsumed")
            b == skipped("nonce_above_floor")
            c == skipped("nonce_below_ceiling")
<1>1. NonceSkipped = <<a, b, c>>
  BY DEF NonceSkipped, NonceChecks
<1>2. /\ a \in ListingEntries /\ b \in ListingEntries /\ c \in ListingEntries
      /\ a.check = "nonce_unconsumed" /\ b.check = "nonce_above_floor" /\ c.check = "nonce_below_ceiling"
      /\ a.outcome = "skipped" /\ b.outcome = "skipped" /\ c.outcome = "skipped"
  BY DEF skipped, Entry, ListingEntries
<1>. HIDE DEF a, b, c
<1>3. Part(NonceSkipped, NonceNames, a.outcome = "failed" \/ b.outcome = "failed" \/ c.outcome = "failed")
  BY <1>1, <1>2, ThreePart
<1>. QED
  BY <1>2, <1>3 DEF Part

\* The nonce checks, evaluated, are a part that fails when the nonce is
\* consumed or outside the window (checkNonceWindow).
LEMMA WindowPart ==
  ASSUME NEW nonce, NEW consumed, NEW floor, NEW max
  PROVE  Part(checkNonceWindow(nonce, consumed, floor, max), NonceNames,
              ~(~consumed /\ nonce >= floor /\ nonce <= floor + max))
<1>. DEFINE a == Entry("nonce_unconsumed", Outcome(~consumed))
            b == Entry("nonce_above_floor", Outcome(nonce >= floor))
            c == Entry("nonce_below_ceiling", Outcome(nonce <= floor + max))
            s == checkNonceWindow(nonce, consumed, floor, max)
<1>1. s = <<a, b, c>>
  BY DEF checkNonceWindow, NonceChecks, entryIf, passed, failed, Outcome
<1>2. /\ a \in ListingEntries /\ b \in ListingEntries /\ c \in ListingEntries
      /\ a.check = "nonce_unconsumed" /\ b.check = "nonce_above_floor" /\ c.check = "nonce_below_ceiling"
      /\ a.outcome = "failed" <=> ~(~consumed)
      /\ b.outcome = "failed" <=> ~(nonce >= floor)
      /\ c.outcome = "failed" <=> ~(nonce <= floor + max)
  BY DEF Entry, Outcome, ListingEntries
<1>. HIDE DEF a, b, c, s
<1>3. Part(s, NonceNames, a.outcome = "failed" \/ b.outcome = "failed" \/ c.outcome = "failed")
  BY <1>1, <1>2, ThreePart
<1>. QED
  BY <1>2, <1>3 DEF Part, s

\* What Filter keeps was there.
LEMMA FilterFrom ==
  ASSUME NEW S, NEW s \in Seq(S), NEW P \in SUBSET (1..Len(s))
  PROVE  \A j \in 1..Len(Filter(s, P)) : \E i \in P : Filter(s, P)[j] = s[i]
<1>1. PICK h \in [1..Len(Filter(s, P)) -> P] :
        /\ \A j \in 1..Len(Filter(s, P)) : Filter(s, P)[j] = s[h[j]]
        /\ \A i, j \in 1..Len(Filter(s, P)) : i < j => h[i] < h[j]
        /\ \A i \in P : \E j \in 1..Len(Filter(s, P)) : h[j] = i
  BY FilterProperties
<1>. QED
  BY <1>1

\* To keep one position is to keep its item.
LEMMA FilterOne ==
  ASSUME NEW S, NEW s \in Seq(S), NEW P \in SUBSET (1..Len(s)), NEW i, P = {i}
  PROVE  Filter(s, P) = <<s[i]>>
<1>. DEFINE f == Filter(s, P)
            t == <<s[i]>>
<1>1. Cardinality(P) = 1
  BY FS_Singleton
<1>2. f \in Seq(S) /\ Len(f) = 1
  BY <1>1, FilterProperties
<1>4. f[1] = s[i]
  BY <1>2, FilterFrom
<1>5. t \in Seq(S) /\ Len(t) = 1 /\ t[1] = s[i]
  <2>1. s[i] \in S
    BY ElementOfSeq
  <2>. QED
    BY <2>1
<1>. HIDE DEF f, t
<1>6. \A k \in 1..Len(f) : f[k] = t[k]
  BY <1>2, <1>4, <1>5
<1>7. f = t
  BY <1>2, <1>5, <1>6, SeqEqual
<1>. QED
  BY <1>7 DEF f, t

\* The batch drops the deadline entry of an answer and keeps the other.
LEMMA KeptEntry ==
  ASSUME NEW S, NEW x \in S, NEW d \in S, x.check # DeadlineCheck, d.check = DeadlineCheck
  PROVE  dropDeadlines(<<x, d>>) = <<x>>
<1>. DEFINE s == <<x, d>>
            P == {i \in DOMAIN s : s[i].check # DeadlineCheck}
<1>1. s \in Seq(S) /\ Len(s) = 2 /\ s[1] = x
  OBVIOUS
<1>2. P = {1} /\ P \in SUBSET (1..Len(s))
  OBVIOUS
<1>3. Filter(s, P) = dropDeadlines(s)
  BY DEF dropDeadlines
<1>. HIDE DEF s, P
<1>4. Filter(s, P) = <<s[1]>>
  BY <1>1, <1>2, FilterOne
<1>. QED
  BY <1>1, <1>3, <1>4 DEF s

\* What the batch keeps of the answer of one contract.
LEMMA ContractPart ==
  ASSUME NEW passes \in BOOLEAN, NEW contract, NEW b, NEW p
  PROVE  suffixed(dropDeadlines(runA1(passes, {}, b, p).checks), contract)
           = <<ContractEntry(contract, passes)>>
<1>. DEFINE x == entryIf("request_contract", passes)
            d == deadlineCheck(b, p)
<1>1. runA1(passes, {}, b, p).checks = <<x, d>>
  BY DEF runA1, rollUp, Answer
<1>2. x.check = "request_contract" /\ x.check # DeadlineCheck /\ d.check = DeadlineCheck
  BY DEF entryIf, passed, failed, Entry, deadlineCheck, checkDeadline, DeadlineCheck
<1>3. [x EXCEPT !.of = contract] = ContractEntry(contract, passes)
  BY DEF entryIf, passed, failed, Entry, ContractEntry, Outcome
<1>. HIDE DEF x, d
<1>4. dropDeadlines(<<x, d>>) = <<x>>
  <2>1. x \in {x, d} /\ d \in {x, d}
    OBVIOUS
  <2>. QED
    BY <1>2, <2>1, KeptEntry
<1>5. suffixed(<<x>>, contract) = <<ContractEntry(contract, passes)>>
  BY <1>3 DEF suffixed
<1>. QED
  BY <1>1, <1>4, <1>5

\* A whitelisting call is refused, reads its first contract, or reads the book
\* (request-whitelisting.ts).
LEMMA WhitelistingArrivesStep ==
  ASSUME NEW b \in Bodies, NEW p \in Policies, WhitelistingArrives(b, p)
  PROVE  \/ phase' = "done" /\ (ListingOverCap \/ ListingBookRefused)'
         \/ phase' = "contract" /\ ListingAtContract'
         \/ phase' = "book" /\ ListingAtBook'
<1>1. request' = b /\ policy' = p /\ saw' = <<>> /\ Kind("whitelisting")'
  BY DEF WhitelistingArrives, Arrives, Kind, Builds
<1>2. /\ Gate' = BookGate(b, p) /\ Deadline' = deadlineCheck(b, p)
      /\ WithinCap' <=> Len(b.requestContracts) <= p.maxRequestContracts
      /\ Listed' = IF b.operation = "whitelist" THEN b.requestContracts ELSE <<>>
  BY <1>1 DEF Gate, Deadline, WithinCap, Listed
<1>3. Part(Gate, IF policy.acceptedWhitelistBooks = AnyBook THEN {} ELSE {"book_accepted"},
              ~BookAccepted)'
  BY <1>1, GatePart, PTL
<1>4. /\ Gate' \in Seq(ListingEntries') /\ (anyFailed(BookGate(b, p)) <=> ~BookAccepted')
  BY <1>2, <1>3 DEF Part, anyFailed
<1>5. Len(b.requestContracts) \in Nat /\ p.maxRequestContracts \in Nat
  BY <1>1, BodiesWellFormed DEF Kind, Builds
<1>6. CASE Len(b.requestContracts) > p.maxRequestContracts
  <2>1. phase' = "done" /\ verdict' = rollUp(<<failed("batch_within_cap")>>)
    BY <1>6 DEF WhitelistingArrives, Finish
  <2>2. ~WithinCap'
    BY <1>2, <1>5, <1>6
  <2>. QED
    BY <1>1, <2>1, <2>2 DEF ListingOverCap
<1>7. CASE ~(Len(b.requestContracts) > p.maxRequestContracts) /\ anyFailed(BookGate(b, p))
  <2>1. phase' = "done" /\ verdict' = rollUp(BookGate(b, p) \o <<deadlineCheck(b, p)>> \o NonceSkipped)
    BY <1>7 DEF WhitelistingArrives, Finish
  <2>2. WithinCap' /\ ~BookAccepted'
    BY <1>2, <1>4, <1>5, <1>7
  <2>. QED
    BY <1>1, <1>2, <2>1, <2>2 DEF ListingBookRefused
<1>8. CASE ~(Len(b.requestContracts) > p.maxRequestContracts) /\ ~anyFailed(BookGate(b, p))
  <2>1. AwaitNext(Listed', BookGate(b, p), b, p)
    BY <1>2, <1>8 DEF WhitelistingArrives
  <2>2. WithinCap' /\ BookAccepted'
    BY <1>2, <1>4, <1>5, <1>8
  <2>3. saw' \in Seq(Reads') /\ Len(saw') = 0
    BY <1>1
  <2>4. Listing' /\ Checked(0)' /\ Checked(Len(saw))'
    BY <1>1, <2>2, <2>3 DEF Listing, Checked
  <2>5. BatchEntries(0)' = <<>> /\ BatchEntries(Len(saw))' = <<>>
    BY <2>3 DEF BatchEntries
  <2>6. Gate' \o <<>> = Gate'
    BY <1>4, ConcatEmptySeq
  <2>7. (Listed \in Seq(Range(request.requestContracts)) /\ Len(Listed) \in Nat)'
    BY <1>1, ListedWell, PTL
  <2>8. CASE Listed' # <<>>
    <3>1. phase' = "contract" /\ left' = Listed' /\ checks' = Gate'
      BY <1>2, <2>1, <2>8 DEF AwaitNext, Await
    <3>2. Len(Listed') > 0
      BY <2>7, <2>8
    <3>3. /\ left' \in Seq(Range(request'.requestContracts)) /\ Len(left') = Len(Listed') - Len(saw')
          /\ \A i \in 1..Len(left') : left'[i] = Listed'[Len(saw') + i]
      <4>1. Len(left') \in Nat /\ \A i \in 1..Len(left') : Len(saw') + i = i
        BY <2>3, <2>7, <3>1
      <4>. QED
        BY <2>3, <2>7, <3>1, <4>1
    <3>4. Len(saw') < Len(Listed')
      BY <2>3, <3>2
    <3>5. checks' = Gate' \o BatchEntries(Len(saw))'
      BY <2>5, <2>6, <3>1
    <3>. QED
      BY <2>4, <3>1, <3>3, <3>4, <3>5 DEF ListingAtContract
  <2>9. CASE Listed' = <<>>
    <3>1. phase' = "book" /\ checks' = Gate' \o <<Deadline'>>
      BY <1>2, <2>1, <2>9 DEF AwaitNext, Await
    <3>2. Len(Listed') = 0
      BY <2>9
    <3>. QED
      BY <2>3, <2>4, <2>5, <2>6, <3>1, <3>2 DEF ListingAtBook, Collected
  <2>. QED
    BY <2>8, <2>9
<1>. QED
  BY <1>6, <1>7, <1>8

\* The check of one contract ends the call when it is lost, and otherwise goes
\* on to the next contract or to the book.
LEMMA ContractReadStep ==
  ASSUME ListingAtContract, NEW passes \in BOOLEAN, NEW lost \in Lost(1), ContractRead(passes, lost)
  PROVE  \/ phase' = "done" /\ ListingLost'
         \/ phase' = "contract" /\ ListingAtContract'
         \/ phase' = "book" /\ ListingAtBook'
<1>. DEFINE R == Range(request.requestContracts)
            away == lost # {}
            rec == [read |-> "contract", found |-> [contract |-> Head(left), passes |-> passes],
                    lost |-> away]
<1>0. Kind("whitelisting") /\ saw \in Seq(Reads) /\ Len(saw) \in Nat
  BY DEF ListingAtContract, Listing
<1>n. PICK n \in Nat : n = Len(saw)
  BY <1>0
<1>1. /\ Listed \in Seq(R) /\ Len(Listed) \in Nat
      /\ \A i \in 1..Len(Listed) : Listed[i] \in R
  BY <1>0, ListedWell
<1>2. /\ n < Len(Listed) /\ Checked(n) /\ left \in Seq(R) /\ Len(left) = Len(Listed) - n
      /\ \A i \in 1..Len(left) : left[i] = Listed[n + i]
      /\ checks = Gate \o BatchEntries(n)
  BY <1>n DEF ListingAtContract
<1>3. /\ Len(left) \in Nat /\ Len(left) > 0 /\ left # <<>> /\ n + 1 \in 1..Len(Listed)
  BY <1>1, <1>2
<1>4. /\ Head(left) = Listed[n + 1] /\ Head(left) \in R
      /\ Tail(left) \in Seq(R) /\ Len(Tail(left)) = Len(left) - 1
      /\ \A i \in 1..Len(Tail(left)) : Tail(left)[i] = left[i + 1]
  <2>. HIDE DEF R
  <2>1. Head(left) = left[1] /\ left[1] = Listed[n + 1]
    BY <1>2, <1>3
  <2>. QED
    BY <1>1, <1>2, <1>3, <2>1, HeadTailProperties
<1>5. /\ request' = request /\ policy' = policy /\ saw' = Append(saw, rec)
  BY DEF ContractRead, Sees
<1>6. rec \in Reads /\ rec.lost = away /\ (rec.lost <=> away) /\ rec.read = "contract"
      /\ rec.found.contract = Listed[n + 1] /\ rec.found.passes = passes
  BY <1>4 DEF Reads
<1>. HIDE DEF rec, away, R
<1>7. /\ saw' \in Seq(Reads) /\ Len(saw') = n + 1 /\ saw'[n + 1] = rec
      /\ \A i \in 1..n : saw'[i] = saw[i]
  BY <1>0, <1>n, <1>5, <1>6
<1>8. /\ Kind("whitelisting")' /\ Gate' = Gate /\ Deadline' = Deadline /\ Listed' = Listed /\ Reads' = Reads
      /\ WithinCap' /\ BookAccepted'
  BY <1>0, <1>5 DEF ListingAtContract, Listing, Kind, Builds, Gate, Deadline, Listed, Reads, WithinCap, BookAccepted
<1>9. CASE away
  <2>1. runA1(passes, lost, request, policy).status = 503
    BY <1>9 DEF runA1, UpstreamUnavailableError, Answer, away
  <2>2. phase' = "done" /\ verdict' = UpstreamUnavailableError
    BY <2>1 DEF ContractRead, Continues, Finish
  <2>3. n + 1 \in DOMAIN saw'
    BY <1>7
  <2>4. saw'[n + 1].lost
    BY <1>6, <1>7, <1>9
  <2>. QED
    BY <1>8, <2>2, <2>3, <2>4 DEF ListingLost, UpstreamUnavailableError
<1>10. CASE ~away
  <2>. DEFINE x == ContractEntry(Listed[n + 1], passes)
              all == checks \o <<x>>
  <2>1. lost = {}
    BY <1>10 DEF away
  <2>2. Continues(runA1(passes, lost, request, policy))
    BY <2>1 DEF runA1, rollUp, Answer, Continues
  <2>3. suffixed(dropDeadlines(runA1(passes, lost, request, policy).checks), Head(left)) = <<x>>
    BY <1>4, <2>1, ContractPart
  <2>4. AwaitNext(Tail(left), all, request, policy)
    BY <2>2, <2>3 DEF ContractRead
  <2>5. Checked(n + 1)'
    <3>1. ASSUME NEW i \in 1..(n + 1)
          PROVE  /\ saw'[i].read = "contract" /\ saw'[i].lost = FALSE
                 /\ saw'[i].found.contract = Listed[i] /\ saw'[i].found.passes \in BOOLEAN
      <4>1. CASE i \in 1..n
        BY <1>2, <1>7, <4>1 DEF Checked
      <4>2. CASE i = n + 1
        <5>1. away = FALSE
          BY <1>10 DEF away
        <5>. QED
          BY <1>6, <1>7, <4>2, <5>1
      <4>3. i \in 1..n \/ i = n + 1
        OBVIOUS
      <4>. QED
        BY <4>1, <4>2, <4>3
    <3>. QED
      BY <1>8, <3>1 DEF Checked
  <2>6. Listing'
    BY <1>7, <1>8 DEF Listing
  <2>7. BatchEntries(n) \o <<x>> = BatchEntries(n + 1)'
    <3>. DEFINE u == BatchEntries(n)
                v == <<x>>
                w == BatchEntries(n + 1)'
                S == {ContractEntry(Listed[i], p) : i \in 1..(n + 1), p \in BOOLEAN}
    <3>1. /\ u = [i \in 1..n |-> ContractEntry(Listed[i], saw[i].found.passes)]
          /\ w = [i \in 1..(n + 1) |-> ContractEntry(Listed[i], saw'[i].found.passes)]
      BY <1>8 DEF BatchEntries
    <3>2. /\ \A i \in 1..n : saw[i].found.passes \in BOOLEAN /\ saw'[i].found.passes = saw[i].found.passes
          /\ saw'[n + 1].found.passes = passes
      BY <1>2, <1>6, <1>7 DEF Checked
    <3>3. \A i \in 1..(n + 1) : i \in 1..n \/ i = n + 1
      OBVIOUS
    <3>4. u \in Seq(S) /\ Len(u) = n /\ \A i \in 1..n : u[i] = w[i]
      BY <3>1, <3>2
    <3>5. w \in Seq(S) /\ Len(w) = n + 1 /\ w[n + 1] = x
      BY <3>1, <3>2, <3>3
    <3>6. v \in Seq(S) /\ Len(v) = 1 /\ v[1] = x
      OBVIOUS
    <3>. HIDE DEF u, v, w, S, x
    <3>7. \A i \in 1..Len(v) : w[Len(u) + i] = v[i]
      BY <3>4, <3>5, <3>6
    <3>8. u \o v = w
      BY <3>4, <3>5, <3>6, <3>7, ConcatIs
    <3>. QED
      BY <3>8 DEF u, v, w
  <2>8. all = Gate' \o BatchEntries(n + 1)'
    <3>1. Gate \in Seq(ListingEntries)
      BY <1>0, GatePart DEF Part
    <3>2. x \in ListingEntries
      BY <1>3, <1>1 DEF ContractEntry, ListingEntries, Outcome, R
    <3>3. BatchEntries(n) \in Seq(ListingEntries)
      <4>1. \A i \in 1..n : ContractEntry(Listed[i], saw[i].found.passes) \in ListingEntries
        BY <1>1, <1>2 DEF ContractEntry, ListingEntries, Outcome, R
      <4>. QED
        BY <4>1 DEF BatchEntries
    <3>. HIDE DEF x
    <3>4. <<x>> \in Seq(ListingEntries)
      BY <3>2
    <3>5. (Gate \o BatchEntries(n)) \o <<x>> = Gate \o (BatchEntries(n) \o <<x>>)
      BY <3>1, <3>3, <3>4, ConcatAssociative
    <3>. QED
      BY <1>2, <1>8, <2>7, <3>5
  <2>. HIDE DEF all
  <2>9. CASE Tail(left) # <<>>
    <3>1. phase' = "contract" /\ left' = Tail(left) /\ checks' = all
      BY <2>4, <2>9 DEF AwaitNext, Await
    <3>2. /\ Len(left') \in Nat /\ Len(left') > 0 /\ Len(left') = Len(Listed') - Len(saw')
          /\ Len(saw') < Len(Listed')
      BY <1>1, <1>2, <1>3, <1>4, <1>7, <1>8, <2>9, <3>1
    <3>3. ASSUME NEW i \in 1..Len(left') PROVE left'[i] = Listed'[Len(saw') + i]
      <4>1. i + 1 \in 1..Len(left) /\ n + (i + 1) = (n + 1) + i
        BY <1>3, <1>4, <3>1
      <4>. QED
        BY <1>2, <1>4, <1>7, <1>8, <3>1, <4>1
    <3>4. left' \in Seq(Range(request'.requestContracts))
      BY <1>4, <1>5, <3>1 DEF R
    <3>5. Checked(Len(saw))' /\ checks' = Gate' \o BatchEntries(Len(saw))'
      BY <1>7, <2>5, <2>8, <3>1 DEF Checked, BatchEntries
    <3>. QED
      BY <2>6, <3>1, <3>2, <3>3, <3>4, <3>5 DEF ListingAtContract
  <2>10. CASE Tail(left) = <<>>
    <3>1. phase' = "book" /\ checks' = all \o <<Deadline>>
      BY <2>4, <2>10 DEF AwaitNext, Await, Deadline
    <3>2. Len(saw') = Len(Listed') /\ Len(Listed') = n + 1
      <4>1. Len(left) - 1 = 0
        BY <1>4, <2>10
      <4>2. Len(Listed) = n + 1
        BY <1>1, <1>2, <1>3, <4>1
      <4>. QED
        BY <1>7, <1>8, <4>2
    <3>3. Checked(Len(saw))' /\ checks' = Collected'
      BY <1>7, <1>8, <2>5, <2>8, <3>1, <3>2 DEF Checked, BatchEntries, Collected
    <3>. QED
      BY <2>6, <3>1, <3>2, <3>3 DEF ListingAtBook
  <2>. QED
    BY <2>9, <2>10
<1>. QED
  BY <1>9, <1>10

\* The read of the book ends the call by what it found.
LEMMA BookReadStep ==
  ASSUME ListingAtBook, NEW book \in BookAnswers, NEW lost \in Lost(2), BookRead(book, lost)
  PROVE  phase' = "done" /\ ListingAnswered'
<1>. DEFINE results == TwoSlots("validatorNonceFloor", book.floor, "isNonceConsumed", book.consumed, lost)
            away == lost # {}
            rec == [read |-> "book", found |-> book, lost |-> away]
            client == isDeterministicContractCallFailure(Thrown(results),
                        {"validatorNonceFloor", "isNonceConsumed"})
<1>0. Kind("whitelisting") /\ saw \in Seq(Reads) /\ Len(saw) \in Nat
  BY DEF ListingAtBook, Listing
<1>n. PICK n \in Nat : n = Len(saw)
  BY <1>0
<1>1. n = Len(Listed) /\ Checked(n) /\ checks = Collected
  BY <1>n DEF ListingAtBook
<1>2. /\ request' = request /\ policy' = policy /\ saw' = Append(saw, rec)
  BY DEF BookRead, Sees
<1>3. rec \in Reads /\ away \in BOOLEAN
  BY DEF Reads
<1>4. /\ Throws(results) <=> away \/ book.floor \in Unanswered \/ book.consumed \in Unanswered
      /\ Throws(results) =>
           (client <=> ~away /\ (book.floor = Reverts \/ (book.floor # Malformed /\ book.consumed = Reverts)))
  BY TwoSlotsThrow
<1>. HIDE DEF rec, away, results, client
<1>5. /\ saw' \in Seq(Reads) /\ Len(saw') = n + 1 /\ saw'[n + 1] = rec
      /\ \A i \in 1..n : saw'[i] = saw[i]
  BY <1>0, <1>n, <1>2, <1>3
<1>6. /\ Kind("whitelisting")' /\ Gate' = Gate /\ Deadline' = Deadline /\ Listed' = Listed /\ Reads' = Reads
      /\ WithinCap' /\ BookAccepted'
  BY <1>0, <1>2 DEF ListingAtBook, Listing, Kind, Builds, Gate, Deadline, Listed, Reads, WithinCap, BookAccepted
<1>7. Checked(Len(Listed))' /\ BatchEntries(Len(Listed))' = BatchEntries(n)
  BY <1>1, <1>5, <1>6 DEF Checked, BatchEntries
<1>8. Collected' = Collected
  BY <1>1, <1>6, <1>7 DEF Collected
<1>9. /\ Listing' /\ Len(saw') = Len(Listed') + 1
      /\ saw'[Len(saw')] = [read |-> "book", found |-> book, lost |-> away]
  BY <1>1, <1>5, <1>6 DEF Listing, rec
<1>10. CASE Throws(results) /\ client
  <2>1. /\ phase' = "done"
        /\ verdict' = rollUp(Collected \o <<failed("book_has_nonces")>> \o NonceSkipped)
    BY <1>1, <1>10 DEF BookRead, Finish, results, client, TwoSlots
  <2>2. ~away /\ Reverts \in {book.floor, book.consumed}
    BY <1>4, <1>10
  <2>. QED
    BY <1>3, <1>7, <1>8, <1>9, <2>1, <2>2 DEF ListingAnswered
<1>11. CASE Throws(results) /\ ~client
  <2>1. phase' = "done" /\ verdict' = UpstreamUnavailableError
    BY <1>11 DEF BookRead, Finish, results, client, TwoSlots
  <2>2. away \/ Malformed \in {book.floor, book.consumed}
    BY <1>4, <1>11 DEF Unanswered
  <2>. QED
    BY <1>3, <1>7, <1>9, <2>1, <2>2 DEF ListingAnswered, UpstreamUnavailableError
<1>12. CASE ~Throws(results)
  <2>1. phase' = "done" /\ verdict' = rollUp(Collected \o NonceWindow(book))
    BY <1>1, <1>12 DEF BookRead, Finish, results, TwoSlots, NonceWindow
  <2>2. NonceWindow(book)' = NonceWindow(book)
    BY <1>2 DEF NonceWindow
  <2>3. ~away /\ book.floor \notin Unanswered /\ book.consumed \notin Unanswered
    BY <1>4, <1>12
  <2>. QED
    BY <1>3, <1>7, <1>8, <1>9, <2>1, <2>2, <2>3 DEF ListingAnswered
<1>. QED
  BY <1>10, <1>11, <1>12

\* With the deadline and the nonce checks among them, the parts describe the
\* appendix.
LEMMA ListingDescribed ==
  ASSUME Kind("whitelisting"), WithinCap, NEW N, NEW bad, Part(verdict.checks, N, bad),
         "deadline" \in N, NonceNames \subseteq N
  PROVE  AppendixIsDescribed
<1>1. Len(request.requestContracts) \in Nat /\ policy.maxRequestContracts \in Nat
  BY BodiesWellFormed DEF Kind, Builds
<1>2. Range(NonceChecks) = NonceNames
  <2>1. DOMAIN NonceChecks = {1, 2, 3} /\ NonceChecks[1] = "nonce_unconsumed"
          /\ NonceChecks[2] = "nonce_above_floor" /\ NonceChecks[3] = "nonce_below_ceiling"
    BY DEF NonceChecks
  <2>. QED
    BY <2>1 DEF Range, NonceNames
<1>3. ~(Len(request.requestContracts) > policy.maxRequestContracts)
  BY <1>1 DEF WithinCap
<1>4. Appendix = {"deadline"} \cup NonceNames
  BY <1>2, <1>3 DEF Appendix, Kind
<1>5. Reported = N
  BY DEF Reported, Part, Names
<1>. QED
  BY <1>4, <1>5 DEF AppendixIsDescribed, Part, Unique

\* What is collected before the read of the book is a part, with the deadline
\* in it.
LEMMA CollectedPart ==
  ASSUME Kind("whitelisting"), Checked(Len(Listed))
  PROVE  \E N : /\ Part(Collected, N,
                        \/ ~BookAccepted
                        \/ \E i \in 1..Len(Listed) : ~saw[i].found.passes
                        \/ Deadline.outcome = "failed")
                /\ "deadline" \in N
                /\ N \subseteq {"book_accepted", "request_contract", "deadline"}
<1>. DEFINE G == IF policy.acceptedWhitelistBooks = AnyBook THEN {} ELSE {"book_accepted"}
            B == IF Listed = <<>> THEN {} ELSE {"request_contract"}
            x == ~BookAccepted
            y == \E i \in 1..Len(Listed) : ~saw[i].found.passes
            z == Deadline.outcome = "failed"
            b == BatchEntries(Len(Listed))
            d == <<Deadline>>
<1>1. Part(Gate, G, x) /\ Part(b, B, y) /\ Part(d, {"deadline"}, z)
  BY GatePart, BatchPart, DeadlinePart
<1>2. x \in BOOLEAN /\ y \in BOOLEAN /\ z \in BOOLEAN
  OBVIOUS
<1>3. G \cap B = {} /\ (G \cup B) \cap {"deadline"} = {}
      /\ (G \cup B) \cup {"deadline"} \subseteq {"book_accepted", "request_contract", "deadline"}
  OBVIOUS
<1>4. Collected = (Gate \o b) \o d
  BY DEF Collected
<1>. HIDE DEF G, B, x, y, z, b, d
<1>. DEFINE w == x \/ y
            v == w \/ z
<1>w. w = (x \/ y) /\ v = (w \/ z) /\ w \in BOOLEAN /\ G \cap B = {}
  BY <1>2, <1>3
<1>. HIDE DEF w, v
<1>5. Part(Gate \o b, G \cup B, w)
  BY <1>1, <1>2, <1>w, JoinEither
<1>6. Part((Gate \o b) \o d, (G \cup B) \cup {"deadline"}, v)
  BY <1>1, <1>2, <1>3, <1>w, <1>5, JoinEither
<1>7. Part(Collected, (G \cup B) \cup {"deadline"}, x \/ y \/ z)
  BY <1>4, <1>6, <1>w DEF Part
<1>8. "deadline" \in (G \cup B) \cup {"deadline"}
  OBVIOUS
<1>. QED
  BY <1>3, <1>7, <1>8 DEF x, y, z

\* A batch that is too long is answered right in all three ways.
LEMMA ListingOverCapRight ==
  ListingOverCap => BlameIsRight /\ VerdictIsRight /\ AppendixIsDescribed
<1>. SUFFICES ASSUME ListingOverCap PROVE BlameIsRight /\ VerdictIsRight /\ AppendixIsDescribed
  OBVIOUS
<1>. DEFINE s == <<failed("batch_within_cap")>>
<1>0. Kind("whitelisting") /\ request.kind = "whitelisting" /\ ~WithinCap /\ DOMAIN saw = {}
  BY DEF ListingOverCap, Kind
<1>1. /\ DOMAIN s = {1} /\ s[1].check = "batch_within_cap" /\ s[1].outcome = "failed"
  BY DEF failed, Entry
<1>2. verdict = rollUp(s)
  BY DEF ListingOverCap
<1>. HIDE DEF s
<1>3. verdict.status = 422 /\ verdict.checks = s
  BY <1>1, <1>2 DEF rollUp, Answer, anyFailed
<1>4. Len(request.requestContracts) > policy.maxRequestContracts
  <2>1. Len(request.requestContracts) \in Nat /\ policy.maxRequestContracts \in Nat
    BY <1>0, BodiesWellFormed DEF Kind, Builds
  <2>. QED
    BY <1>0, <2>1 DEF WithinCap
<1>5. Appendix = {"batch_within_cap"} /\ ~RequestIsRight
  BY <1>0, <1>4 DEF Appendix, RequestIsRight, WhitelistingIsRight, WithinCap
<1>6. Appendix \subseteq Reported
  BY <1>1, <1>3, <1>5 DEF Reported
<1>. QED
  BY <1>0, <1>1, <1>3, <1>5, <1>6 DEF BlameIsRight, VerdictIsRight, AppendixIsDescribed

\* So is a call for a book that is not accepted.
LEMMA ListingBookRefusedRight ==
  ListingBookRefused => BlameIsRight /\ VerdictIsRight /\ AppendixIsDescribed
<1>. SUFFICES ASSUME ListingBookRefused PROVE BlameIsRight /\ VerdictIsRight /\ AppendixIsDescribed
  OBVIOUS
<1>. DEFINE G == IF policy.acceptedWhitelistBooks = AnyBook THEN {} ELSE {"book_accepted"}
            z == Deadline.outcome = "failed"
            d == <<Deadline>>
<1>0. /\ Kind("whitelisting") /\ request.kind = "whitelisting" /\ WithinCap /\ ~BookAccepted
      /\ DOMAIN saw = {} /\ verdict = rollUp(Gate \o d \o NonceSkipped)
  BY DEF ListingBookRefused, Kind
<1>1. Part(Gate, G, TRUE)
  <2>1. Part(Gate, G, ~BookAccepted)
    BY <1>0, GatePart
  <2>. QED
    BY <1>0, <2>1 DEF Part
<1>2. Part(d, {"deadline"}, z) /\ Part(NonceSkipped, NonceNames, FALSE) /\ z \in BOOLEAN
  BY <1>0, DeadlinePart, SkippedPart
<1>3. G \cap {"deadline"} = {} /\ (G \cup {"deadline"}) \cap NonceNames = {}
  BY DEF NonceNames
<1>. HIDE DEF G, z, d
<1>4. Part(Gate \o d, G \cup {"deadline"}, TRUE \/ z)
  BY <1>1, <1>2, <1>3, Join
<1>5. TRUE \/ z \in BOOLEAN
  OBVIOUS
<1>6. Part((Gate \o d) \o NonceSkipped, (G \cup {"deadline"}) \cup NonceNames, (TRUE \/ z) \/ FALSE)
  BY <1>2, <1>3, <1>4, <1>5, Join
<1>7. verdict.status = 422 /\ verdict.checks = (Gate \o d) \o NonceSkipped
  BY <1>0, <1>6 DEF rollUp, Answer, Part
<1>8. ~RequestIsRight
  BY <1>0 DEF RequestIsRight, WhitelistingIsRight, BookAccepted
<1>9. AppendixIsDescribed
  BY <1>0, <1>6, <1>7, ListingDescribed
<1>. QED
  BY <1>0, <1>7, <1>8, <1>9 DEF BlameIsRight, VerdictIsRight

\* So is a call that an upstream failure ended.
LEMMA ListingLostRight ==
  ListingLost => BlameIsRight /\ VerdictIsRight /\ AppendixIsDescribed
<1>. SUFFICES ASSUME ListingLost PROVE BlameIsRight /\ VerdictIsRight /\ AppendixIsDescribed
  OBVIOUS
<1>1. verdict.status = 503 /\ \E i \in DOMAIN saw : saw[i].lost
  BY DEF ListingLost, UpstreamUnavailableError, Answer
<1>. QED
  BY <1>1 DEF BlameIsRight, VerdictIsRight, AppendixIsDescribed

\* So is a call that read the book, whatever the chain did between the reads.
LEMMA ListingAnsweredRight ==
  ListingAnswered => BlameIsRight /\ VerdictIsRight /\ AppendixIsDescribed
<1>. SUFFICES ASSUME ListingAnswered PROVE BlameIsRight /\ VerdictIsRight /\ AppendixIsDescribed
  OBVIOUS
<1>. DEFINE n == Len(Listed)
<1>0. /\ Kind("whitelisting") /\ request \in Bodies /\ request.kind = "whitelisting"
      /\ policy \in Policies /\ WithinCap /\ BookAccepted /\ Checked(n)
      /\ saw \in Seq(Reads) /\ Len(saw) = n + 1
  BY DEF ListingAnswered, Listing, Kind
<1>1. PICK book \in BookAnswers, lost \in BOOLEAN :
       /\ saw[Len(saw)] = [read |-> "book", found |-> book, lost |-> lost]
       /\ \/ /\ lost \/ Malformed \in {book.floor, book.consumed}
             /\ verdict = UpstreamUnavailableError
          \/ /\ ~lost /\ Reverts \in {book.floor, book.consumed}
             /\ verdict = rollUp(Collected \o <<failed("book_has_nonces")>> \o NonceSkipped)
          \/ /\ ~lost /\ book.floor \notin Unanswered /\ book.consumed \notin Unanswered
             /\ verdict = rollUp(Collected \o NonceWindow(book))
  BY DEF ListingAnswered
<1>2. /\ n \in Nat /\ DOMAIN Listed = 1..n
      /\ \A i, j \in 1..n : Listed[i] = Listed[j] => i = j
      /\ request.nonce \in Nat /\ policy.maxNonceAboveFloor \in Nat
  BY <1>0, ListedWell
<1>3. /\ saw[n + 1].read = "book" /\ saw[n + 1].found = book /\ saw[n + 1].lost = lost
  BY <1>0, <1>1
<1>4. /\ book.floor \in Nat \cup Unanswered /\ book.consumed \in BOOLEAN \cup Unanswered
  BY AnswersWellFormed DEF Unanswered
<1>. DEFINE allPass == \A i \in 1..n : saw[i].found.passes
            nonceOk == /\ book.consumed = FALSE /\ book.floor # Reverts
                       /\ request.nonce - book.floor \in 0..policy.maxNonceAboveFloor
<1>5. /\ n + 1 \in DOMAIN saw
      /\ \A i \in 1..n : i \in DOMAIN saw /\ saw[i].read = "contract" /\ saw[i].lost = FALSE
                         /\ saw[i].found.contract = Listed[i]
      /\ \A i \in DOMAIN saw : i \in 1..n \/ i = n + 1
  <2>1. DOMAIN saw = 1..(n + 1)
    BY <1>0
  <2>. HIDE DEF n
  <2>2. n + 1 \in DOMAIN saw /\ (\A i \in 1..n : i \in DOMAIN saw)
        /\ \A i \in DOMAIN saw : i \in 1..n \/ i = n + 1
    BY <1>2, <2>1
  <2>. QED
    BY <1>0, <2>2 DEF Checked
<1>. HIDE DEF n
<1>6. \A r : r \in Found("contract") <=> \E i \in 1..n : saw[i].found = r
  BY <1>3, <1>5, FoundRead
<1>7. Found("book") = {book}
  <2>1. \A r : r \in Found("book") <=> r = book
    BY <1>3, <1>5, FoundRead
  <2>. QED
    BY <2>1
<1>8. (request.operation = "whitelist" =>
       \A i \in DOMAIN request.requestContracts :
         \E r \in Found("contract") : r.contract = request.requestContracts[i] /\ r.passes)
      <=> allPass
  <2>1. CASE request.operation = "whitelist"
    <3>1. Listed = request.requestContracts
      BY <2>1 DEF Listed
    <3>2. ASSUME NEW i \in 1..n
          PROVE  (\E r \in Found("contract") : r.contract = Listed[i] /\ r.passes) <=> saw[i].found.passes
      <4>1. ASSUME saw[i].found.passes
            PROVE \E r \in Found("contract") : r.contract = Listed[i] /\ r.passes
        BY <1>5, <1>6, <4>1
      <4>2. ASSUME NEW r \in Found("contract"), r.contract = Listed[i], r.passes
            PROVE saw[i].found.passes
        <5>1. PICK j \in 1..n : saw[j].found = r
          BY <1>6
        <5>2. j = i
          BY <1>2, <1>5, <4>2, <5>1
        <5>. QED
          BY <4>2, <5>1, <5>2
      <4>. QED
        BY <4>1, <4>2
    <3>. QED
      BY <1>2, <2>1, <3>1, <3>2
  <2>2. CASE request.operation # "whitelist"
    <3>1. n = 0
      BY <2>2 DEF Listed, n
    <3>. QED
      BY <2>2, <3>1
  <2>. QED
    BY <2>1, <2>2
<1>9. WhitelistingIsRight <=> allPass /\ nonceOk
  BY <1>0, <1>7, <1>8 DEF WhitelistingIsRight, WithinCap, BookAccepted
<1>10. RequestIsRight <=> Deadline.outcome # "failed" /\ allPass /\ nonceOk
  BY <1>0, <1>9, DeadlineEntry DEF RequestIsRight
<1>11. PICK N : /\ Part(Collected, N, ~BookAccepted \/ ~allPass \/ Deadline.outcome = "failed")
                /\ "deadline" \in N
                /\ N \subseteq {"book_accepted", "request_contract", "deadline"}
  BY <1>0, CollectedPart DEF n
<1>. DEFINE bad == ~BookAccepted \/ ~allPass \/ Deadline.outcome = "failed"
<1>12. bad \in BOOLEAN /\ N \cap NonceNames = {} /\ N \cap {"book_has_nonces"} = {}
       /\ (N \cup {"book_has_nonces"}) \cap NonceNames = {}
  BY <1>11 DEF NonceNames
<1>13. bad <=> ~(allPass /\ Deadline.outcome # "failed")
  BY <1>0
<1>14. Part(Collected, N, bad)
  BY <1>11
<1>. HIDE DEF bad, allPass, nonceOk
<1>15. CASE /\ lost \/ Malformed \in {book.floor, book.consumed}
            /\ verdict = UpstreamUnavailableError
  <2>1. verdict.status = 503
    BY <1>15 DEF UpstreamUnavailableError, Answer
  <2>2. Malformed \in {book.floor, book.consumed} => NotTheClients(saw[n + 1])
    BY <1>3 DEF NotTheClients
  <2>. QED
    BY <1>3, <1>5, <1>15, <2>1, <2>2 DEF BlameIsRight, VerdictIsRight, AppendixIsDescribed
<1>16. CASE /\ ~lost /\ Reverts \in {book.floor, book.consumed}
            /\ verdict = rollUp(Collected \o <<failed("book_has_nonces")>> \o NonceSkipped)
  <2>. DEFINE f == <<failed("book_has_nonces")>>
              s == (Collected \o f) \o NonceSkipped
  <2>1. Part(f, {"book_has_nonces"}, TRUE)
    <3>. DEFINE e == failed("book_has_nonces")
    <3>1. e.check = "book_has_nonces" /\ e.outcome = "failed" /\ e \in ListingEntries
      BY DEF failed, Entry, ListingEntries
    <3>. HIDE DEF e
    <3>2. DOMAIN f = {1} /\ f[1] = e /\ f \in Seq(ListingEntries)
      BY <3>1 DEF e
    <3>. HIDE DEF f
    <3>. QED
      BY <3>1, <3>2 DEF Part, Names, Unique, anyFailed
  <2>. HIDE DEF f
  <2>2. Part(Collected \o f, N \cup {"book_has_nonces"}, bad \/ TRUE)
    BY <1>12, <1>14, <2>1, Join
  <2>3. bad \/ TRUE \in BOOLEAN
    OBVIOUS
  <2>4. Part(s, (N \cup {"book_has_nonces"}) \cup NonceNames, (bad \/ TRUE) \/ FALSE)
    BY <1>12, <2>2, <2>3, SkippedPart, Join
  <2>5. verdict.status = 422 /\ verdict.checks = s
    BY <1>16, <2>4 DEF rollUp, Answer, Part, f
  <2>6. ~nonceOk
    BY <1>16, SentinelsApart DEF nonceOk
  <2>7. AppendixIsDescribed
    BY <1>0, <1>11, <2>4, <2>5, ListingDescribed
  <2>. QED
    BY <1>0, <1>3, <1>5, <1>10, <1>16, <2>5, <2>6, <2>7 DEF BlameIsRight, VerdictIsRight
<1>17. CASE /\ ~lost /\ book.floor \notin Unanswered /\ book.consumed \notin Unanswered
            /\ verdict = rollUp(Collected \o NonceWindow(book))
  <2>. DEFINE w == NonceWindow(book)
              off == ~(~book.consumed /\ request.nonce >= book.floor
                        /\ request.nonce <= book.floor + policy.maxNonceAboveFloor)
              s == Collected \o w
  <2>1. Part(w, NonceNames, off)
    BY WindowPart DEF NonceWindow
  <2>2. off <=> ~nonceOk
    <3>1. book.floor \in Nat /\ book.consumed \in BOOLEAN /\ book.floor # Reverts
      BY <1>4, <1>17 DEF Unanswered
    <3>. QED
      BY <1>2, <3>1 DEF nonceOk
  <2>3. off \in BOOLEAN
    OBVIOUS
  <2>. DEFINE either == bad \/ off
  <2>e. either = (bad \/ off) /\ bad \in BOOLEAN /\ N \cap NonceNames = {}
    BY <1>12
  <2>. HIDE DEF w, off, either
  <2>4. Part(s, N \cup NonceNames, either)
    BY <1>14, <2>1, <2>3, <2>e, JoinEither
  <2>5. verdict.status = (IF bad \/ off THEN 422 ELSE 200) /\ verdict.checks = s
    BY <1>17, <2>4, <2>e DEF rollUp, Answer, Part, w
  <2>6. AppendixIsDescribed
    BY <1>0, <1>11, <2>4, <2>5, ListingDescribed
  <2>. QED
    BY <1>0, <1>3, <1>5, <1>10, <1>13, <1>17, <2>2, <2>5, <2>6 DEF BlameIsRight, VerdictIsRight
<1>. QED
  BY <1>1, <1>15, <1>16, <1>17

-----------------------------------------------------------------------------
(* The inductive invariant of the check runners.                           *)

\* Where a call stands is told by what its reads saw: what it has collected
\* while it waits for a read, and its verdict once it is done.
ChecksInv ==
  /\ phase \in {"idle", "fund", "factories", "views", "contract", "book", "done"}
  /\ phase = "fund" => FundWaits
  /\ phase = "factories" => SwapWaits
  /\ phase = "views" => SwapOnManager
  /\ phase = "contract" => ListingAtContract
  /\ phase = "book" => ListingAtBook
  /\ phase = "done" =>
       \/ FundRefused \/ FundAnswered
       \/ SwapUnasked \/ SwapStopped \/ SwapAnswered
       \/ ListingOverCap \/ ListingBookRefused \/ ListingLost \/ ListingAnswered

\* Every step of a call, from its arrival to its last read, keeps the
\* invariant.
LEMMA ChecksStep == ChecksInv /\ [ChecksNext]_checkVars => ChecksInv'
<1>. SUFFICES ASSUME ChecksInv, [ChecksNext]_checkVars PROVE ChecksInv'
  OBVIOUS
<1>1. ASSUME NEW b \in Bodies, NEW p \in Policies, FundArrives(b, p) PROVE ChecksInv'
  BY <1>1, FundArrivesStep DEF ChecksInv
<1>2. ASSUME NEW b \in Bodies, NEW p \in Policies, SwapArrives(b, p) PROVE ChecksInv'
  BY <1>2, SwapArrivesStep DEF ChecksInv
<1>3. ASSUME NEW b \in Bodies, NEW p \in Policies, WhitelistingArrives(b, p) PROVE ChecksInv'
  BY <1>3, WhitelistingArrivesStep DEF ChecksInv
<1>4. ASSUME NEW owner \in FundAnswers, NEW intent \in IntentAnswers, NEW lost \in Lost(2),
             FundRead(owner, intent, lost) PROVE ChecksInv'
  <2>1. FundWaits
    BY <1>4 DEF ChecksInv, FundRead
  <2>. QED
    BY <1>4, <2>1, FundReadStep DEF ChecksInv
<1>5. ASSUME NEW found \in FactoryAnswers,
             NEW lost \in SUBSET (1..(2 * Len(policy.acceptedPmFactories))),
             SwapFactories(found, lost) PROVE ChecksInv'
  <2>1. SwapWaits
    BY <1>5 DEF ChecksInv, SwapFactories
  <2>. QED
    BY <1>5, <2>1, SwapFactoriesStep DEF ChecksInv
<1>6. ASSUME NEW views \in ViewAnswers, NEW lost \in Lost(4), SwapViews(views, lost) PROVE ChecksInv'
  <2>1. SwapOnManager
    BY <1>6 DEF ChecksInv, SwapViews
  <2>. QED
    BY <1>6, <2>1, SwapViewsStep DEF ChecksInv
<1>7. ASSUME NEW passes \in BOOLEAN, NEW lost \in Lost(1), ContractRead(passes, lost) PROVE ChecksInv'
  <2>1. ListingAtContract
    BY <1>7 DEF ChecksInv, ContractRead
  <2>. QED
    BY <1>7, <2>1, ContractReadStep DEF ChecksInv
<1>8. ASSUME NEW book \in BookAnswers, NEW lost \in Lost(2), BookRead(book, lost) PROVE ChecksInv'
  <2>1. ListingAtBook
    BY <1>8 DEF ChecksInv, BookRead
  <2>. QED
    BY <1>8, <2>1, BookReadStep DEF ChecksInv
<1>9. CASE UNCHANGED checkVars
  <2>. USE <1>9 DEF checkVars, Kind, Builds, Deadline
  <2>1. phase' = phase
    OBVIOUS
  <2>2. FundWaits => FundWaits'
    BY DEF FundWaits
  <2>3. SwapWaits => SwapWaits'
    BY DEF SwapWaits
  <2>4. SwapOnManager => SwapOnManager'
    BY DEF SwapOnManager, OneManager, HitLeg
  <2>5. ListingAtContract => ListingAtContract'
    BY DEF ListingAtContract, Listing, WithinCap, BookAccepted, Reads, Listed, Checked, Gate, BatchEntries
  <2>6. ListingAtBook => ListingAtBook'
    BY DEF ListingAtBook, Listing, WithinCap, BookAccepted, Reads, Listed, Checked, Gate, BatchEntries, Collected
  <2>7. FundRefused => FundRefused'
    BY DEF FundRefused, FundEntries
  <2>8. FundAnswered => FundAnswered'
    BY DEF FundAnswered, FundEntries, FundJudged
  <2>9. SwapUnasked => SwapUnasked'
    BY DEF SwapUnasked, NotOne
  <2>10. SwapStopped => SwapStopped'
    BY DEF SwapStopped, NotOne, HitLeg
  <2>11. SwapAnswered => SwapAnswered'
    <3>1. ASSUME NEW leg, NEW views PROVE SwapJudged(leg, views)' = SwapJudged(leg, views)
      BY DEF SwapJudged
    <3>2. ASSUME NEW found, NEW leg PROVE OneManager(found, leg)' <=> OneManager(found, leg)
      BY DEF OneManager, HitLeg
    <3>. QED
      BY <3>1, <3>2 DEF SwapAnswered
  <2>12. ListingOverCap => ListingOverCap'
    BY DEF ListingOverCap, WithinCap
  <2>13. ListingBookRefused => ListingBookRefused'
    BY DEF ListingBookRefused, WithinCap, BookAccepted, Gate
  <2>14. ListingLost => ListingLost'
    BY DEF ListingLost
  <2>15. ListingAnswered => ListingAnswered'
    BY DEF ListingAnswered, Listing, WithinCap, BookAccepted, Reads, Listed, Checked, Gate, BatchEntries,
           Collected, NonceWindow
  <2>. QED
    BY <2>1, <2>2, <2>3, <2>4, <2>5, <2>6, <2>7, <2>8, <2>9, <2>10, <2>11, <2>12, <2>13, <2>14, <2>15
       DEF ChecksInv
<1>. QED
  BY <1>1, <1>2, <1>3, <1>4, <1>5, <1>6, <1>7, <1>8, <1>9 DEF ChecksNext

\* At every point of a call of any kind, under any policy and whatever the
\* chain answers or loses, the entries and the verdict are a function of the
\* request, the policy and what the reads saw (intent-fund-binding.ts,
\* intent-swap.ts, request-whitelisting.ts).
THEOREM ChecksInvCorrect == ChecksSpec => []ChecksInv
<1>1. ChecksInit => ChecksInv
  BY DEF ChecksInit, ChecksInv
<1>. QED
  BY <1>1, ChecksStep, PTL DEF ChecksSpec

\* The invariant says that a call that is done is right in all three ways.
LEMMA DoneIsRight == ChecksInv => BlameIsRight /\ VerdictIsRight /\ AppendixIsDescribed
<1>1. CASE phase = "done"
  BY <1>1, FundRefusedRight, FundAnsweredRight, SwapUnaskedRight, SwapStoppedRight, SwapAnsweredRight,
     ListingOverCapRight, ListingBookRefusedRight, ListingLostRight, ListingAnsweredRight
  DEF ChecksInv
<1>2. CASE phase # "done"
  BY <1>2 DEF BlameIsRight, VerdictIsRight, AppendixIsDescribed
<1>. QED
  BY <1>1, <1>2

\* An outage is never blamed on the client, and a contract of the client's that
\* reverts is never an outage (multicall, isDeterministicContractCallFailure).
THEOREM BlameCorrect == ChecksSpec => []BlameIsRight
<1>. QED
  BY ChecksInvCorrect, DoneIsRight, PTL

\* The verdict of every call is the policy's, whatever order the reads came in
\* and wherever the runner stopped (rollUp, the 409 of fund binding).
THEOREM VerdictCorrect == ChecksSpec => []VerdictIsRight
<1>. QED
  BY ChecksInvCorrect, DoneIsRight, PTL

\* Every early return describes its appendix in full, with no check twice
\* (OnChainFundChecks, OnManagerSkipped, NonceSkipped, dropDeadlines).
THEOREM AppendixCorrect == ChecksSpec => []AppendixIsDescribed
<1>. QED
  BY ChecksInvCorrect, DoneIsRight, PTL
=============================================================================
