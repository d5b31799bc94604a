-------------------------- MODULE EndpointsProofs --------------------------
(***************************************************************************)
(* Proofs about desiredEntries: what a syncer publishes is well formed,    *)
(* serves the pods that a service port selects and does not depend on the  *)
(* order in which the caches list their objects.                           *)
(***************************************************************************)
EXTENDS Endpoints, FiniteSetTheorems, WellFoundedInduction, TLAPS

USE EndpointsAssumption

---------------------------------------------------------------------------
(* Ranks in a finite order.                                                *)

\* The elements of K that R puts before p.
Below(K, R, p) == {q \in K : <<q, p>> \in R}

\* In a finite set with a total order, each number of predecessors from 0 on
\* belongs to exactly one element.
LEMMA Rank ==
  ASSUME NEW K, IsFiniteSet(K), NEW R,
         \A p \in K : <<p, p>> \notin R,
         \A p, q \in K : p # q => <<p, q>> \in R \/ <<q, p>> \in R,
         \A p, q, r \in K : <<p, q>> \in R /\ <<q, r>> \in R => <<p, r>> \in R
  PROVE  /\ \A p, q \in K :
               Cardinality(Below(K, R, p)) = Cardinality(Below(K, R, q)) => p = q
         /\ \A n \in 1 .. Cardinality(K) :
               \E p \in K : Cardinality(Below(K, R, p)) = n - 1
<1>. DEFINE rank(p) == Cardinality(Below(K, R, p))
            size == Cardinality(K)
<1>1. size \in Nat
  BY FS_CardinalityType
<1>2. ASSUME NEW p \in K
      PROVE  IsFiniteSet(Below(K, R, p)) /\ rank(p) \in 0 .. size - 1
  <2>1. Below(K, R, p) \in SUBSET K /\ Below(K, R, p) # K
    BY DEF Below
  <2>2. IsFiniteSet(Below(K, R, p)) /\ rank(p) <= size /\ rank(p) # size
    BY <2>1, FS_Subset
  <2>3. rank(p) \in Nat
    BY <2>2, FS_CardinalityType
  <2>. HIDE DEF rank, size
  <2>. QED BY <1>1, <2>2, <2>3
<1>3. ASSUME NEW p \in K, NEW q \in K, <<p, q>> \in R
      PROVE  rank(p) < rank(q)
  <2>1. p \notin Below(K, R, p) /\ Below(K, R, p) \cup {p} \in SUBSET Below(K, R, q)
    BY <1>3 DEF Below
  <2>2. Cardinality(Below(K, R, p) \cup {p}) = rank(p) + 1
    BY <1>2, <2>1, FS_AddElement
  <2>3. Cardinality(Below(K, R, p) \cup {p}) <= rank(q)
    BY <1>2, <2>1, FS_Subset
  <2>4. rank(p) \in Nat /\ rank(q) \in Nat
    BY <1>2, FS_CardinalityType
  <2>. HIDE DEF rank
  <2>. QED BY <2>2, <2>3, <2>4
<1>4. ASSUME NEW p \in K, NEW q \in K, rank(p) = rank(q) PROVE p = q
  <2>1. rank(p) \in Nat
    BY <1>2, FS_CardinalityType
  <2>2. SUFFICES ASSUME p # q PROVE FALSE
    OBVIOUS
  <2>3. rank(p) < rank(q) \/ rank(q) < rank(p)
    BY <1>3, <2>2
  <2>. HIDE DEF rank
  <2>. QED BY <1>4, <2>1, <2>3
<1>5. ASSUME NEW n \in 1 .. size PROVE \E p \in K : rank(p) = n - 1
  <2>. DEFINE f == [p \in K |-> rank(p)]
              Ranks == 0 .. size - 1
  <2>1. f \in Injection(K, Ranks)
    <3>1. f \in [K -> Ranks]
      BY <1>2
    <3>2. \A p, q \in K : f[p] = f[q] => p = q
      BY <1>4
    <3>. QED BY <3>1, <3>2 DEF Injection, IsInjective
  <2>2. IsFiniteSet(Ranks) /\ Cardinality(Ranks) = size
    <3>. HIDE DEF size
    <3>1. 0 \in Int /\ size - 1 \in Int /\ (0 > size - 1 => size = 0)
      BY <1>1
    <3>. QED BY <1>1, <3>1, FS_Interval
  <2>3. f \in Surjection(K, Ranks)
    BY <2>1, <2>2, FS_Injection
  <2>4. n - 1 \in Ranks
    <3>. HIDE DEF size
    <3>. QED BY <1>1
  <2>. QED BY <2>3, <2>4 DEF Surjection
<1>. QED BY <1>4, <1>5

---------------------------------------------------------------------------
(* Sorting the candidates.                                                 *)

Target(b) == <<b.address, b.port>>

\* Before orders backends with different targets.
LEMMA BeforeOrders ==
  ASSUME NEW a \in Backend, NEW b \in Backend
  PROVE  /\ ~Before(a, a)
         /\ Target(a) # Target(b) => Before(a, b) \/ Before(b, a)
         /\ \A d \in Backend : Before(a, b) /\ Before(b, d) => Before(a, d)
<1>1. \A d \in Backend : d.address \in Nat /\ d.port \in Nat /\ d.nodeIP \in Nat
  BY DEF Backend
<1>. QED BY <1>1 DEF Before, Target

\* A set of backends, in order.
Ranked(V) ==
  [n \in 1 .. Cardinality(V) |->
      CHOOSE v \in V : Cardinality({w \in V : Before(w, v)}) = n - 1]

DistinctTargets(V) == \A v, w \in V : Target(v) = Target(w) => v = w

\* Finitely many backends with distinct targets have one order, in which each
\* of them comes once.
LEMMA RankedFacts ==
  ASSUME NEW V \in SUBSET Backend, IsFiniteSet(V), DistinctTargets(V)
  PROVE  /\ \A n \in 1 .. Cardinality(V) :
               /\ Ranked(V)[n] \in V
               /\ Cardinality({w \in V : Before(w, Ranked(V)[n])}) = n - 1
         /\ \A v, w \in V : Cardinality({x \in V : Before(x, v)})
                            = Cardinality({x \in V : Before(x, w)}) => v = w
         /\ Cardinality(V) \in Nat
         /\ Ranked(V) \in Seq(V)
         /\ Len(Ranked(V)) = Cardinality(V)
         /\ \A i, j \in 1 .. Cardinality(V) :
               i # j => Ranked(V)[i] # Ranked(V)[j]
         /\ ToSet(Ranked(V)) = V
<1>. DEFINE size == Cardinality(V)
            R == {vw \in V \X V : Before(vw[1], vw[2])}
            rank(v) == Cardinality({w \in V : Before(w, v)})
<1>1. size \in Nat
  BY FS_CardinalityType
<1>2. \A v \in V : Below(V, R, v) = {w \in V : Before(w, v)}
  BY DEF Below
<1>3. \A v, w \in V : <<v, w>> \in R <=> Before(v, w)
  OBVIOUS
<1>4. /\ \A v \in V : <<v, v>> \notin R
      /\ \A v, w \in V : v # w => <<v, w>> \in R \/ <<w, v>> \in R
      /\ \A v, w, x \in V : <<v, w>> \in R /\ <<w, x>> \in R => <<v, x>> \in R
  <2>. HIDE DEF R
  <2>1. \A v, w \in V : v # w => Target(v) # Target(w)
    BY DEF DistinctTargets
  <2>2. V \subseteq Backend
    OBVIOUS
  <2>. QED BY <1>3, <2>1, <2>2, BeforeOrders
<1>5. /\ \A v, w \in V : rank(v) = rank(w) => v = w
      /\ \A n \in 1 .. size : \E v \in V : rank(v) = n - 1
  <2>. HIDE DEF R
  <2>1. /\ \A v, w \in V : Cardinality(Below(V, R, v)) = Cardinality(Below(V, R, w))
                              => v = w
        /\ \A n \in 1 .. size : \E v \in V : Cardinality(Below(V, R, v)) = n - 1
    BY <1>4, Rank
  <2>. QED BY <1>2, <2>1
<1>6. \A n \in 1 .. size : Ranked(V)[n] \in V /\ rank(Ranked(V)[n]) = n - 1
  BY <1>5 DEF Ranked
<1>7. Ranked(V) \in Seq(V) /\ Len(Ranked(V)) = size /\ DOMAIN Ranked(V) = 1 .. size
  <2>1. Ranked(V) \in [1 .. size -> V]
    BY <1>6 DEF Ranked
  <2>. HIDE DEF size
  <2>. QED BY <1>1, <2>1
<1>8. \A i, j \in 1 .. size : i # j => Ranked(V)[i] # Ranked(V)[j]
  <2>. SUFFICES ASSUME NEW i \in 1 .. size, NEW j \in 1 .. size,
                       Ranked(V)[i] = Ranked(V)[j]
                PROVE  i = j
    OBVIOUS
  <2>1. rank(Ranked(V)[i]) = i - 1 /\ rank(Ranked(V)[j]) = j - 1
    BY <1>6
  <2>2. i - 1 = j - 1
    BY <2>1
  <2>. HIDE DEF size
  <2>. QED BY <1>1, <2>2
<1>9. ToSet(Ranked(V)) = V
  <2>1. \A n \in 1 .. size : Ranked(V)[n] \in V
    BY <1>6
  <2>2. ASSUME NEW v \in V PROVE \E n \in 1 .. size : Ranked(V)[n] = v
    <3>1. rank(v) \in 0 .. size - 1
      <4>1. {w \in V : Before(w, v)} \in SUBSET V
            /\ v \notin {w \in V : Before(w, v)}
        BY BeforeOrders
      <4>2. IsFiniteSet({w \in V : Before(w, v)}) /\ rank(v) <= size /\ rank(v) # size
        BY <4>1, FS_Subset
      <4>3. rank(v) \in Nat
        BY <4>2, FS_CardinalityType
      <4>. HIDE DEF rank, size
      <4>. QED BY <1>1, <4>2, <4>3
    <3>2. rank(v) + 1 \in 1 .. size /\ (rank(v) + 1) - 1 = rank(v)
      <4>. HIDE DEF rank, size
      <4>. QED BY <1>1, <3>1
    <3>3. rank(Ranked(V)[rank(v) + 1]) = rank(v) /\ Ranked(V)[rank(v) + 1] \in V
      BY <1>6, <3>2
    <3>. QED BY <1>5, <3>2, <3>3
  <2>. QED BY <1>7, <2>1, <2>2 DEF ToSet
<1>. QED BY <1>1, <1>5, <1>6, <1>7, <1>8, <1>9

Place == Nat \X Nat \X Nat

\* What a slice, an endpoint and a port of it come before is an order.
LEMMA EarlierOrders ==
  ASSUME NEW p \in Place, NEW q \in Place
  PROVE  /\ ~Earlier(p, p)
         /\ p # q => Earlier(p, q) \/ Earlier(q, p)
         /\ \A r \in Place : Earlier(p, q) /\ Earlier(q, r) => Earlier(p, r)
<1>1. \A r \in Place : /\ r[1] \in Nat /\ r[2] \in Nat /\ r[3] \in Nat
                       /\ r = <<r[1], r[2], r[3]>>
  BY DEF Place
<1>. QED BY <1>1 DEF Earlier

\* Of the candidates for each target one is kept, and one only.
LEMMA KeptOfEach ==
  ASSUME NEW P \in SUBSET Place, IsFiniteSet(P), NEW c \in [P -> Backend]
  PROVE  /\ \A p, q \in Deduplicated(c) : Target(c[p]) = Target(c[q]) => p = q
         /\ \A q \in P : \E p \in Deduplicated(c) : Target(c[p]) = Target(c[q])
<1>1. \A p, q \in P : Target(c[p]) # Target(c[q])
                      <=> c[p].address # c[q].address \/ c[p].port # c[q].port
  BY DEF Target
<1>2. Deduplicated(c) = {p \in P : \A q \in P : Earlier(q, p) => Target(c[q]) # Target(c[p])}
  BY <1>1 DEF Deduplicated
<1>3. \A p, q \in Deduplicated(c) : Target(c[p]) = Target(c[q]) => p = q
  BY <1>2, EarlierOrders
<1>4. ASSUME NEW q \in P PROVE \E p \in Deduplicated(c) : Target(c[p]) = Target(c[q])
  <2>. DEFINE K == {p \in P : Target(c[p]) = Target(c[q])}
              R == {pr \in P \X P : Earlier(pr[1], pr[2])}
  <2>1. IsFiniteSet(K) /\ Cardinality(K) # 0 /\ Cardinality(K) \in Nat
    <3>1. K \in SUBSET P /\ q \in K
      OBVIOUS
    <3>. HIDE DEF K
    <3>2. IsFiniteSet(K)
      BY <3>1, FS_Subset
    <3>. QED BY <3>1, <3>2, FS_EmptySet, FS_CardinalityType
  <2>2. \A p, r \in P : <<p, r>> \in R <=> Earlier(p, r)
    OBVIOUS
  <2>3. \E p \in K : Cardinality(Below(K, R, p)) = 0
    <3>1. K \subseteq P /\ P \subseteq Place
      OBVIOUS
    <3>2. 1 \in 1 .. Cardinality(K) /\ 1 - 1 = 0
      BY <2>1
    <3>. HIDE DEF K, R
    <3>3. /\ \A p \in K : <<p, p>> \notin R
          /\ \A p, r \in K : p # r => <<p, r>> \in R \/ <<r, p>> \in R
          /\ \A p, r, x \in K : <<p, r>> \in R /\ <<r, x>> \in R => <<p, x>> \in R
      BY <2>2, <3>1, EarlierOrders
    <3>4. \A n \in 1 .. Cardinality(K) : \E p \in K : Cardinality(Below(K, R, p)) = n - 1
      BY <2>1, <3>3, Rank
    <3>. QED BY <3>2, <3>4
  <2>4. PICK p \in K : Cardinality(Below(K, R, p)) = 0
    BY <2>3
  <2>5. Below(K, R, p) = {}
    <3>1. Below(K, R, p) \in SUBSET K
      BY DEF Below
    <3>. HIDE DEF K, R
    <3>. QED BY <2>1, <2>4, <3>1, FS_Subset, FS_EmptySet
  <2>6. p \in Deduplicated(c)
    BY <1>2, <2>5 DEF Below
  <2>. QED BY <2>6
<1>. QED BY <1>3, <1>4

Values(c, places) == {c[p] : p \in places}

\* The sorted candidates are their values in order.
LEMMA SortedIsRanked ==
  ASSUME NEW P \in SUBSET Place, IsFiniteSet(P), NEW c \in [P -> Backend]
  PROVE  LET K == Deduplicated(c)
         IN  /\ Values(c, K) \in SUBSET Backend /\ IsFiniteSet(Values(c, K))
             /\ DistinctTargets(Values(c, K))
             /\ Sorted(c, K) = Ranked(Values(c, K))
<1>. DEFINE K == Deduplicated(c)
            V == Values(c, K)
            place(p) == {q \in K : Before(c[q], c[p])}
            before(p) == {q \in K : Before(c[q], c[p]) \/ (c[q] = c[p] /\ Earlier(q, p))}
            value(v) == {w \in V : Before(w, v)}
<1>1. K \in SUBSET P /\ IsFiniteSet(K)
  <2>1. K \in SUBSET P
    BY DEF Deduplicated
  <2>. HIDE DEF K
  <2>. QED BY <2>1, FS_Subset
<1>2. \A p, q \in K : Target(c[p]) = Target(c[q]) => p = q
  BY KeptOfEach
<1>3. V \in SUBSET Backend /\ DistinctTargets(V)
  BY <1>1, <1>2 DEF Values, DistinctTargets
<1>4. ASSUME NEW S \in SUBSET K
      PROVE  IsFiniteSet(Values(c, S)) /\ Cardinality(Values(c, S)) = Cardinality(S)
  <2>. HIDE DEF K
  <2>. DEFINE f == [q \in S |-> c[q]]
  <2>1. IsFiniteSet(S)
    BY <1>1, FS_Subset
  <2>2. f \in Bijection(S, Values(c, S))
    <3>1. \A p, q \in S : f[p] = f[q] => p = q
      BY <1>2
    <3>. QED BY <3>1 DEF Bijection, Injection, Surjection, IsInjective, Values
  <2>. QED BY <2>1, <2>2, FS_Bijection DEF ExistsBijection
<1>5. IsFiniteSet(V) /\ Cardinality(V) = Cardinality(K)
  BY <1>4
<1>6. ASSUME NEW p \in K
      PROVE  Cardinality(place(p)) = Cardinality(value(c[p]))
  <2>1. value(c[p]) = Values(c, place(p))
    BY DEF Values
  <2>. QED BY <1>4, <2>1
<1>7. \A p, q \in K : ~ (c[q] = c[p] /\ Earlier(q, p))
  <2>1. \A p, q \in K : c[q] = c[p] => p = q
    BY <1>2
  <2>2. \A p \in K : ~Earlier(p, p)
    BY <1>1, EarlierOrders
  <2>. QED BY <2>1, <2>2
<1>8. \A p \in K : before(p) = place(p)
  BY <1>7
<1>9. /\ \A n \in 1 .. Cardinality(V) :
            /\ Ranked(V)[n] \in V
            /\ Cardinality(value(Ranked(V)[n])) = n - 1
      /\ \A v, w \in V : Cardinality(value(v)) = Cardinality(value(w)) => v = w
  BY <1>3, <1>5, RankedFacts
<1>10. ASSUME NEW n \in 1 .. Cardinality(K)
       PROVE  c[CHOOSE p \in K : Cardinality(before(p)) = n - 1] = Ranked(V)[n]
  <2>. DEFINE first == CHOOSE p \in K : Cardinality(before(p)) = n - 1
  <2>1. Ranked(V)[n] \in V /\ Cardinality(value(Ranked(V)[n])) = n - 1
    BY <1>5, <1>9
  <2>2. \E p \in K : c[p] = Ranked(V)[n]
    BY <2>1 DEF Values
  <2>3. \E p \in K : Cardinality(before(p)) = n - 1
    BY <1>6, <1>8, <2>1, <2>2
  <2>4. first \in K /\ Cardinality(before(first)) = n - 1
    BY <2>3
  <2>5. c[first] \in V /\ Cardinality(value(c[first])) = n - 1
    BY <1>6, <1>8, <2>4 DEF Values
  <2>. QED BY <1>9, <2>1, <2>5
<1>11. Sorted(c, K) = Ranked(V)
  <2>1. Sorted(c, K) = [n \in 1 .. Cardinality(K) |->
                           c[CHOOSE p \in K : Cardinality(before(p)) = n - 1]]
    BY DEF Sorted
  <2>2. Ranked(V) = [n \in 1 .. Cardinality(V) |-> Ranked(V)[n]]
    <3>. DEFINE size == Cardinality(V)
                nth(n) == CHOOSE v \in V : Cardinality({w \in V : Before(w, v)}) = n - 1
    <3>1. Ranked(V) = [n \in 1 .. size |-> nth(n)]
      BY DEF Ranked
    <3>. HIDE DEF V, nth
    <3>2. \A n \in 1 .. size : Ranked(V)[n] = nth(n)
      BY <3>1
    <3>. QED BY <3>1, <3>2
  <2>. HIDE DEF K, V, before
  <2>. QED BY <1>5, <1>10, <2>1, <2>2
<1>. QED BY <1>3, <1>5, <1>11

---------------------------------------------------------------------------
(* Listings and candidates.                                                *)

\* The caches hold objects of the kinds that the constants describe.
CachesTyped ==
    /\ services \in [Service -> ServiceSpecs \cup {None}]
    /\ slices \in [SliceName -> Slices \cup {None}]
    /\ nodeIP \in [Node -> NodeAddresses \cup {None}]

\* A listing has every present slice.
LEMMA ListingCovers ==
  ASSUME NEW listing \in Listings
  PROVE  /\ IsFiniteSet(DOMAIN listing) /\ DOMAIN listing \subseteq Nat
         /\ \A n \in DOMAIN listing : listing[n] \in Present
         /\ \A m \in Present : \E n \in DOMAIN listing : listing[n] = m
<1>. DEFINE size == Cardinality(Present)
<1>1. IsFiniteSet(Present) /\ size \in Nat
  <2>1. Present \in SUBSET SliceName
    BY DEF Present
  <2>. QED BY <2>1, FS_Subset, FS_CardinalityType
<1>2. /\ listing \in [1 .. size -> Present]
      /\ \A i, j \in DOMAIN listing : listing[i] = listing[j] => i = j
  BY DEF Listings
<1>. HIDE DEF size
<1>3. listing \in Injection(1 .. size, Present)
  BY <1>2 DEF Injection, IsInjective
<1>4. IsFiniteSet(1 .. size) /\ Cardinality(1 .. size) = size
  <2>1. 1 \in Int /\ size \in Int /\ (1 > size => size = 0) /\ size - 1 + 1 = size
    BY <1>1
  <2>. QED BY <2>1, FS_Interval
<1>5. listing \in Surjection(1 .. size, Present)
  <2>1. Cardinality(1 .. size) = Cardinality(Present)
    BY <1>4 DEF size
  <2>. QED BY <1>1, <1>3, <2>1, FS_Injection
<1>. QED BY <1>1, <1>2, <1>4, <1>5 DEF Surjection

\* The slices of a service, each at some place.
LEMMA SliceIndex ==
  ASSUME CachesTyped, NEW listing \in Listings, NEW s \in Service
  PROVE  LET related == buildSliceIndex(listing, s)
         IN  /\ IsFiniteSet(DOMAIN related) /\ DOMAIN related \subseteq Nat
             /\ \A n \in DOMAIN related :
                   /\ related[n] \in Slices
                   /\ \E m \in Present : slices[m].service = s /\ slices[m] = related[n]
             /\ \A m \in Present : slices[m].service = s =>
                   \E n \in DOMAIN related : related[n] = slices[m]
<1>. DEFINE related == buildSliceIndex(listing, s)
            D == {n \in DOMAIN listing : slices[listing[n]].service = s}
<1>1. related = [n \in D |-> slices[listing[n]]]
  BY DEF buildSliceIndex
<1>2. /\ IsFiniteSet(DOMAIN listing) /\ DOMAIN listing \subseteq Nat
      /\ \A n \in DOMAIN listing : listing[n] \in Present
      /\ \A m \in Present : \E n \in DOMAIN listing : listing[n] = m
  BY ListingCovers
<1>3. D \in SUBSET DOMAIN listing /\ IsFiniteSet(D)
  BY <1>2, FS_Subset
<1>4. \A m \in Present : slices[m] \in Slices
  BY DEF Present, CachesTyped
<1>. QED BY <1>1, <1>2, <1>3, <1>4

\* The union of a finite number of finite sets is finite, with their indexes.
LEMMA FiniteUnion ==
  ASSUME NEW S, IsFiniteSet(S), NEW f, \A x \in S : IsFiniteSet(f[x])
  PROVE  IsFiniteSet(UNION {f[x] : x \in S})
<1>. DEFINE T == {f[x] : x \in S}
            g == [x \in S |-> f[x]]
<1>1. g \in Surjection(S, T)
  BY DEF Surjection
<1>2. IsFiniteSet(T)
  BY <1>1, FS_Surjection
<1>. QED BY <1>2, FS_UNION

\* Positions in a sequence.
LEMMA FinitePositions ==
  ASSUME NEW S, NEW q \in Seq(S)
  PROVE  /\ DOMAIN q \subseteq Nat /\ IsFiniteSet(DOMAIN q)
         /\ \A k \in DOMAIN q : q[k] \in S
<1>1. DOMAIN q = 1 .. Len(q) /\ 1 \in Int /\ Len(q) \in Int
  OBVIOUS
<1>. QED BY <1>1, FS_Interval

LEMMA FiniteTriples ==
  ASSUME NEW n, NEW E, IsFiniteSet(E), NEW M, IsFiniteSet(M)
  PROVE  IsFiniteSet({n} \X E \X M)
<1>. DEFINE row == [i \in E |-> {<<n, i, k>> : k \in M}]
<1>1. \A i \in E : IsFiniteSet(row[i])
  <2>. TAKE i \in E
  <2>. DEFINE cell == [k \in M |-> <<n, i, k>>]
  <2>1. cell \in Surjection(M, row[i])
    BY DEF Surjection
  <2>. QED BY <2>1, FS_Surjection
<1>2. IsFiniteSet(UNION {row[i] : i \in E})
  <2>. HIDE DEF row
  <2>1. \A i \in E : IsFiniteSet(row[i])
    BY <1>1
  <2>. QED BY <2>1, FiniteUnion
<1>3. {n} \X E \X M = UNION {row[i] : i \in E}
  <2>1. \A i \in E : row[i] = {<<n, i, k>> : k \in M}
    OBVIOUS
  <2>2. \A p \in {n} \X E \X M : p = <<n, p[2], p[3]>> /\ p[2] \in E /\ p[3] \in M
    OBVIOUS
  <2>3. {n} \X E \X M \subseteq UNION {row[i] : i \in E}
    BY <2>1, <2>2
  <2>4. ASSUME NEW p \in UNION {row[i] : i \in E} PROVE p \in {n} \X E \X M
    <3>1. PICK i \in E : p \in row[i]
      OBVIOUS
    <3>2. PICK k \in M : p = <<n, i, k>>
      BY <2>1, <3>1
    <3>. QED BY <3>2
  <2>. QED BY <2>3, <2>4
<1>. QED BY <1>2, <1>3

\* What a usable endpoint offers behind a port of its slice.
Offer(e, port) ==
    [address |-> firstIPv4Address(e), port |-> port, nodeIP |-> nodeIP[e.node]]

\* The first of some positions is one of them.
LEMMA FirstIn ==
  ASSUME NEW S \in SUBSET Nat, S # {}
  PROVE  First(S) \in S
<1>1. PICK i \in S : \A j \in S : ~ (<<j, i>> \in OpToRel(<, Nat))
  BY NatLessThanWellFounded, WFMin, Zenon
<1>2. \A j \in S : ~ (j < i)
  BY <1>1 DEF OpToRel
<1>3. \A j \in S : i <= j
  BY <1>2
<1>. QED BY <1>3 DEF First

LEMMA AddressTyped ==
  ASSUME NEW e \in Endpoint, firstIPv4Address(e) # None
  PROVE  firstIPv4Address(e) \in Addresses \cap ToSet(e.addresses)
<1>. DEFINE v4 == {n \in DOMAIN e.addresses : e.addresses[n] \in IPv4}
<1>1. e.addresses \in Seq(Addresses)
  BY DEF Endpoint
<1>2. /\ DOMAIN e.addresses \subseteq Nat
      /\ \A n \in DOMAIN e.addresses : e.addresses[n] \in Addresses
  BY <1>1, FinitePositions
<1>3. v4 # {} /\ firstIPv4Address(e) = e.addresses[First(v4)]
  BY DEF firstIPv4Address
<1>4. First(v4) \in v4
  <2>1. v4 \in SUBSET Nat
    BY <1>2
  <2>. QED BY <1>3, <2>1, FirstIn
<1>5. First(v4) \in DOMAIN e.addresses
  BY <1>4
<1>. HIDE DEF v4
<1>. QED BY <1>2, <1>3, <1>5 DEF ToSet

LEMMA OfferTyped ==
  ASSUME CachesTyped, NEW slice \in Slices, NEW sp,
         NEW i \in DOMAIN slice.endpoints, Usable(slice.endpoints[i]),
         NEW k \in matchingSlicePorts(sp, slice)
  PROVE  /\ Offer(slice.endpoints[i], slice.ports[k].port) \in Backend
         /\ slice.endpoints[i].node \in Node
<1>. DEFINE e == slice.endpoints[i]
<1>1. slice.endpoints \in Seq(Endpoint) /\ slice.ports \in Seq(SlicePort)
  BY DEF Slice
<1>2. e \in Endpoint
  BY <1>1, FinitePositions
<1>3. k \in DOMAIN slice.ports /\ slice.ports[k].port # None
  BY DEF matchingSlicePorts
<1>4. slice.ports[k] \in SlicePort
  BY <1>1, <1>3, FinitePositions
<1>5. slice.ports[k].port \in Nat
  BY <1>3, <1>4 DEF SlicePort
<1>6. e.node # None /\ firstIPv4Address(e) # None /\ nodeIP[e.node] # None
  BY DEF Usable, eligibleEndpoint
<1>. HIDE DEF e
<1>7. e.node \in Node
  BY <1>2, <1>6 DEF Endpoint
<1>8. nodeIP[e.node] \in Addresses
  BY <1>6, <1>7 DEF CachesTyped
<1>9. firstIPv4Address(e) \in Addresses
  BY <1>2, <1>6, AddressTyped
<1>. QED BY <1>5, <1>7, <1>8, <1>9 DEF Offer, Backend, e

\* What the usable endpoints of a service offer.
Offers(s, sp) ==
    {b \in Backend : \E m \in Present :
        /\ slices[m].service = s
        /\ \E i \in DOMAIN slices[m].endpoints, k \in matchingSlicePorts(sp, slices[m]) :
              /\ Usable(slices[m].endpoints[i])
              /\ b = Offer(slices[m].endpoints[i], slices[m].ports[k].port)}

\* The candidates are what the endpoints offer, whatever the listing.
LEMMA CandidatesAreOffers ==
  ASSUME CachesTyped, NEW listing \in Listings, NEW s \in Service, NEW sp
  PROVE  LET related == buildSliceIndex(listing, s)
             P == Places(sp, related)
             c == Candidates(sp, related)
         IN  /\ P \in SUBSET Place /\ IsFiniteSet(P)
             /\ c \in [P -> Backend]
             /\ Values(c, P) = Offers(s, sp)
<1>. DEFINE related == buildSliceIndex(listing, s)
            P == Places(sp, related)
            c == Candidates(sp, related)
            D == DOMAIN related
            of == [n \in D |-> {n} \X (DOMAIN related[n].endpoints)
                                   \X matchingSlicePorts(sp, related[n])]
<1>1. /\ IsFiniteSet(D) /\ D \subseteq Nat
      /\ \A n \in D :
            /\ related[n] \in Slices
            /\ \E m \in Present : slices[m].service = s /\ slices[m] = related[n]
      /\ \A m \in Present : slices[m].service = s =>
            \E n \in D : related[n] = slices[m]
  BY SliceIndex
<1>. HIDE DEF related
<1>2. ASSUME NEW n \in D
      PROVE  /\ of[n] \in SUBSET Place /\ IsFiniteSet(of[n])
             /\ of[n] = {n} \X (DOMAIN related[n].endpoints)
                            \X matchingSlicePorts(sp, related[n])
  <2>1. related[n] \in Slices
    BY <1>1
  <2>2. related[n].endpoints \in Seq(Endpoint) /\ related[n].ports \in Seq(SlicePort)
    BY <2>1 DEF Slice
  <2>3. DOMAIN related[n].endpoints \in SUBSET Nat /\ IsFiniteSet(DOMAIN related[n].endpoints)
    BY <2>2, FinitePositions
  <2>4. DOMAIN related[n].ports \in SUBSET Nat /\ IsFiniteSet(DOMAIN related[n].ports)
    BY <2>2, FinitePositions
  <2>5. matchingSlicePorts(sp, related[n]) \in SUBSET DOMAIN related[n].ports
    BY DEF matchingSlicePorts
  <2>6. /\ matchingSlicePorts(sp, related[n]) \in SUBSET Nat
        /\ IsFiniteSet(matchingSlicePorts(sp, related[n]))
    BY <2>4, <2>5, FS_Subset
  <2>7. n \in Nat
    BY <1>1
  <2>8. IsFiniteSet(of[n])
    BY <2>3, <2>6, <2>7, FiniteTriples
  <2>. QED BY <2>3, <2>6, <2>7, <2>8 DEF Place
<1>3. IsFiniteSet(UNION {of[n] : n \in D}) /\ UNION {of[n] : n \in D} \subseteq Place
  <2>. HIDE DEF of
  <2>1. IsFiniteSet(UNION {of[n] : n \in D})
    BY <1>1, <1>2, FiniteUnion
  <2>. QED BY <1>2, <2>1
<1>4. P = {p \in UNION {of[n] : n \in D} : Usable(related[p[1]].endpoints[p[2]])}
  BY DEF Places
<1>5. P \in SUBSET Place /\ IsFiniteSet(P)
  <2>1. P \in SUBSET UNION {of[n] : n \in D}
    BY <1>4
  <2>. HIDE DEF P, of
  <2>. QED BY <1>3, <2>1, FS_Subset
<1>6. \A n, i, k : <<n, i, k>> \in P <=>
         /\ n \in D /\ i \in DOMAIN related[n].endpoints
         /\ k \in matchingSlicePorts(sp, related[n])
         /\ Usable(related[n].endpoints[i])
  BY <1>2, <1>4
<1>7. \A p \in P : p = <<p[1], p[2], p[3]>>
  BY <1>5 DEF Place
<1>8. c = [p \in P |-> Offer(related[p[1]].endpoints[p[2]], related[p[1]].ports[p[3]].port)]
  BY DEF Candidates, Offer
<1>. HIDE DEF P, D, of, c
<1>9. ASSUME NEW n \in D, NEW i \in DOMAIN related[n].endpoints,
             NEW k \in matchingSlicePorts(sp, related[n]),
             Usable(related[n].endpoints[i])
      PROVE  Offer(related[n].endpoints[i], related[n].ports[k].port) \in Backend
  BY <1>1, <1>9, OfferTyped
<1>10. c \in [P -> Backend]
  <2>1. ASSUME NEW p \in P
        PROVE  Offer(related[p[1]].endpoints[p[2]], related[p[1]].ports[p[3]].port) \in Backend
    <3>1. /\ p[1] \in D /\ p[2] \in DOMAIN related[p[1]].endpoints
          /\ p[3] \in matchingSlicePorts(sp, related[p[1]])
          /\ Usable(related[p[1]].endpoints[p[2]])
      BY <1>6, <1>7
    <3>. QED BY <1>9, <3>1
  <2>. QED BY <1>8, <2>1
<1>11. ASSUME NEW p \in P PROVE c[p] \in Offers(s, sp)
  <2>1. /\ p[1] \in D /\ p[2] \in DOMAIN related[p[1]].endpoints
        /\ p[3] \in matchingSlicePorts(sp, related[p[1]])
        /\ Usable(related[p[1]].endpoints[p[2]])
    BY <1>6, <1>7
  <2>2. PICK m \in Present : slices[m].service = s /\ slices[m] = related[p[1]]
    BY <1>1, <2>1
  <2>3. c[p] \in Backend
        /\ c[p] = Offer(slices[m].endpoints[p[2]], slices[m].ports[p[3]].port)
    BY <1>8, <1>10, <2>2
  <2>. QED BY <2>1, <2>2, <2>3 DEF Offers
<1>12. ASSUME NEW b \in Offers(s, sp) PROVE \E p \in P : c[p] = b
  <2>1. PICK m \in Present :
          /\ slices[m].service = s
          /\ \E i \in DOMAIN slices[m].endpoints, k \in matchingSlicePorts(sp, slices[m]) :
                /\ Usable(slices[m].endpoints[i])
                /\ b = Offer(slices[m].endpoints[i], slices[m].ports[k].port)
    BY DEF Offers
  <2>2. PICK i \in DOMAIN slices[m].endpoints, k \in matchingSlicePorts(sp, slices[m]) :
          /\ Usable(slices[m].endpoints[i])
          /\ b = Offer(slices[m].endpoints[i], slices[m].ports[k].port)
    BY <2>1
  <2>3. PICK n \in D : related[n] = slices[m]
    BY <1>1, <2>1
  <2>4. <<n, i, k>> \in P
    BY <1>6, <2>2, <2>3
  <2>5. c[<<n, i, k>>] = b
    BY <1>8, <2>2, <2>3, <2>4
  <2>. QED BY <2>4, <2>5
<1>. QED BY <1>5, <1>10, <1>11, <1>12 DEF Values, P, c, related

\* When an address is on one node, an address and port has one backend.
LEMMA OneOffer ==
  ASSUME CachesTyped, AddressOnOneNode, NEW s \in Service, NEW sp,
         NEW a \in Offers(s, sp), NEW b \in Offers(s, sp), Target(a) = Target(b)
  PROVE  a = b
<1>1. ASSUME NEW d \in Offers(s, sp)
      PROVE  \E m \in Present : \E i \in 1 .. Len(slices[m].endpoints) :
                /\ d.address \in ToSet(slices[m].endpoints[i].addresses)
                /\ d = [address |-> d.address, port |-> d.port,
                        nodeIP |-> nodeIP[slices[m].endpoints[i].node]]
  <2>1. PICK m \in Present :
          /\ slices[m].service = s
          /\ \E i \in DOMAIN slices[m].endpoints, k \in matchingSlicePorts(sp, slices[m]) :
                /\ Usable(slices[m].endpoints[i])
                /\ d = Offer(slices[m].endpoints[i], slices[m].ports[k].port)
    BY DEF Offers
  <2>2. PICK i \in DOMAIN slices[m].endpoints, k \in matchingSlicePorts(sp, slices[m]) :
          /\ Usable(slices[m].endpoints[i])
          /\ d = Offer(slices[m].endpoints[i], slices[m].ports[k].port)
    BY <2>1
  <2>3. slices[m] \in Slices
    BY DEF Present, CachesTyped
  <2>4. slices[m].endpoints \in Seq(Endpoint)
    BY <2>3 DEF Slice
  <2>5. slices[m].endpoints[i] \in Endpoint /\ i \in 1 .. Len(slices[m].endpoints)
    BY <2>4, FinitePositions
  <2>6. firstIPv4Address(slices[m].endpoints[i]) # None
    BY <2>2 DEF Usable
  <2>7. firstIPv4Address(slices[m].endpoints[i]) \in ToSet(slices[m].endpoints[i].addresses)
    BY <2>5, <2>6, AddressTyped
  <2>. QED BY <2>2, <2>5, <2>7 DEF Offer
<1>2. PICK m \in Present : \E i \in 1 .. Len(slices[m].endpoints) :
                /\ a.address \in ToSet(slices[m].endpoints[i].addresses)
                /\ a = [address |-> a.address, port |-> a.port,
                        nodeIP |-> nodeIP[slices[m].endpoints[i].node]]
  BY <1>1
<1>3. PICK i \in 1 .. Len(slices[m].endpoints) :
                /\ a.address \in ToSet(slices[m].endpoints[i].addresses)
                /\ a = [address |-> a.address, port |-> a.port,
                        nodeIP |-> nodeIP[slices[m].endpoints[i].node]]
  BY <1>2
<1>4. PICK n \in Present : \E j \in 1 .. Len(slices[n].endpoints) :
                /\ b.address \in ToSet(slices[n].endpoints[j].addresses)
                /\ b = [address |-> b.address, port |-> b.port,
                        nodeIP |-> nodeIP[slices[n].endpoints[j].node]]
  BY <1>1
<1>5. PICK j \in 1 .. Len(slices[n].endpoints) :
                /\ b.address \in ToSet(slices[n].endpoints[j].addresses)
                /\ b = [address |-> b.address, port |-> b.port,
                        nodeIP |-> nodeIP[slices[n].endpoints[j].node]]
  BY <1>4
<1>6. a.address = b.address /\ a.port = b.port
  BY DEF Target
<1>7. slices[m].endpoints[i].node = slices[n].endpoints[j].node
  <2>1. a.address \in ToSet(slices[m].endpoints[i].addresses)
                        \cap ToSet(slices[n].endpoints[j].addresses)
    BY <1>3, <1>5, <1>6
  <2>. DEFINE at(k, o) == slices[k].endpoints[o]
              of(k) == 1 .. Len(slices[k].endpoints)
              shared(d, e) == (ToSet(d.addresses) \cap ToSet(e.addresses)) # {}
  <2>2. \A k, l \in Present : \A o \in of(k), q \in of(l) :
           shared(at(k, o), at(l, q)) => at(k, o).node = at(l, q).node
    BY Zenon DEF AddressOnOneNode
  <2>3. shared(at(m, i), at(n, j)) /\ i \in of(m) /\ j \in of(n)
    BY <2>1
  <2>. HIDE DEF at, of, shared
  <2>4. at(m, i).node = at(n, j).node
    BY <2>2, <2>3
  <2>. QED BY <2>4 DEF at
<1>. QED BY <1>3, <1>5, <1>6, <1>7

\* What is collected for a port: the offers in order, each address and port
\* once; all of them when an address is on one node.
LEMMA Collected ==
  ASSUME CachesTyped, NEW listing \in Listings, NEW s \in Service, NEW sp
  PROVE  LET b == collectBackends(sp, buildSliceIndex(listing, s))
         IN  /\ b \in Seq(Backend)
             /\ \A i, j \in 1 .. Len(b) : i # j => Target(b[i]) # Target(b[j])
             /\ AddressOnOneNode => /\ b = Ranked(Offers(s, sp))
                                    /\ ToSet(b) = Offers(s, sp)
<1>. DEFINE related == buildSliceIndex(listing, s)
            P == Places(sp, related)
            c == Candidates(sp, related)
            K == Deduplicated(c)
            V == Values(c, K)
            b == collectBackends(sp, related)
<1>1. P \in SUBSET Place /\ IsFiniteSet(P) /\ c \in [P -> Backend]
      /\ Values(c, P) = Offers(s, sp)
  BY CandidatesAreOffers
<1>2. b = Sorted(c, K)
  BY DEF collectBackends
<1>. HIDE DEF P, c, b
<1>3. V \in SUBSET Backend /\ IsFiniteSet(V) /\ DistinctTargets(V) /\ b = Ranked(V)
  BY <1>1, <1>2, SortedIsRanked
<1>. HIDE DEF V
<1>4. /\ Ranked(V) \in Seq(V) /\ Len(Ranked(V)) = Cardinality(V)
      /\ \A i, j \in 1 .. Cardinality(V) : i # j => Ranked(V)[i] # Ranked(V)[j]
      /\ ToSet(Ranked(V)) = V
      /\ \A n \in 1 .. Cardinality(V) : Ranked(V)[n] \in V
  BY <1>3, RankedFacts
<1>5. b \in Seq(Backend)
  BY <1>3, <1>4
<1>6. \A i, j \in 1 .. Len(b) : i # j => Target(b[i]) # Target(b[j])
  BY <1>3, <1>4 DEF DistinctTargets
<1>7. ASSUME AddressOnOneNode PROVE V = Offers(s, sp)
  <2>1. K \subseteq P
    BY <1>1 DEF Deduplicated
  <2>2. V \subseteq Values(c, P)
    BY <2>1 DEF V, Values
  <2>3. ASSUME NEW q \in P PROVE c[q] \in V
    <3>1. PICK p \in K : Target(c[p]) = Target(c[q])
      BY <1>1, KeptOfEach
    <3>2. c[p] \in Offers(s, sp) /\ c[q] \in Offers(s, sp)
      BY <1>1, <2>1 DEF Values
    <3>3. c[p] = c[q]
      BY <1>7, <3>1, <3>2, OneOffer
    <3>. QED BY <3>3 DEF V, Values
  <2>. QED BY <1>1, <2>2, <2>3 DEF Values
<1>. QED BY <1>3, <1>4, <1>5, <1>6, <1>7 DEF b, related

---------------------------------------------------------------------------
(* desiredEntries.                                                         *)

\* What is published for a port of a service.
EntryOf(listing, s, sp) ==
    [service  |-> s, nodePort |-> sp.nodePort,
     backends |-> collectBackends(sp, buildSliceIndex(listing, s))]

LEMMA DesiredAre ==
  ASSUME NEW listing
  PROVE  \A e : e \in desiredEntries(listing) <=>
            \E s \in Service : \E sp \in ServedPorts(s) :
                e = EntryOf(listing, s, sp) /\ e.backends # <<>>
BY DEF desiredEntries, EntryOf

\* Two served ports of a service with the same node port are the same.
LEMMA PortsDiffer ==
  ASSUME CachesTyped, NEW s \in Service,
         NEW p \in ServedPorts(s), NEW q \in ServedPorts(s)
  PROVE  /\ p.nodePort \in Nat \ {0}
         /\ p.nodePort = q.nodePort => p = q
<1>1. /\ p \in ToSet(services[s].ports) /\ p.proto \in {Unset, "TCP"} /\ p.nodePort # 0
      /\ q \in ToSet(services[s].ports) /\ q.proto \in {Unset, "TCP"} /\ q.nodePort # 0
      /\ Served(s)
  BY DEF ServedPorts
<1>2. services[s] \in ServiceSpecs
  BY <1>1 DEF Served, CachesTyped
<1>3. services[s].ports \in Seq(ServicePort)
  BY <1>2 DEF ServiceSpec
<1>4. PICK i \in DOMAIN services[s].ports : p = services[s].ports[i]
  BY <1>1 DEF ToSet
<1>5. PICK j \in DOMAIN services[s].ports : q = services[s].ports[j]
  BY <1>1 DEF ToSet
<1>6. p \in ServicePort
  BY <1>3, <1>4, FinitePositions
<1>7. p.nodePort \in Nat
  BY <1>6 DEF ServicePort
<1>. QED BY <1>1, <1>2, <1>4, <1>5, <1>7, NodePortAssumption

\* What is published is well formed.
LEMMA WellFormed ==
  ASSUME CachesTyped, NEW listing \in Listings
  PROVE  /\ \A e \in desiredEntries(listing) :
               /\ e.service \in Service /\ e.nodePort \in Nat \ {0}
               /\ e.backends # <<>> /\ e.backends \in Seq(Backend)
               /\ \A i, j \in 1 .. Len(e.backends) :
                     i # j => \/ e.backends[i].address # e.backends[j].address
                              \/ e.backends[i].port # e.backends[j].port
         /\ \A e, f \in desiredEntries(listing) :
               e.service = f.service /\ e.nodePort = f.nodePort => e = f
<1>1. ASSUME NEW e \in desiredEntries(listing)
      PROVE  /\ e.service \in Service /\ e.nodePort \in Nat \ {0}
             /\ e.backends # <<>> /\ e.backends \in Seq(Backend)
             /\ \A i, j \in 1 .. Len(e.backends) :
                   i # j => \/ e.backends[i].address # e.backends[j].address
                            \/ e.backends[i].port # e.backends[j].port
  <2>1. PICK s \in Service : \E sp \in ServedPorts(s) :
            e = EntryOf(listing, s, sp) /\ e.backends # <<>>
    BY DesiredAre
  <2>2. PICK sp \in ServedPorts(s) : e = EntryOf(listing, s, sp) /\ e.backends # <<>>
    BY <2>1
  <2>. DEFINE b == collectBackends(sp, buildSliceIndex(listing, s))
  <2>3. b \in Seq(Backend)
        /\ \A i, j \in 1 .. Len(b) : i # j => Target(b[i]) # Target(b[j])
    BY Collected
  <2>4. e.service = s /\ e.nodePort = sp.nodePort /\ e.backends = b
    BY <2>2 DEF EntryOf
  <2>5. sp.nodePort \in Nat \ {0}
    BY PortsDiffer
  <2>. HIDE DEF b
  <2>. QED BY <2>2, <2>3, <2>4, <2>5 DEF Target
<1>2. ASSUME NEW e \in desiredEntries(listing), NEW f \in desiredEntries(listing),
             e.service = f.service, e.nodePort = f.nodePort
      PROVE  e = f
  <2>1. PICK s \in Service : \E sp \in ServedPorts(s) : e = EntryOf(listing, s, sp)
    BY DesiredAre
  <2>2. PICK p \in ServedPorts(s) : e = EntryOf(listing, s, p)
    BY <2>1
  <2>3. PICK t \in Service : \E sp \in ServedPorts(t) : f = EntryOf(listing, t, sp)
    BY DesiredAre
  <2>4. PICK q \in ServedPorts(t) : f = EntryOf(listing, t, q)
    BY <2>3
  <2>5. s = t /\ p.nodePort = q.nodePort
    BY <1>2, <2>2, <2>4 DEF EntryOf
  <2>6. p = q
    BY <2>5, PortsDiffer
  <2>. QED BY <2>2, <2>4, <2>5, <2>6
<1>. QED BY <1>1, <1>2

\* Two listings of the same caches are published alike.
LEMMA ListingsAgree ==
  ASSUME CachesTyped, AddressOnOneNode, NEW l \in Listings, NEW m \in Listings
  PROVE  desiredEntries(l) = desiredEntries(m)
<1>1. ASSUME NEW s \in Service, NEW sp
      PROVE  EntryOf(l, s, sp) = EntryOf(m, s, sp)
  <2>1. /\ collectBackends(sp, buildSliceIndex(l, s)) = Ranked(Offers(s, sp))
        /\ collectBackends(sp, buildSliceIndex(m, s)) = Ranked(Offers(s, sp))
    BY Collected
  <2>. QED BY <2>1 DEF EntryOf
<1>2. \A e : e \in desiredEntries(l) <=> e \in desiredEntries(m)
  BY <1>1, DesiredAre
<1>. QED BY <1>2

LEMMA UnsetIsNoKind == Unset # "Other"
BY Zenon DEF Unset

\* The endpoints in use are the ready pods.
LEMMA UsableIsReady ==
  ASSUME CachesTyped, NEW slice \in Slices, NEW i \in DOMAIN slice.endpoints
  PROVE  Usable(slice.endpoints[i]) <=> slice.endpoints[i] \in ReadyPods(slice)
<1>. DEFINE e == slice.endpoints[i]
<1>1. slice.endpoints \in Seq(Endpoint)
  BY DEF Slice
<1>2. e \in Endpoint /\ e \in ToSet(slice.endpoints)
  BY <1>1, FinitePositions DEF ToSet
<1>. HIDE DEF e
<1>3. e.ready \in {TRUE, FALSE, None} /\ e.serving \in {TRUE, FALSE, None}
      /\ e.terminating \in {TRUE, FALSE, None}
  BY <1>2 DEF Endpoint
<1>4. None # TRUE /\ None # FALSE
  OBVIOUS
<1>5. e.kind \in {Unset, "Pod"} <=> e.kind # "Other"
  BY <1>2, UnsetIsNoKind DEF Endpoint
<1>6. Usable(e) <=> e \in ReadyPods(slice)
  BY <1>2, <1>3, <1>4, <1>5 DEF Usable, eligibleEndpoint, ReadyPods
<1>. QED BY <1>6 DEF e

\* A port with a name is served by the slice ports of that name.
LEMMA NamedOffers ==
  ASSUME CachesTyped, NEW s \in Service, NEW sp, sp.name # Unset, Complete(s, sp)
  PROVE  Offers(s, sp) = NamedBackends(s, sp)
<1>1. ASSUME NEW m \in Present, slices[m].service = s
      PROVE  /\ slices[m] \in Slices
             /\ matchingSlicePorts(sp, slices[m]) =
                   {k \in DOMAIN slices[m].ports :
                       slices[m].ports[k] \in NamedPorts(slices[m], sp)}
             /\ \A p \in NamedPorts(slices[m], sp) :
                   \E k \in matchingSlicePorts(sp, slices[m]) : slices[m].ports[k] = p
             /\ \A i \in DOMAIN slices[m].endpoints :
                   Usable(slices[m].endpoints[i])
                   <=> slices[m].endpoints[i] \in ReadyPods(slices[m])
             /\ \A e \in ReadyPods(slices[m]) :
                   \E i \in DOMAIN slices[m].endpoints : slices[m].endpoints[i] = e
  <2>. DEFINE named == {k \in DOMAIN slices[m].ports :
                          slices[m].ports[k] \in NamedPorts(slices[m], sp)}
  <2>1. slices[m] \in Slices
    BY DEF Present, CachesTyped
  <2>2. \A p \in NamedPorts(slices[m], sp) : \E k \in named : slices[m].ports[k] = p
    BY DEF NamedPorts, ToSet
  <2>3. named # {}
    BY <1>1, <2>2 DEF Complete
  <2>4. named = {k \in {j \in DOMAIN slices[m].ports :
                           /\ slices[m].ports[j].proto \in {None, "TCP"}
                           /\ slices[m].ports[j].port # None} :
                    slices[m].ports[k].name = sp.name}
    BY DEF NamedPorts, ToSet
  <2>5. matchingSlicePorts(sp, slices[m]) = named
    <3>. HIDE DEF named
    <3>. QED BY <2>3, <2>4 DEF matchingSlicePorts
  <2>6. \A e \in ReadyPods(slices[m]) :
           \E i \in DOMAIN slices[m].endpoints : slices[m].endpoints[i] = e
    BY DEF ReadyPods, ToSet
  <2>. QED BY <2>1, <2>2, <2>5, <2>6, UsableIsReady
<1>2. ASSUME NEW b \in Offers(s, sp) PROVE b \in NamedBackends(s, sp)
  <2>1. PICK m \in Present :
          /\ slices[m].service = s
          /\ \E i \in DOMAIN slices[m].endpoints, k \in matchingSlicePorts(sp, slices[m]) :
                /\ Usable(slices[m].endpoints[i])
                /\ b = Offer(slices[m].endpoints[i], slices[m].ports[k].port)
    BY DEF Offers
  <2>2. PICK i \in DOMAIN slices[m].endpoints, k \in matchingSlicePorts(sp, slices[m]) :
          /\ Usable(slices[m].endpoints[i])
          /\ b = Offer(slices[m].endpoints[i], slices[m].ports[k].port)
    BY <2>1
  <2>3. /\ slices[m].endpoints[i] \in ReadyPods(slices[m])
        /\ slices[m].ports[k] \in NamedPorts(slices[m], sp)
    BY <1>1, <2>1, <2>2
  <2>. DEFINE M == {n \in Present : slices[n].service = s}
              of(n) == {Offer(e, p.port) :
                          e \in ReadyPods(slices[n]), p \in NamedPorts(slices[n], sp)}
  <2>4. m \in M /\ b \in of(m)
    BY <2>1, <2>2, <2>3
  <2>5. NamedBackends(s, sp) = UNION {of(n) : n \in M}
    BY DEF NamedBackends, Offer
  <2>. HIDE DEF M, of
  <2>. QED BY <2>4, <2>5
<1>3. ASSUME NEW b \in NamedBackends(s, sp) PROVE b \in Offers(s, sp)
  <2>1. PICK m \in Present :
          /\ slices[m].service = s
          /\ \E e \in ReadyPods(slices[m]), p \in NamedPorts(slices[m], sp) :
                b = Offer(e, p.port)
    BY DEF NamedBackends, Offer
  <2>2. PICK e \in ReadyPods(slices[m]), p \in NamedPorts(slices[m], sp) :
            b = Offer(e, p.port)
    BY <2>1
  <2>3. PICK i \in DOMAIN slices[m].endpoints : slices[m].endpoints[i] = e
    BY <1>1, <2>1
  <2>4. PICK k \in matchingSlicePorts(sp, slices[m]) : slices[m].ports[k] = p
    BY <1>1, <2>1
  <2>5. Usable(slices[m].endpoints[i]) /\ slices[m] \in Slices
    BY <1>1, <2>1, <2>3
  <2>6. b \in Backend
    BY <2>2, <2>3, <2>4, <2>5, OfferTyped
  <2>. QED BY <2>1, <2>2, <2>3, <2>4, <2>5, <2>6 DEF Offers
<1>. QED BY <1>2, <1>3

\* There is a listing, and it has finitely many slices.
LEMMA SomeListing == \E listing : listing \in Listings
<1>1. Present \in SUBSET SliceName
  BY DEF Present
<1>2. ExistsBijection(1 .. Cardinality(Present), Present)
  BY <1>1, FS_Subset, FS_CardinalityType
<1>3. PICK f \in Bijection(1 .. Cardinality(Present), Present) : TRUE
  BY <1>2 DEF ExistsBijection
<1>4. f \in Listings
  BY <1>3 DEF Bijection, Injection, IsInjective, Listings
<1>. QED BY <1>4

---------------------------------------------------------------------------
(* The inductive invariant: what was published when the caches had last    *)
(* been looked at is what their services want.                             *)

WantedOf(s, sp) ==
    [service |-> s, nodePort |-> sp.nodePort, backends |-> Ranked(Offers(s, sp))]

Wanted ==
    {e \in UNION {{WantedOf(s, sp) : sp \in ServedPorts(s)} : s \in Service} :
        e.backends # <<>>}

Current == (~changed /\ AddressOnOneNode) => entries = Wanted

EndInv == CachesTyped /\ EndTypeOK /\ Current

LEMMA DesiredIsWanted ==
  ASSUME CachesTyped, AddressOnOneNode, NEW listing \in Listings
  PROVE  desiredEntries(listing) = Wanted
<1>1. ASSUME NEW s \in Service, NEW sp
      PROVE  EntryOf(listing, s, sp) = WantedOf(s, sp)
  <2>1. collectBackends(sp, buildSliceIndex(listing, s)) = Ranked(Offers(s, sp))
    BY Collected
  <2>. QED BY <2>1 DEF EntryOf, WantedOf
<1>2. \A e : e \in Wanted <=>
         \E s \in Service : \E sp \in ServedPorts(s) :
             e = WantedOf(s, sp) /\ e.backends # <<>>
  BY DEF Wanted
<1>3. \A e : e \in desiredEntries(listing) <=> e \in Wanted
  BY <1>1, <1>2, DesiredAre
<1>. QED BY <1>3

\* What is wanted depends on the caches only.
LEMMA WantedUnchanged ==
  ASSUME UNCHANGED cacheVars
  PROVE  Wanted' = Wanted /\ (AddressOnOneNode' <=> AddressOnOneNode)
<1>. USE DEF cacheVars
<1>1. Present' = Present
  BY DEF Present
<1>2. ASSUME NEW s \in Service, NEW sp
      PROVE  Offers(s, sp)' = Offers(s, sp)
  <2>1. \A b \in Backend : b \in Offers(s, sp)' <=> b \in Offers(s, sp)
    BY <1>1 DEF Offers, Usable, Offer
  <2>2. Offers(s, sp) \subseteq Backend /\ Offers(s, sp)' \subseteq Backend
    BY DEF Offers
  <2>. QED BY <2>1, <2>2
<1>3. ASSUME NEW s \in Service, NEW sp
      PROVE  WantedOf(s, sp)' = WantedOf(s, sp)
  BY <1>2 DEF WantedOf
<1>4. ASSUME NEW s \in Service
      PROVE  ServedPorts(s)' = ServedPorts(s)
  BY DEF ServedPorts, Served
<1>5. Wanted' = Wanted
  BY <1>3, <1>4 DEF Wanted
<1>6. AddressOnOneNode' <=> AddressOnOneNode
  BY <1>1 DEF AddressOnOneNode
<1>. QED BY <1>5, <1>6

LEMMA EndInitHolds == EndInit => EndInv
BY DEF EndInit, EndInv, CachesTyped, EndTypeOK, Current

LEMMA ReconcileKeeps ==
  ASSUME EndInv, NEW listing \in Listings, Reconcile(listing)
  PROVE  EndInv'
<1>. USE DEF EndInv
<1>1. CachesTyped'
  BY DEF Reconcile, cacheVars, CachesTyped
<1>2. entries' = desiredEntries(listing) /\ changed' = FALSE /\ changes' = changes
  BY DEF Reconcile
<1>3. EndTypeOK'
  <2>1. /\ \A e \in entries' :
               /\ e.service \in Service /\ e.nodePort \in Nat \ {0}
               /\ e.backends # <<>> /\ e.backends \in Seq(Backend)
               /\ \A i, j \in 1 .. Len(e.backends) :
                     i # j => \/ e.backends[i].address # e.backends[j].address
                              \/ e.backends[i].port # e.backends[j].port
        /\ \A e, f \in entries' :
               e.service = f.service /\ e.nodePort = f.nodePort => e = f
    BY <1>2, WellFormed
  <2>. QED BY <1>2, <2>1 DEF EndTypeOK
<1>4. Current'
  <2>1. Wanted' = Wanted /\ (AddressOnOneNode' <=> AddressOnOneNode)
    BY WantedUnchanged DEF Reconcile
  <2>2. AddressOnOneNode => entries' = Wanted
    BY <1>2, DesiredIsWanted
  <2>. QED BY <2>1, <2>2 DEF Current
<1>. QED BY <1>1, <1>3, <1>4

LEMMA ChangeKeeps ==
  ASSUME EndInv, Change, CachesTyped'
  PROVE  EndInv'
BY DEF EndInv, Change, EndTypeOK, Current

LEMMA EndStep == EndInv /\ [EndNext]_endVars => EndInv'
<1>. SUFFICES ASSUME EndInv, [EndNext]_endVars PROVE EndInv'
  OBVIOUS
<1>1. ASSUME NEW listing \in Listings, Reconcile(listing) PROVE EndInv'
  BY <1>1, ReconcileKeeps
<1>2. ASSUME NEW s \in Service, ServiceChange(s) PROVE EndInv'
  <2>1. CachesTyped'
    BY <1>2 DEF EndInv, CachesTyped, ServiceChange
  <2>. QED BY <1>2, <2>1, ChangeKeeps DEF ServiceChange
<1>3. ASSUME NEW n \in SliceName, SliceChange(n) PROVE EndInv'
  <2>1. CachesTyped'
    BY <1>3 DEF EndInv, CachesTyped, SliceChange
  <2>. QED BY <1>3, <2>1, ChangeKeeps DEF SliceChange
<1>4. ASSUME NEW n \in Node, NodeChange(n) PROVE EndInv'
  <2>1. CachesTyped'
    BY <1>4 DEF EndInv, CachesTyped, NodeChange
  <2>. QED BY <1>4, <2>1, ChangeKeeps DEF NodeChange
<1>5. CASE UNCHANGED endVars
  <2>1. UNCHANGED cacheVars /\ entries' = entries /\ changed' = changed
        /\ changes' = changes
    BY <1>5 DEF endVars
  <2>2. Wanted' = Wanted /\ (AddressOnOneNode' <=> AddressOnOneNode)
    BY <2>1, WantedUnchanged
  <2>3. CachesTyped' /\ EndTypeOK'
    BY <2>1 DEF EndInv, CachesTyped, EndTypeOK, cacheVars
  <2>. QED BY <2>1, <2>2, <2>3 DEF EndInv, Current
<1>. QED BY <1>1, <1>2, <1>3, <1>4, <1>5 DEF EndNext

LEMMA EndInvHolds == EndSpec => []EndInv
BY EndInitHolds, EndStep, PTL DEF EndSpec

---------------------------------------------------------------------------
(* The theorems.                                                           *)

\* collectBackends and desiredEntries: every entry is of a known service and a
\* set node port, with at least one backend and each address and port once;
\* no node port of a service has two entries.
THEOREM EndTypeCorrect == EndSpec => []EndTypeOK
<1>1. EndInv => EndTypeOK
  BY DEF EndInv
<1>. QED BY <1>1, EndInvHolds, PTL

\* collectBackends: whatever the order in which the lister returns the slices,
\* another reconcile of the same caches publishes the same entries.
THEOREM StableHolds == EndSpec => StableWhileUnchanged
<1>1. ASSUME EndInv, [EndNext]_endVars
      PROVE  [(~changed /\ ~changed' /\ AddressOnOneNode) => entries' = entries]_endVars
  <2>. SUFFICES ASSUME ~changed, ~changed', AddressOnOneNode
                PROVE  entries' = entries
    OBVIOUS
  <2>1. ASSUME NEW listing \in Listings, Reconcile(listing) PROVE entries' = entries
    <3>1. entries' = desiredEntries(listing) /\ desiredEntries(listing) = Wanted
      BY <1>1, <2>1, DesiredIsWanted DEF EndInv, Reconcile
    <3>2. entries = Wanted
      BY <1>1 DEF EndInv, Current
    <3>. QED BY <3>1, <3>2
  <2>2. CASE UNCHANGED endVars
    BY <2>2 DEF endVars
  <2>3. ~Change
    BY DEF Change
  <2>. QED BY <1>1, <2>1, <2>2, <2>3 DEF EndNext, ServiceChange, SliceChange, NodeChange
<1>. QED BY <1>1, EndInvHolds, PTL DEF EndSpec, StableWhileUnchanged

\* matchingSlicePorts and eligibleEndpoint: a named port is served by the ready
\* pods behind the slice ports of its name, all of them and no others.
THEOREM ServesItsOwnPortHolds == EndSpec => []ServesItsOwnPort
<1>1. ASSUME EndInv PROVE ServesItsOwnPort
  <2>. SUFFICES ASSUME ~changed, NEW s \in Service, NEW sp \in ServedPorts(s),
                       sp.name # Unset, Complete(s, sp), AddressOnOneNode
                PROVE  UNION {ToSet(e.backends) :
                                 e \in {f \in entries : /\ f.service = s
                                                        /\ f.nodePort = sp.nodePort}}
                       = NamedBackends(s, sp)
    BY DEF ServesItsOwnPort
  <2>. DEFINE b == Ranked(Offers(s, sp))
              own == {f \in entries : f.service = s /\ f.nodePort = sp.nodePort}
  <2>1. CachesTyped /\ entries = Wanted
    BY <1>1 DEF EndInv, Current
  <2>2. ToSet(b) = NamedBackends(s, sp)
    <3>1. PICK listing : listing \in Listings
      BY SomeListing
    <3>2. /\ collectBackends(sp, buildSliceIndex(listing, s)) = b
          /\ ToSet(collectBackends(sp, buildSliceIndex(listing, s))) = Offers(s, sp)
      BY <2>1, <3>1, Collected
    <3>3. Offers(s, sp) = NamedBackends(s, sp)
      BY <2>1, NamedOffers
    <3>. QED BY <3>2, <3>3
  <2>3. ASSUME NEW e \in own PROVE e.backends = b /\ b # <<>>
    <3>1. PICK t \in Service : \E q \in ServedPorts(t) :
              e = WantedOf(t, q) /\ e.backends # <<>>
      BY <2>1 DEF Wanted
    <3>2. PICK q \in ServedPorts(t) : e = WantedOf(t, q) /\ e.backends # <<>>
      BY <3>1
    <3>3. t = s /\ q.nodePort = sp.nodePort
      BY <3>2 DEF WantedOf
    <3>4. q = sp
      BY <2>1, <3>3, PortsDiffer
    <3>. QED BY <3>2, <3>3, <3>4 DEF WantedOf
  <2>4. b # <<>> => \E e \in own : e.backends = b
    <3>. DEFINE e == WantedOf(s, sp)
    <3>1. e.service = s /\ e.nodePort = sp.nodePort /\ e.backends = b
      BY DEF WantedOf
    <3>. HIDE DEF b, e
    <3>2. b # <<>> => e \in entries
      BY <2>1, <3>1 DEF Wanted, e
    <3>. QED BY <3>1, <3>2
  <2>5. ToSet(<<>>) = {}
    BY DEF ToSet
  <2>. HIDE DEF b, own
  <2>6. UNION {ToSet(e.backends) : e \in own} = ToSet(b)
    <3>1. CASE b = <<>>
      <4>1. own = {}
        BY <2>3, <3>1
      <4>. QED BY <2>5, <3>1, <4>1
    <3>2. CASE b # <<>>
      BY <2>3, <2>4, <3>2
    <3>. QED BY <3>1, <3>2
  <2>. QED BY <2>2, <2>6 DEF own
<1>. QED BY <1>1, EndInvHolds, PTL

=============================================================================
