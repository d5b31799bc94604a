--------------------------- MODULE PipelineProofs ---------------------------
(* What is proved of the benchmark holds where the overhead matrix runs it, *)
(* among the other scripts; and what the scripts keep true of the files     *)
(* they share, for any session, any artifacts and any number of kills.      *)
EXTENDS Pipeline, HttpBenchProofs, FiniteSetTheorems, SequenceTheorems, WellFoundedInduction

\* A behaviour of the scripts, seen through the variables of the benchmark, is
\* one of launches of the benchmark: no other script touches its threads.
THEOREM PipelineRunsBench == Spec => BenchSpec
<1>1. Init => BenchInit
  BY DEF Init
<1>2. [Next]_pipelineVars => [BenchNext]_benchVars
  <2> SUFFICES ASSUME [Next]_pipelineVars PROVE [BenchNext]_benchVars
    OBVIOUS
  <2>1. CASE UNCHANGED pipelineVars
    BY <2>1 DEF pipelineVars, benchVars
  <2>2. ASSUME NEW p, Start(p) PROVE UNCHANGED benchVars
    BY <2>2 DEF Start, benchVars
  <2>3. CASE RunMatrix
    BY <2>3 DEF RunMatrix, StartMatrix, benchVars
  <2>4. CASE EditSelection
    BY <2>4 DEF EditSelection, benchVars
  <2>5. CASE FileStep
    BY <2>5 DEF FileStep, benchVars
  <2>6. CASE BenchRuns
    BY <2>6 DEF BenchRuns, BenchNext
  <2>7. CASE MatrixStep
    <3>1. RemoveRaw \/ WriteBenchSummary \/ ExportMatrix => UNCHANGED benchVars
      BY DEF RemoveRaw, WriteBenchSummary, ExportMatrix, benchVars
    <3>2. StartBench \/ WriteCpuSummary \/ FailExperiment => StartThreads \/ StopThreads
      BY DEF StartBench, WriteCpuSummary, FailExperiment
    <3> QED BY <2>7, <3>1, <3>2 DEF MatrixStep, BenchNext
  <2> QED
    BY <2>1, <2>2, <2>3, <2>4, <2>5, <2>6, <2>7
    DEF Next, RunBuild, RunSplit, RunReport, RunTrain, RunPhase4Export, RunAblation,
        RunGeneralization, RunPhase6Export, RunPhase5Export
<1> QED BY <1>1, <1>2, PTL DEF Spec, BenchSpec

\* The rows of each benchmark of the matrix are of its measurement
\* (phase5_http_bench.py:92).
THEOREM MatrixRowsOfTheMeasurement == Spec => []LateRows
BY PipelineRunsBench, RowsOfTheMeasurement, PTL

---------------------------------------------------------------------------
(* Sequences of writes, and the set of their elements.                     *)

\* A sequence, whatever its elements are.
IsSeq(s) == s \in Seq(ToSet(s))

LEMMA Listed ==
  ASSUME NEW S, NEW s \in Seq(S)
  PROVE  IsSeq(s) /\ ToSet(s) \subseteq S /\ DOMAIN s = 1 .. Len(s) /\ Len(s) \in Nat
<1>1. s = [i \in 1 .. Len(s) |-> s[i]] /\ Len(s) \in Nat /\ DOMAIN s = 1 .. Len(s)
  OBVIOUS
<1>2. \A i \in 1 .. Len(s) : s[i] \in ToSet(s) /\ s[i] \in S
  BY <1>1 DEF ToSet
<1> QED BY <1>1, <1>2 DEF IsSeq, ToSet

LEMMA Joined2 ==
  ASSUME NEW s, NEW t, IsSeq(s), IsSeq(t)
  PROVE  /\ IsSeq(s \o t) /\ ToSet(s \o t) = ToSet(s) \cup ToSet(t)
         /\ Len(s \o t) = Len(s) + Len(t)
         /\ \A i \in 1 .. Len(s) + Len(t) :
               (s \o t)[i] = IF i <= Len(s) THEN s[i] ELSE t[i - Len(s)]
<1> DEFINE S == ToSet(s) \cup ToSet(t)
<1>1. s \in Seq(S) /\ t \in Seq(S)
  <2>1. s \in Seq(ToSet(s)) /\ t \in Seq(ToSet(t))
    BY DEF IsSeq
  <2> HIDE DEF S
  <2>2. ToSet(s) \subseteq S /\ ToSet(t) \subseteq S
    BY DEF S
  <2> QED BY <2>1, <2>2
<1>2. s \o t \in Seq(S)
  BY <1>1
<1>3. /\ Len(s \o t) = Len(s) + Len(t) /\ Len(s) \in Nat /\ Len(t) \in Nat
      /\ \A i \in 1 .. Len(s) + Len(t) :
            (s \o t)[i] = IF i <= Len(s) THEN s[i] ELSE t[i - Len(s)]
  BY <1>1
<1>4. IsSeq(s \o t) /\ ToSet(s \o t) \subseteq S
  BY <1>2, Listed
<1>5. \A i \in DOMAIN s : s[i] = (s \o t)[i] /\ i \in DOMAIN (s \o t)
  BY <1>1, <1>2, <1>3
<1>6. \A i \in DOMAIN t : t[i] = (s \o t)[i + Len(s)] /\ i + Len(s) \in DOMAIN (s \o t)
  BY <1>1, <1>2, <1>3
<1>7. S \subseteq ToSet(s \o t)
  BY <1>5, <1>6 DEF ToSet
<1> QED BY <1>3, <1>4, <1>7

LEMMA TailOf ==
  ASSUME NEW s, IsSeq(s), s # << >>
  PROVE  /\ IsSeq(Tail(s)) /\ ToSet(Tail(s)) \subseteq ToSet(s)
         /\ Head(s) \in ToSet(s) /\ Head(s) = s[1]
         /\ Len(s) \in Nat \ {0} /\ DOMAIN s = 1 .. Len(s)
         /\ Len(Tail(s)) = Len(s) - 1
         /\ \A i \in 1 .. Len(s) - 1 : Tail(s)[i] = s[i + 1]
<1>1. s \in Seq(ToSet(s))
  BY DEF IsSeq
<1>2. Tail(s) \in Seq(ToSet(s)) /\ Len(s) \in Nat \ {0} /\ DOMAIN s = 1 .. Len(s)
  BY <1>1
<1>3. Len(Tail(s)) = Len(s) - 1 /\ \A i \in 1 .. Len(s) - 1 : Tail(s)[i] = s[i + 1]
  BY <1>1
<1>4. Head(s) = s[1] /\ Head(s) \in ToSet(s)
  BY <1>1, <1>2 DEF ToSet
<1> QED BY <1>2, <1>3, <1>4, Listed

LEMMA Tuples ==
  /\ IsSeq(<< >>) /\ ToSet(<< >>) = {}
  /\ \A a : IsSeq(<<a>>) /\ ToSet(<<a>>) = {a}
  /\ \A a, b : IsSeq(<<a, b>>) /\ ToSet(<<a, b>>) = {a, b}
  /\ \A a, b, c : IsSeq(<<a, b, c>>) /\ ToSet(<<a, b, c>>) = {a, b, c}
  /\ \A a, b, c, d : IsSeq(<<a, b, c, d>>) /\ ToSet(<<a, b, c, d>>) = {a, b, c, d}
  /\ \A a, b, c, d, e : IsSeq(<<a, b, c, d, e>>) /\ ToSet(<<a, b, c, d, e>>) = {a, b, c, d, e}
  /\ \A a, b, c, d, e, f :
        IsSeq(<<a, b, c, d, e, f>>) /\ ToSet(<<a, b, c, d, e, f>>) = {a, b, c, d, e, f}
  /\ \A a, b, c, d, e, f, g :
        IsSeq(<<a, b, c, d, e, f, g>>) /\ ToSet(<<a, b, c, d, e, f, g>>) = {a, b, c, d, e, f, g}
<1>1. IsSeq(<< >>) /\ ToSet(<< >>) = {}
  BY DEF IsSeq, ToSet
<1>2. \A a : IsSeq(<<a>>) /\ ToSet(<<a>>) = {a}
  BY DEF IsSeq, ToSet
<1>3. \A a, b : IsSeq(<<a, b>>) /\ ToSet(<<a, b>>) = {a, b}
  BY DEF IsSeq, ToSet
<1>4. \A a, b, c : IsSeq(<<a, b, c>>) /\ ToSet(<<a, b, c>>) = {a, b, c}
  BY DEF IsSeq, ToSet
<1>5. \A a, b, c, d : IsSeq(<<a, b, c, d>>) /\ ToSet(<<a, b, c, d>>) = {a, b, c, d}
  BY DEF IsSeq, ToSet
<1>6. \A a, b, c, d, e : IsSeq(<<a, b, c, d, e>>) /\ ToSet(<<a, b, c, d, e>>) = {a, b, c, d, e}
  BY DEF IsSeq, ToSet
<1>7. \A a, b, c, d, e, f :
        IsSeq(<<a, b, c, d, e, f>>) /\ ToSet(<<a, b, c, d, e, f>>) = {a, b, c, d, e, f}
  BY DEF IsSeq, ToSet
<1>8. \A a, b, c, d, e, f, g :
        IsSeq(<<a, b, c, d, e, f, g>>) /\ ToSet(<<a, b, c, d, e, f, g>>) = {a, b, c, d, e, f, g}
  BY DEF IsSeq, ToSet
<1> QED BY <1>1, <1>2, <1>3, <1>4, <1>5, <1>6, <1>7, <1>8

\* Two short sequences in a row.
LEMMA ShortJoins ==
  \A a, b, c, d, e, f :
      /\ (<<a, b>> \o <<c>>) \o <<d, e, f>> = <<a, b, c, d, e, f>>
      /\ (<<a>> \o <<b>>) \o <<c, d, e>> = <<a, b, c, d, e>>
      /\ Append(<<a, b>>, c) = <<a, b, c>>
<1> TAKE a, b, c, d, e, f
<1>1. <<a, b>> \o <<c>> = <<a, b, c>>
  <2> DEFINE s == <<a, b>>
             t == <<c>>
             u == s \o t
  <2>1. IsSeq(s) /\ IsSeq(t) /\ Len(s) = 2 /\ Len(t) = 1
    BY Tuples
  <2>2. /\ u \in Seq(ToSet(u)) /\ Len(u) = 3
        /\ \A i \in 1 .. 3 : u[i] = IF i <= 2 THEN s[i] ELSE t[i - 2]
    <3> HIDE DEF s, t
    <3>1. /\ IsSeq(s \o t) /\ Len(s \o t) = Len(s) + Len(t)
          /\ \A i \in 1 .. Len(s) + Len(t) :
                (s \o t)[i] = IF i <= Len(s) THEN s[i] ELSE t[i - Len(s)]
      BY <2>1, Joined2
    <3> QED BY <2>1, <3>1 DEF IsSeq
  <2>3. u[1] = a /\ u[2] = b /\ u[3] = c
    <3> HIDE DEF u
    <3> QED BY <2>2
  <2> HIDE DEF s, t, u
  <2>4. u = <<a, b, c>>
    BY <2>2, <2>3
  <2> QED BY <2>4 DEF u, s, t
<1>2. <<a>> \o <<b>> = <<a, b>>
  <2> DEFINE s == <<a>>
             t == <<b>>
             u == s \o t
  <2>1. IsSeq(s) /\ IsSeq(t) /\ Len(s) = 1 /\ Len(t) = 1
    BY Tuples
  <2>2. /\ u \in Seq(ToSet(u)) /\ Len(u) = 2
        /\ \A i \in 1 .. 2 : u[i] = IF i <= 1 THEN s[i] ELSE t[i - 1]
    <3> HIDE DEF s, t
    <3>1. /\ IsSeq(s \o t) /\ Len(s \o t) = Len(s) + Len(t)
          /\ \A i \in 1 .. Len(s) + Len(t) :
                (s \o t)[i] = IF i <= Len(s) THEN s[i] ELSE t[i - Len(s)]
      BY <2>1, Joined2
    <3> QED BY <2>1, <3>1 DEF IsSeq
  <2>3. u[1] = a /\ u[2] = b
    <3> HIDE DEF u
    <3> QED BY <2>2
  <2> HIDE DEF s, t, u
  <2>4. u = <<a, b>>
    BY <2>2, <2>3
  <2> QED BY <2>4 DEF u, s, t
<1>3. <<a, b, c>> \o <<d, e, f>> = <<a, b, c, d, e, f>>
  <2> DEFINE s == <<a, b, c>>
             t == <<d, e, f>>
             u == s \o t
  <2>1. IsSeq(s) /\ IsSeq(t) /\ Len(s) = 3 /\ Len(t) = 3
    BY Tuples
  <2>2. /\ u \in Seq(ToSet(u)) /\ Len(u) = 6
        /\ \A i \in 1 .. 6 : u[i] = IF i <= 3 THEN s[i] ELSE t[i - 3]
    <3> HIDE DEF s, t
    <3>1. /\ IsSeq(s \o t) /\ Len(s \o t) = Len(s) + Len(t)
          /\ \A i \in 1 .. Len(s) + Len(t) :
                (s \o t)[i] = IF i <= Len(s) THEN s[i] ELSE t[i - Len(s)]
      BY <2>1, Joined2
    <3> QED BY <2>1, <3>1 DEF IsSeq
  <2>3. u[1] = a /\ u[2] = b /\ u[3] = c /\ u[4] = d /\ u[5] = e /\ u[6] = f
    <3> HIDE DEF u
    <3> QED BY <2>2
  <2> HIDE DEF s, t, u
  <2>4. u = <<a, b, c, d, e, f>>
    BY <2>2, <2>3
  <2> QED BY <2>4 DEF u, s, t
<1>4. <<a, b>> \o <<c, d, e>> = <<a, b, c, d, e>>
  <2> DEFINE s == <<a, b>>
             t == <<c, d, e>>
             u == s \o t
  <2>1. IsSeq(s) /\ IsSeq(t) /\ Len(s) = 2 /\ Len(t) = 3
    BY Tuples
  <2>2. /\ u \in Seq(ToSet(u)) /\ Len(u) = 5
        /\ \A i \in 1 .. 5 : u[i] = IF i <= 2 THEN s[i] ELSE t[i - 2]
    <3> HIDE DEF s, t
    <3>1. /\ IsSeq(s \o t) /\ Len(s \o t) = Len(s) + Len(t)
          /\ \A i \in 1 .. Len(s) + Len(t) :
                (s \o t)[i] = IF i <= Len(s) THEN s[i] ELSE t[i - Len(s)]
      BY <2>1, Joined2
    <3> QED BY <2>1, <3>1 DEF IsSeq
  <2>3. u[1] = a /\ u[2] = b /\ u[3] = c /\ u[4] = d /\ u[5] = e
    <3> HIDE DEF u
    <3> QED BY <2>2
  <2> HIDE DEF s, t, u
  <2>4. u = <<a, b, c, d, e>>
    BY <2>2, <2>3
  <2> QED BY <2>4 DEF u, s, t
<1>5. Append(<<a, b>>, c) = <<a, b, c>>
  <2> DEFINE s == <<a, b>>
             u == Append(s, c)
  <2>1. s \in Seq({a, b, c}) /\ Len(s) = 2 /\ s[1] = a /\ s[2] = b
    OBVIOUS
  <2> HIDE DEF s
  <2>2. /\ u \in Seq({a, b, c}) /\ Len(u) = Len(s) + 1
        /\ \A i \in 1 .. Len(s) : u[i] = s[i]
        /\ u[Len(s) + 1] = c
    <3> DEFINE S == {a, b, c}
    <3>1. s \in Seq(S) /\ c \in S
      BY <2>1
    <3> HIDE DEF S
    <3>2. /\ Append(s, c) \in Seq(S) /\ Len(Append(s, c)) = Len(s) + 1
          /\ \A i \in 1 .. Len(s) : Append(s, c)[i] = s[i]
          /\ Append(s, c)[Len(s) + 1] = c
      BY <3>1, AppendProperties
    <3> QED BY <3>2 DEF S
  <2> HIDE DEF u
  <2>3. u = <<a, b, c>>
    BY <2>1, <2>2
  <2> QED BY <2>3 DEF u, s
<1> QED BY <1>1, <1>2, <1>3, <1>4, <1>5

LEMMA FiveJoined ==
  \A a, b, c, d, e : (<<a>> \o <<b, c, d>>) \o <<e>> = <<a, b, c, d, e>>
<1> SUFFICES ASSUME NEW a, NEW b, NEW c, NEW d, NEW e
             PROVE  (<<a>> \o <<b, c, d>>) \o <<e>> = <<a, b, c, d, e>>
  OBVIOUS
<1> DEFINE s == <<a>>
           t == <<b, c, d>>
           u == s \o t
           v == <<e>>
           w == u \o v
<1>1. /\ IsSeq(s) /\ Len(s) = 1 /\ s[1] = a
      /\ IsSeq(t) /\ Len(t) = 3 /\ t[1] = b /\ t[2] = c /\ t[3] = d
      /\ IsSeq(v) /\ Len(v) = 1 /\ v[1] = e
  BY Tuples
<1> HIDE DEF s, t, v
<1>2. /\ IsSeq(u) /\ Len(u) = Len(s) + Len(t)
      /\ \A i \in 1 .. Len(s) + Len(t) : u[i] = IF i <= Len(s) THEN s[i] ELSE t[i - Len(s)]
  BY <1>1, Joined2
<1> HIDE DEF u
<1>3. Len(u) = 4 /\ u[1] = a /\ u[2] = b /\ u[3] = c /\ u[4] = d
  BY <1>1, <1>2
<1>4. /\ IsSeq(w) /\ Len(w) = Len(u) + Len(v)
      /\ \A i \in 1 .. Len(u) + Len(v) : w[i] = IF i <= Len(u) THEN u[i] ELSE v[i - Len(u)]
  BY <1>1, <1>2, Joined2
<1> HIDE DEF w
<1>5. Len(w) = 5 /\ w[1] = a /\ w[2] = b /\ w[3] = c /\ w[4] = d /\ w[5] = e
  BY <1>1, <1>3, <1>4
<1>6. w \in Seq(ToSet(w))
  BY <1>4 DEF IsSeq
<1>7. w = <<a, b, c, d, e>>
  BY <1>5, <1>6
<1> QED BY <1>7 DEF w, u, s, t, v

\* A set of numbers that is not empty has a least one.
LEMMA LeastNumber ==
  ASSUME NEW S \in SUBSET Nat, S # {}
  PROVE  \E n \in S : \A m \in S : n <= m
<1>1. PICK n \in S : \A m \in S : <<m, n>> \notin OpToRel(<, Nat)
  BY NatLessThanWellFounded, WFMin
<1>2. \A m \in S : ~(m < n)
  BY <1>1 DEF OpToRel
<1> QED BY <1>2

\* Of finitely many numbers in a row, one is the first of the largest.
LEMMA FirstLargest ==
  ASSUME NEW n \in Nat \ {0}, NEW v \in [1 .. n -> Nat]
  PROVE  \E i \in 1 .. n : \A j \in 1 .. n : v[j] <= v[i] /\ (j < i => v[j] < v[i])
<1> DEFINE First(k, i) == \A j \in 1 .. k : v[j] <= v[i] /\ (j < i => v[j] < v[i])
           Fails == {k \in 1 .. n : ~\E i \in 1 .. k : First(k, i)}
<1>1. SUFFICES ASSUME Fails # {} PROVE FALSE
  <2>1. n \in 1 .. n
    OBVIOUS
  <2> QED BY <2>1
<1>2. PICK k \in Fails : \A m \in Fails : k <= m
  <2>1. Fails \in SUBSET Nat
    OBVIOUS
  <2> HIDE DEF Fails
  <2> QED BY <1>1, <2>1, LeastNumber
<1>3. k # 1
  BY <1>2
<1>4. k - 1 \in 1 .. n /\ k - 1 \notin Fails
  <2>1. k \in 1 .. n
    BY <1>2
  <2> HIDE DEF Fails
  <2> QED BY <1>2, <1>3, <2>1
<1>5. PICK i \in 1 .. k - 1 : First(k - 1, i)
  BY <1>4
<1>6. v[i] \in Nat /\ v[k] \in Nat /\ \A j \in 1 .. k : v[j] \in Nat
  BY <1>2
<1>7. First(k, i) \/ First(k, k)
  BY <1>2, <1>5, <1>6
<1> QED BY <1>2, <1>5, <1>7

HIDE BenchAssumption

\* The elements of K that R puts before p.
Below(K, R, p) == {q \in K : <<q, p>> \in R}

\* In a finite set with a total order, each number of predecessors from 0 on
\* belongs to exactly one element.
LEMMA Rank ==
  ASSUME NEW K, IsFiniteSet(K), NEW R,
         \A p \in K : <<p, p>> \notin R,
         \A p, q \in K : p # q => <<p, q>> \in R \/ <<q, p>> \in R,
         \A p, q, r \in K : <<p, q>> \in R /\ <<q, r>> \in R => <<p, r>> \in R
  PROVE  /\ \A p, q \in K :
               Cardinality(Below(K, R, p)) = Cardinality(Below(K, R, q)) => p = q
         /\ \A n \in 1 .. Cardinality(K) :
               \E p \in K : Cardinality(Below(K, R, p)) = n - 1
<1> DEFINE rank(p) == Cardinality(Below(K, R, p))
            size == Cardinality(K)
<1>1. size \in Nat
  BY FS_CardinalityType
<1>2. ASSUME NEW p \in K
      PROVE  IsFiniteSet(Below(K, R, p)) /\ rank(p) \in 0 .. size - 1
  <2>1. Below(K, R, p) \in SUBSET K /\ Below(K, R, p) # K
    BY DEF Below
  <2>2. IsFiniteSet(Below(K, R, p)) /\ rank(p) <= size /\ rank(p) # size
    BY <2>1, FS_Subset
  <2>3. rank(p) \in Nat
    BY <2>2, FS_CardinalityType
  <2> HIDE DEF rank, size
  <2> QED BY <1>1, <2>2, <2>3
<1>3. ASSUME NEW p \in K, NEW q \in K, <<p, q>> \in R
      PROVE  rank(p) < rank(q)
  <2>1. p \notin Below(K, R, p) /\ Below(K, R, p) \cup {p} \in SUBSET Below(K, R, q)
    BY <1>3 DEF Below
  <2>2. Cardinality(Below(K, R, p) \cup {p}) = rank(p) + 1
    BY <1>2, <2>1, FS_AddElement
  <2>3. Cardinality(Below(K, R, p) \cup {p}) <= rank(q)
    BY <1>2, <2>1, FS_Subset
  <2>4. rank(p) \in Nat /\ rank(q) \in Nat
    BY <1>2, FS_CardinalityType
  <2> HIDE DEF rank
  <2> QED BY <2>2, <2>3, <2>4
<1>4. ASSUME NEW p \in K, NEW q \in K, rank(p) = rank(q) PROVE p = q
  <2>1. rank(p) \in Nat
    BY <1>2, FS_CardinalityType
  <2>2. SUFFICES ASSUME p # q PROVE FALSE
    OBVIOUS
  <2>3. rank(p) < rank(q) \/ rank(q) < rank(p)
    BY <1>3, <2>2
  <2> HIDE DEF rank
  <2> QED BY <1>4, <2>1, <2>3
<1>5. ASSUME NEW n \in 1 .. size PROVE \E p \in K : rank(p) = n - 1
  <2> DEFINE f == [p \in K |-> rank(p)]
              Ranks == 0 .. size - 1
  <2>1. f \in Injection(K, Ranks)
    <3>1. f \in [K -> Ranks]
      BY <1>2
    <3>2. \A p, q \in K : f[p] = f[q] => p = q
      BY <1>4
    <3> QED BY <3>1, <3>2 DEF Injection, IsInjective
  <2>2. IsFiniteSet(Ranks) /\ Cardinality(Ranks) = size
    <3> HIDE DEF size
    <3>1. 0 \in Int /\ size - 1 \in Int /\ (0 > size - 1 => size = 0)
      BY <1>1
    <3> QED BY <1>1, <3>1, FS_Interval
  <2>3. f \in Surjection(K, Ranks)
    BY <2>1, <2>2, FS_Injection
  <2>4. n - 1 \in Ranks
    <3> HIDE DEF size
    <3> QED BY <1>1
  <2> QED BY <2>3, <2>4 DEF Surjection
<1> QED BY <1>4, <1>5

---------------------------------------------------------------------------
(* What a file holds, and what a script that runs is about to write to it. *)

FileNames == PlainFiles \cup DOMAIN Collections

RawFiles == {"bench_summary", "cpu_summary"}

\* The files that each script may write.
WrittenBy ==
    [build |-> {"raw_index", "windows_all", "dataset_manifest"},
     split |-> {"windows_all", "windows_train", "windows_val", "windows_test", "splits"},
     report |-> {"dataset_summary", "quality_report", "dataset_manifest"},
     train |-> {"binary_metrics", "multiclass_metrics", "confusion", "binary_predictions",
                "multiclass_predictions", "feature_columns", "run_manifest", "baseline_summary",
                "binary_models", "multiclass_models", "candidate_metrics"},
     phase4_export |-> {"p4_source", "p4_binary_table", "p4_multiclass_table",
                        "p4_per_class_table", "p4_figures", "p4_readme"},
     ablation |-> {"ablation_binary_summary", "ablation_multiclass_summary",
                   "ablation_metrics", "ablation_manifest"},
     generalization |-> {"scenario_predictions", "normal_binary_summary",
                         "anomaly_binary_summary", "anomaly_multiclass_summary",
                         "generalization_metrics", "generalization_manifest"},
     phase6_export |-> {"p6_source", "p6_generalization_binary", "p6_generalization_multiclass",
                        "p6_ablation_binary", "p6_ablation_multiclass", "p6_readme"},
     phase5_export |-> {"p5_matrix", "p5_delta", "p5_figures", "p5_readme"}]

Places(task) == IF task = "binary" THEN 1 .. 6 ELSE 1 .. 5

\* The metrics of a training name the model that its scores make the best.
Chosen(task, c) ==
    /\ c.val \in [Places(task) -> Nat]
    /\ c.best = choose_best(Candidates(task), c.val)

ShownBest(task, c) == c.rows[FamilyOf(task, c.best)].val = c.bestVal

WindowRow == [exp : Nat, label : Nat, recovery : BOOLEAN, bad : BOOLEAN,
              split : Splits \cup {NoSplit}]

AllWindows == [build : Nat, split : Nat, whole : BOOLEAN, rows : Seq(WindowRow)]
PartWindows == [split : Nat, whole : BOOLEAN, rows : Seq(WindowRow)]

Sound(f, c) ==
    \/ f \notin PlainFiles
    \/ c \in {Absent, Unreadable}
    \/ /\ f = "binary_metrics" => Chosen("binary", c)
       /\ f = "multiclass_metrics" => Chosen("multiclass", c)
       /\ f = "p4_binary_table" => ShownBest("binary", c)
       /\ f = "p4_multiclass_table" => ShownBest("multiclass", c)
       /\ f = "p5_matrix" => \A s \in Scenario : c.rows[s].bench = c.rows[s].cpu
       /\ f = "generalization_manifest" => c.binary = c.multiclass
       /\ f = "raw_index" => c = [build |-> c.build, rows |-> c.rows]
       /\ f = "windows_all" => c \in AllWindows
       /\ f \in {"windows_train", "windows_val", "windows_test"} => c \in PartWindows

SoundFiles(files) ==
    /\ files = [f \in FileNames |-> files[f]]
    /\ \A f \in FileNames : Sound(f, files[f])

SoundWrites(p, writes) ==
    \A w \in writes : w.file \in WrittenBy[p] /\ Sound(w.file, w.content)

\* A scenario whose two raw files can be read was measured by one run.
RawPaired(files) ==
    /\ files["bench_summary"] \in [Scenario -> Nat]
    /\ files["cpu_summary"] \in [Scenario -> Nat]
    /\ \A s \in Scenario :
          \/ files["bench_summary"][s] = files["cpu_summary"][s]
          \/ files["bench_summary"][s] = 0
          \/ files["cpu_summary"][s] = 0

\* The models that are stored or about to be: one training, one model.
ModelsKnown(files, writes) ==
    files["binary_models"] \cup files["multiclass_models"]
    \cup UNION {w.content : w \in {v \in writes : v.file \in ModelFiles}}

OneModel(models, n) ==
    /\ \A m \in models : m.run \in Nat /\ m.run <= n
    /\ \A m, k \in models : m.run = k.run => m = k

\* How far the matrix script is, and what its scenario has of its run.
MatrixPlace ==
    /\ matrix = [at |-> matrix.at, todo |-> matrix.todo]
    /\ matrix.at \in {"idle", "remove", "prepare", "bench", "cpu", "export"}
    /\ matrix.todo \in Seq(Scenario)
    /\ matrix # NoMatrix => job = Idle
    /\ matrix.at \in {"remove", "prepare", "bench", "cpu"} => matrix.todo # << >>
    /\ matrix.at \in {"prepare", "bench"} => fs["cpu_summary"][Head(matrix.todo)] = 0
    /\ matrix.at = "cpu" => fs["bench_summary"][Head(matrix.todo)] = launches

PlanTyped ==
    /\ plan = [runs |-> plan.runs, matrices |-> plan.matrices,
               selections |-> plan.selections, scores |-> plan.scores]
    /\ plan.matrices \in Seq(Seq(Scenario) \ {<< >>})
    /\ plan.scores \subseteq [binary : [1 .. 6 -> Nat], multiclass : [1 .. 5 -> Nat]]

Inputs(world, c) ==
    /\ DOMAIN world \subseteq Nat
    /\ \A e \in DOMAIN world : world[e] \in Artifact
    /\ c.included \in Seq(DOMAIN world)

InputsTyped ==
    /\ Inputs(artifacts, selection)
    /\ \A c \in plan.selections : Inputs(artifacts, c)

FilesInv ==
    /\ launches \in Nat
    /\ job = [prog |-> job.prog, left |-> job.left, ok |-> job.ok]
    /\ IsSeq(job.left)
    /\ job # Idle => job.left # << >>
    /\ job = Idle => job.left = << >>
    /\ job # Idle => job.prog \in Program
    /\ PlanTyped
    /\ InputsTyped
    /\ SoundFiles(fs)
    /\ SoundWrites(job.prog, ToSet(job.left))
    /\ RawPaired(fs)
    /\ OneModel(ModelsKnown(fs, ToSet(job.left)), launches)
    /\ MatrixPlace

---------------------------------------------------------------------------
(* The model that a training chooses, and the row that shows it.           *)

\* The candidates in the order of training.
LEMMA CandidatesInOrder ==
  /\ Candidates("binary") =
       <<Candidate(1, "DummyClassifier"), Candidate(6, "RuleBasedBinaryDetector"),
         Candidate(2, "LogisticRegression"), Candidate(5, "RandomForestClassifier"),
         Candidate(4, "RandomForestClassifier"), Candidate(3, "RandomForestClassifier")>>
  /\ Candidates("multiclass") =
       <<Candidate(1, "DummyClassifier"),
         Candidate(2, "LogisticRegression"), Candidate(5, "RandomForestClassifier"),
         Candidate(4, "RandomForestClassifier"), Candidate(3, "RandomForestClassifier")>>
<1> DEFINE dummy  == Candidate(1, "DummyClassifier")
           rule   == Candidate(6, "RuleBasedBinaryDetector")
           linear == Candidate(2, "LogisticRegression")
           free   == Candidate(5, "RandomForestClassifier")
           deep   == Candidate(4, "RandomForestClassifier")
           flat   == Candidate(3, "RandomForestClassifier")
<1>1. /\ (<<dummy, rule>> \o <<linear>>) \o <<free, deep, flat>>
         = <<dummy, rule, linear, free, deep, flat>>
      /\ (<<dummy>> \o <<linear>>) \o <<free, deep, flat>>
         = <<dummy, linear, free, deep, flat>>
  <2> HIDE DEF dummy, rule, linear, free, deep, flat
  <2>1. (<<dummy, rule>> \o <<linear>>) \o <<free, deep, flat>>
        = <<dummy, rule, linear, free, deep, flat>>
    BY ShortJoins
  <2>2. (<<dummy>> \o <<linear>>) \o <<free, deep, flat>>
        = <<dummy, linear, free, deep, flat>>
    BY ShortJoins
  <2> QED BY <2>1, <2>2
<1>2. /\ Candidates("binary") = (<<dummy, rule>> \o <<linear>>) \o <<free, deep, flat>>
      /\ Candidates("multiclass") = (<<dummy>> \o <<linear>>) \o <<free, deep, flat>>
  BY Zenon DEF Candidates, fit_binary_candidates, fit_multiclass_candidates, Linears, Forests
<1> HIDE DEF dummy, rule, linear, free, deep, flat
<1>3. /\ Candidates("binary") = <<dummy, rule, linear, free, deep, flat>>
      /\ Candidates("multiclass") = <<dummy, linear, free, deep, flat>>
  BY <1>1, <1>2, Zenon
<1> QED BY <1>3, Zenon DEF dummy, rule, linear, free, deep, flat

\* The chosen candidate has the largest score of all.
LEMMA BestOfAll ==
  ASSUME NEW task \in Task, NEW score \in [Places(task) -> Nat]
  PROVE  /\ choose_best(Candidates(task), score) \in Places(task)
         /\ \A n \in Places(task) : score[n] <= score[choose_best(Candidates(task), score)]
<1> DEFINE cs == Candidates(task)
           at(i) == score[cs[i].name]
           First(i) == \A j \in DOMAIN cs : at(j) <= at(i) /\ (j < i => at(j) < at(i))
           best == CHOOSE i \in DOMAIN cs : First(i)
<1>1. CASE task = "binary"
  <2>1. /\ DOMAIN cs = 1 .. 6
        /\ cs[1].name = 1 /\ cs[2].name = 6 /\ cs[3].name = 2
        /\ cs[4].name = 5 /\ cs[5].name = 4 /\ cs[6].name = 3
    BY <1>1, CandidatesInOrder DEF Candidate
  <2>2. \A n \in 1 .. 6 : score[n] \in Nat
    BY <1>1 DEF Places
  <2>3. \E i \in DOMAIN cs : First(i)
    <3> DEFINE v == [i \in 1 .. 6 |-> at(i)]
    <3>1. v \in [1 .. 6 -> Nat]
      <4>1. \A i \in 1 .. 6 : at(i) \in Nat
        <5> HIDE DEF cs
        <5>1. \A i \in 1 .. 6 : cs[i].name \in 1 .. 6
          BY <2>1
        <5> QED BY <2>2, <5>1
      <4> HIDE DEF at
      <4> QED BY <4>1
    <3>2. PICK i \in 1 .. 6 : \A j \in 1 .. 6 : v[j] <= v[i] /\ (j < i => v[j] < v[i])
      <4> HIDE DEF v
      <4> QED BY <3>1, FirstLargest
    <3>3. \A j \in 1 .. 6 : v[j] = at(j)
      OBVIOUS
    <3> HIDE DEF cs, v
    <3> QED BY <2>1, <3>2, <3>3
  <2>4. best \in DOMAIN cs /\ First(best)
    <3> HIDE DEF First
    <3> QED BY <2>3
  <2>5. choose_best(cs, score) = cs[best].name
    BY DEF choose_best
  <2>6. \A n \in 1 .. 6 : \E j \in DOMAIN cs : cs[j].name = n
    <3> HIDE DEF cs
    <3> QED BY <2>1
  <2>7. cs[best].name \in 1 .. 6
    <3> HIDE DEF cs, best
    <3> QED BY <2>1, <2>4
  <2> HIDE DEF cs, best
  <2> QED BY <1>1, <2>4, <2>5, <2>6, <2>7 DEF Places, cs
<1>2. CASE task = "multiclass"
  <2>1. /\ DOMAIN cs = 1 .. 5
        /\ cs[1].name = 1 /\ cs[2].name = 2
        /\ cs[3].name = 5 /\ cs[4].name = 4 /\ cs[5].name = 3
    BY <1>2, CandidatesInOrder DEF Candidate
  <2>2. \A n \in 1 .. 5 : score[n] \in Nat
    BY <1>2 DEF Places
  <2>3. \E i \in DOMAIN cs : First(i)
    <3> DEFINE v == [i \in 1 .. 5 |-> at(i)]
    <3>1. v \in [1 .. 5 -> Nat]
      <4> HIDE DEF cs
      <4> QED BY <2>1, <2>2
    <3>2. PICK i \in 1 .. 5 : \A j \in 1 .. 5 : v[j] <= v[i] /\ (j < i => v[j] < v[i])
      <4> HIDE DEF v
      <4> QED BY <3>1, FirstLargest
    <3>3. \A j \in 1 .. 5 : v[j] = at(j)
      OBVIOUS
    <3> HIDE DEF cs, v
    <3> QED BY <2>1, <3>2, <3>3
  <2>4. best \in DOMAIN cs /\ First(best)
    <3> HIDE DEF First
    <3> QED BY <2>3
  <2>5. choose_best(cs, score) = cs[best].name
    BY DEF choose_best
  <2>6. \A n \in 1 .. 5 : \E j \in DOMAIN cs : cs[j].name = n
    <3> HIDE DEF cs
    <3> QED BY <2>1
  <2>7. cs[best].name \in 1 .. 5
    <3> HIDE DEF cs, best
    <3> QED BY <2>1, <2>4
  <2> HIDE DEF cs, best
  <2> QED BY <1>2, <2>4, <2>5, <2>6, <2>7 DEF Places, cs
<1> QED BY <1>1, <1>2 DEF Task

\* The names of the candidates.
LEMMA NamedPlaces ==
  ASSUME NEW task \in Task
  PROVE  /\ \A c \in ToSet(Candidates(task)) : c.name \in Places(task)
         /\ \A n \in Places(task) : \E c \in ToSet(Candidates(task)) : c.name = n
<1> DEFINE cs == Candidates(task)
<1>1. CASE task = "binary"
  <2>1. /\ DOMAIN cs = 1 .. 6
        /\ cs[1].name = 1 /\ cs[2].name = 6 /\ cs[3].name = 2
        /\ cs[4].name = 5 /\ cs[5].name = 4 /\ cs[6].name = 3
    BY <1>1, CandidatesInOrder DEF Candidate
  <2> HIDE DEF cs
  <2>2. \A n \in 1 .. 6 : \E i \in DOMAIN cs : cs[i].name = n
    BY <2>1
  <2>3. \A i \in DOMAIN cs : cs[i].name \in 1 .. 6
    BY <2>1
  <2> QED BY <1>1, <2>2, <2>3 DEF Places, ToSet, cs
<1>2. CASE task = "multiclass"
  <2>1. /\ DOMAIN cs = 1 .. 5
        /\ cs[1].name = 1 /\ cs[2].name = 2
        /\ cs[3].name = 5 /\ cs[4].name = 4 /\ cs[5].name = 3
    BY <1>2, CandidatesInOrder DEF Candidate
  <2> HIDE DEF cs
  <2>2. \A n \in 1 .. 5 : \E i \in DOMAIN cs : cs[i].name = n
    BY <2>1
  <2>3. \A i \in DOMAIN cs : cs[i].name \in 1 .. 5
    BY <2>1
  <2> QED BY <1>2, <2>2, <2>3 DEF Places, ToSet, cs
<1> QED BY <1>1, <1>2 DEF Task

\* The row that an export picks for the family of the chosen model scores what
\* that model scores, whichever of the family it names.
LEMMA BestRowShown ==
  ASSUME NEW task \in Task, NEW payload, Chosen(task, payload)
  PROVE  FamilyRows(task, payload)[FamilyOf(task, payload.best)].val = payload.val[payload.best]
<1> DEFINE cs     == ToSet(Candidates(task))
           val    == payload.val
           best   == payload.best
           family == FamilyOf(task, best)
           names  == {c.name : c \in {d \in cs : d.family = family}}
           top    == {n \in names : val[n] = val[best]}
           First(n) == \A m \in names : val[m] <= val[n] /\ (m < n => val[m] < val[n])
<1>1. val \in [Places(task) -> Nat] /\ best = choose_best(Candidates(task), val)
  BY DEF Chosen
<1>2. best \in Places(task) /\ \A n \in Places(task) : val[n] <= val[best]
  <2> HIDE DEF val, best
  <2> QED BY <1>1, BestOfAll
<1>3. PICK c \in cs : c.name = best /\ c.family = family
  <2>1. \E c \in cs : c.name = best
    BY <1>2, NamedPlaces
  <2> QED BY <2>1 DEF FamilyOf
<1>4. family \in Families(task) /\ best \in names
  <2>1. best \in names
    <3> HIDE DEF cs, best, family
    <3> QED BY <1>3
  <2> HIDE DEF family, best
  <2> QED BY <1>3, <2>1 DEF Families
<1>5. names \in SUBSET Places(task) /\ Places(task) \in SUBSET Nat
  BY NamedPlaces DEF Places
<1> HIDE DEF cs, family, best, val, names
<1>6. PICK n \in top : \A m \in top : n <= m
  <2>1. top # {} /\ top \in SUBSET Nat
    BY <1>4, <1>5
  <2> HIDE DEF top
  <2> QED BY <2>1, LeastNumber
<1>7. n \in names /\ First(n)
  <2>1. \A m \in names : val[m] \in Nat /\ val[m] <= val[best] /\ m \in Nat
    BY <1>1, <1>2, <1>5
  <2>2. n \in names /\ val[n] = val[best]
    BY <1>6
  <2>3. ASSUME NEW m \in names, m < n PROVE val[m] # val[best]
    BY <1>6, <2>1, <2>2, <2>3
  <2> QED BY <2>1, <2>2, <2>3
<1>8. DEFINE pick == CHOOSE i \in names : First(i)
<1>9. pick \in names /\ First(pick)
  <2> HIDE DEF First
  <2> QED BY <1>7
<1>10. val[pick] = val[best]
  <2>1. val[best] <= val[pick]
    BY <1>4, <1>9
  <2>2. val[pick] \in Nat /\ val[best] \in Nat /\ val[pick] <= val[best]
    BY <1>1, <1>2, <1>5, <1>9
  <2> HIDE DEF pick
  <2> QED BY <2>1, <2>2
<1>11. pick_family_best(task, payload, family) = pick
  BY DEF pick_family_best, names, cs, val
<1> HIDE DEF pick
<1>12. FamilyRows(task, payload)[family].val = val[pick]
  BY <1>4, <1>11 DEF FamilyRows, val
<1> QED BY <1>10, <1>12 DEF family, best, val

---------------------------------------------------------------------------
(* What each script writes is sound, when what it reads is.                *)

\* A script writes no raw file of the matrix, and only a training a model.
LEMMA WrittenFiles ==
  /\ \A p \in Program : WrittenBy[p] \subseteq FileNames \ RawFiles
  /\ \A p \in Program \ {"train"} : WrittenBy[p] \cap ModelFiles = {}
  /\ RawFiles \subseteq FileNames /\ ModelFiles \subseteq FileNames
<1>1. Phase6Summaries \cup {"ablation_manifest", "generalization_metrics",
                            "generalization_manifest", "ablation_metrics"} \subseteq PlainFiles
  <2>1. {"ablation_manifest", "generalization_metrics",
         "generalization_manifest", "ablation_metrics"} \subseteq ToSet(Phase6Sources)
    BY DEF Phase6Sources, ToSet
  <2> QED BY <2>1 DEF PlainFiles
<1>2. WindowFiles \subseteq PlainFiles
  BY DEF PlainFiles
<1>3. DOMAIN Collections = {"binary_models", "multiclass_models", "p4_source", "p6_source",
                            "bench_summary", "cpu_summary"}
  BY DEF Collections
<1> DEFINE names == PlainFiles \cup {"binary_models", "multiclass_models", "p4_source", "p6_source"}
<1>4. names \subseteq FileNames \ RawFiles
  <2>1. \A f \in ToSet(Phase6Sources) : f \notin {"bench_summary", "cpu_summary"}
    BY DEF Phase6Sources, ToSet
  <2> QED BY <1>3, <2>1 DEF FileNames, RawFiles, PlainFiles, Phase6Summaries, WindowFiles
<1>5. \A p \in Program : WrittenBy[p] \subseteq names
  <2> SUFFICES ASSUME NEW p \in Program PROVE WrittenBy[p] \subseteq names
    OBVIOUS
  <2>1. CASE p = "build"
    BY <1>2, <2>1 DEF WrittenBy, WindowFiles, PlainFiles
  <2>2. CASE p = "split"
    BY <1>2, <2>2 DEF WrittenBy, WindowFiles, PlainFiles
  <2>3. CASE p = "report"
    BY <2>3 DEF WrittenBy, PlainFiles
  <2>4. CASE p = "train"
    BY <2>4 DEF WrittenBy, PlainFiles
  <2>5. CASE p = "phase4_export"
    BY <2>5 DEF WrittenBy, PlainFiles
  <2>6. CASE p = "ablation"
    BY <1>1, <2>6 DEF WrittenBy, Phase6Summaries, PlainFiles
  <2>7. CASE p = "generalization"
    BY <1>1, <2>7 DEF WrittenBy, Phase6Summaries, PlainFiles
  <2>8. CASE p = "phase6_export"
    BY <2>8 DEF WrittenBy, PlainFiles
  <2>9. CASE p = "phase5_export"
    BY <2>9 DEF WrittenBy, PlainFiles
  <2> QED BY <2>1, <2>2, <2>3, <2>4, <2>5, <2>6, <2>7, <2>8, <2>9 DEF Program
<1>6. \A p \in Program \ {"train"} : WrittenBy[p] \cap ModelFiles = {}
  BY DEF Program, WrittenBy, ModelFiles
<1>7. RawFiles \subseteq FileNames /\ ModelFiles \subseteq FileNames
  BY <1>3 DEF FileNames, RawFiles, ModelFiles
<1> QED BY <1>4, <1>5, <1>6, <1>7

\* Files of whose content something is claimed.
Checked == {"binary_metrics", "multiclass_metrics", "p4_binary_table", "p4_multiclass_table",
            "p5_matrix", "generalization_manifest", "raw_index", "windows_all",
            "windows_train", "windows_val", "windows_test"}

LEMMA CheckedFiles == Checked \subseteq PlainFiles
<1>1. "generalization_manifest" \in ToSet(Phase6Sources)
  BY DEF Phase6Sources, ToSet
<1> QED BY <1>1 DEF Checked, PlainFiles, WindowFiles

LEMMA ModelsAreNotPlain == ModelFiles \cap Checked = {}
BY DEF ModelFiles, Checked

\* Of any other file that a script writes nothing more is claimed.
Unchecked(p, f) == f \in WrittenBy[p] /\ f \notin ModelFiles /\ f \notin Checked

\* The writes of a script that stores no model.
SoundOutput(p, writes) == IsSeq(writes) /\ SoundWrites(p, ToSet(writes))

LEMMA UncheckedSound ==
  ASSUME NEW p, NEW writes, \A w \in writes : Unchecked(p, w.file)
  PROVE  SoundWrites(p, writes)
BY DEF Unchecked, SoundWrites, Sound, Checked

\* The elements and the places of a sequence.
LEMMA Element ==
  ASSUME NEW S, NEW s \in Seq(S)
  PROVE  /\ DOMAIN s = 1 .. Len(s) /\ Len(s) \in Nat /\ DOMAIN s \subseteq Nat
         /\ \A i \in DOMAIN s : s[i] \in S
OBVIOUS

\* Numbers have an order, so a finite set of them can be listed.
LEMMA NumbersListed ==
  ASSUME NEW S \in SUBSET Nat, IsFiniteSet(S)
  PROVE  /\ \A n \in 1 .. Cardinality(S) : \E i \in S : Cardinality({j \in S : j < i}) = n - 1
         /\ \A i, k \in S : Cardinality({j \in S : j < i}) = Cardinality({j \in S : j < k}) => i = k
         /\ \A i \in S : Cardinality({j \in S : j < i}) + 1 \in 1 .. Cardinality(S)
<1> DEFINE R == {r \in S \X S : r[1] < r[2]}
           K == S
<1>1. \A i, j \in K : <<i, j>> \in R <=> i < j
  OBVIOUS
<1>2. /\ \A i \in K : ~(i < i)
      /\ \A i, j \in K : i # j => i < j \/ j < i
      /\ \A i, j, k \in K : i < j /\ j < k => i < k
  OBVIOUS
<1>3. IsFiniteSet(K)
  OBVIOUS
<1> HIDE DEF R, K
<1>4. /\ \A i \in K : <<i, i>> \notin R
      /\ \A i, j \in K : i # j => <<i, j>> \in R \/ <<j, i>> \in R
      /\ \A i, j, k \in K : <<i, j>> \in R /\ <<j, k>> \in R => <<i, k>> \in R
  BY <1>1, <1>2
<1>5. /\ \A m \in 1 .. Cardinality(K) : \E i \in K : Cardinality(Below(K, R, i)) = m - 1
      /\ \A i, k \in K : Cardinality(Below(K, R, i)) = Cardinality(Below(K, R, k)) => i = k
  BY <1>3, <1>4, Rank
<1>6. \A i \in K : Below(K, R, i) = {j \in K : j < i}
  BY <1>1 DEF Below
<1>7. /\ \A n \in 1 .. Cardinality(K) : \E i \in K : Cardinality({j \in K : j < i}) = n - 1
      /\ \A i, k \in K : Cardinality({j \in K : j < i}) = Cardinality({j \in K : j < k}) => i = k
  BY <1>5, <1>6
<1>8. ASSUME NEW i \in K PROVE Cardinality({j \in K : j < i}) + 1 \in 1 .. Cardinality(K)
  <2> DEFINE B == {j \in K : j < i}
  <2>1. B \in SUBSET K /\ B # K
    BY <1>2
  <2> HIDE DEF B
  <2>2. IsFiniteSet(B) /\ Cardinality(B) <= Cardinality(K) /\ Cardinality(B) # Cardinality(K)
    BY <1>3, <2>1, FS_Subset
  <2>3. Cardinality(B) \in Nat /\ Cardinality(K) \in Nat
    BY <1>3, <2>2, FS_CardinalityType
  <2>4. Cardinality(B) + 1 \in 1 .. Cardinality(K)
    BY <2>2, <2>3
  <2> QED BY <2>4 DEF B
<1> QED BY <1>7, <1>8 DEF K

\* Places in the files of several experiments, in the order of the experiments.
LEMMA PlacesListed ==
  ASSUME NEW S \in SUBSET (Nat \X Nat), IsFiniteSet(S), NEW n \in 1 .. Cardinality(S)
  PROVE  \E p \in S :
            Cardinality({q \in S : q[1] < p[1] \/ (q[1] = p[1] /\ q[2] < p[2])}) = n - 1
<1> DEFINE Before(q, p) == q[1] < p[1] \/ (q[1] = p[1] /\ q[2] < p[2])
           R == {r \in S \X S : Before(r[1], r[2])}
<1>1. \A p, q \in S : <<p, q>> \in R <=> Before(p, q)
  OBVIOUS
<1>2. \A p \in S : p[1] \in Nat /\ p[2] \in Nat /\ p = <<p[1], p[2]>>
  OBVIOUS
<1>3. /\ \A p \in S : ~Before(p, p)
      /\ \A p, q \in S : p # q => Before(p, q) \/ Before(q, p)
      /\ \A p, q, r \in S : Before(p, q) /\ Before(q, r) => Before(p, r)
  <2>1. \A p \in S : ~Before(p, p)
    BY <1>2
  <2>2. ASSUME NEW p \in S, NEW q \in S, p # q PROVE Before(p, q) \/ Before(q, p)
    <3>1. p[1] # q[1] \/ p[2] # q[2]
      BY <1>2, <2>2
    <3> QED BY <1>2, <3>1
  <2>3. \A p, q, r \in S : Before(p, q) /\ Before(q, r) => Before(p, r)
    BY <1>2
  <2> QED BY <2>1, <2>2, <2>3
<1> HIDE DEF R
<1>4. /\ \A p \in S : <<p, p>> \notin R
      /\ \A p, q \in S : p # q => <<p, q>> \in R \/ <<q, p>> \in R
      /\ \A p, q, r \in S : <<p, q>> \in R /\ <<q, r>> \in R => <<p, r>> \in R
  <2> HIDE DEF Before
  <2> QED BY <1>1, <1>3
<1>5. PICK p \in S : Cardinality(Below(S, R, p)) = n - 1
  BY <1>4, Rank
<1>6. Below(S, R, p) = {q \in S : Before(q, p)}
  <2> HIDE DEF Before
  <2> QED BY <1>1 DEF Below
<1> QED BY <1>5, <1>6

LEMMA ArtifactRows ==
  ASSUME NEW a \in Artifact
  PROVE  /\ DOMAIN a.rows = 1 .. Len(a.rows) /\ Len(a.rows) \in Nat
         /\ DOMAIN a.rows \subseteq Nat
         /\ \A i \in DOMAIN a.rows :
               a.rows[i] \in [label : Nat, recovery : BOOLEAN, bad : BOOLEAN]
<1> DEFINE T == [label : Nat, recovery : BOOLEAN, bad : BOOLEAN]
<1>1. a.rows \in Seq(T)
  BY DEF Artifact
<1> HIDE DEF T
<1>2. /\ DOMAIN a.rows = 1 .. Len(a.rows) /\ Len(a.rows) \in Nat
      /\ DOMAIN a.rows \subseteq Nat
      /\ \A i \in DOMAIN a.rows : a.rows[i] \in T
  BY <1>1, Element
<1> QED BY <1>2 DEF T

\* The places of the windows of some experiments.
LEMMA PlacesFinite ==
  ASSUME NEW world, NEW exps, IsFiniteSet(exps), exps \subseteq Nat,
         \A e \in exps : world[e] \in Artifact
  PROVE  LET places == UNION {{e} \X (DOMAIN world[e].rows) : e \in exps}
         IN  IsFiniteSet(places) /\ places \in SUBSET (Nat \X Nat)
<1> DEFINE of == [e \in exps |-> {e} \X (DOMAIN world[e].rows)]
           places == UNION {{e} \X (DOMAIN world[e].rows) : e \in exps}
<1>1. \A e \in exps : /\ DOMAIN world[e].rows = 1 .. Len(world[e].rows)
                      /\ Len(world[e].rows) \in Nat /\ DOMAIN world[e].rows \subseteq Nat
  BY ArtifactRows
<1>2. \A e \in exps : IsFiniteSet(of[e])
  <2> TAKE e \in exps
  <2> DEFINE k == Len(world[e].rows)
             D == 1 .. k
             pair == [i \in D |-> <<e, i>>]
  <2>1. DOMAIN world[e].rows = D /\ k \in Nat
    BY <1>1
  <2> HIDE DEF k
  <2>2. IsFiniteSet(D)
    BY <2>1, FS_Interval
  <2> HIDE DEF D
  <2>3. pair \in Surjection(D, {e} \X D)
    <3>1. pair \in [D -> {e} \X D]
      OBVIOUS
    <3>2. \A t \in {e} \X D : \E i \in D : pair[i] = t
      OBVIOUS
    <3> QED BY <3>1, <3>2 DEF Surjection
  <2>4. IsFiniteSet({e} \X D)
    BY <2>2, <2>3, FS_Surjection
  <2> QED BY <2>1, <2>4
<1>3. IsFiniteSet(places)
  <2> DEFINE parts == {of[e] : e \in exps}
  <2>1. of \in Surjection(exps, parts)
    BY DEF Surjection
  <2>2. IsFiniteSet(parts)
    BY <2>1, FS_Surjection
  <2>3. \A part \in parts : IsFiniteSet(part)
    BY <1>2
  <2>4. IsFiniteSet(UNION parts)
    <3> HIDE DEF parts
    <3> QED BY <2>2, <2>3, FS_UNION
  <2>5. UNION parts = places
    OBVIOUS
  <2> QED BY <2>4, <2>5
<1>4. places \in SUBSET (Nat \X Nat)
  <2> SUFFICES ASSUME NEW e \in exps, NEW i \in DOMAIN world[e].rows
               PROVE  <<e, i>> \in Nat \X Nat
    OBVIOUS
  <2>1. DOMAIN world[e].rows \subseteq Nat
    BY <1>1
  <2> QED BY <2>1
<1> QED BY <1>3, <1>4

\* The rows of some experiments are a sequence of windows.
LEMMA WindowsRowsTyped ==
  ASSUME NEW world, NEW exps, IsFiniteSet(exps), exps \subseteq Nat,
         \A e \in exps : world[e] \in Artifact
  PROVE  windows_rows(world, exps) \in Seq(WindowRow)
<1> DEFINE places == UNION {{e} \X (DOMAIN world[e].rows) : e \in exps}
           preceding(p) == {q \in places : q[1] < p[1] \/ (q[1] = p[1] /\ q[2] < p[2])}
           nth == [n \in 1 .. Cardinality(places) |->
                      CHOOSE p \in places : Cardinality(preceding(p)) = n - 1]
           row(n) == DatasetRow(nth[n][1], world[nth[n][1]].rows[nth[n][2]])
<1>1. IsFiniteSet(places) /\ places \in SUBSET (Nat \X Nat)
  BY PlacesFinite
<1>2. Cardinality(places) \in Nat
  BY <1>1, FS_CardinalityType
<1>3. \A n \in 1 .. Cardinality(places) : nth[n] \in places
  <2> SUFFICES ASSUME NEW n \in 1 .. Cardinality(places)
               PROVE  \E p \in places : Cardinality(preceding(p)) = n - 1
    OBVIOUS
  <2> HIDE DEF places
  <2> QED BY <1>1, PlacesListed
<1>4. \A n \in 1 .. Cardinality(places) : row(n) \in WindowRow
  <2> TAKE n \in 1 .. Cardinality(places)
  <2>1. PICK e \in exps : nth[n] \in {e} \X (DOMAIN world[e].rows)
    <3>1. \A p \in places : \E e \in exps : p \in {e} \X (DOMAIN world[e].rows)
      OBVIOUS
    <3> HIDE DEF nth, places
    <3> QED BY <1>3, <3>1
  <2> DEFINE i == nth[n][2]
  <2>2. nth[n][1] = e /\ i \in DOMAIN world[e].rows
    <3> HIDE DEF nth
    <3> QED BY <2>1
  <2>3. world[e].rows[i] \in [label : Nat, recovery : BOOLEAN, bad : BOOLEAN] /\ e \in Nat
    <3> QED BY <2>2, ArtifactRows
  <2>4. row(n) = DatasetRow(e, world[e].rows[i])
    <3> HIDE DEF nth
    <3> QED BY <2>2
  <2> HIDE DEF row, i
  <2> QED BY <2>3, <2>4 DEF DatasetRow, WindowRow
<1>5. windows_rows(world, exps) = [n \in 1 .. Cardinality(places) |-> row(n)]
  <2>1. DOMAIN nth = 1 .. Cardinality(places)
    OBVIOUS
  <2>2. windows_rows(world, exps) = [n \in DOMAIN nth |-> row(n)]
    BY Zenon DEF windows_rows
  <2> HIDE DEF nth, row
  <2> QED BY <2>1, <2>2
<1> HIDE DEF places, row
<1> QED BY <1>2, <1>4, <1>5

LEMMA BuildSound ==
  ASSUME NEW stamp \in Nat, InputsTyped
  PROVE  SoundOutput("build", Build(artifacts, selection, stamp).writes)
<1> DEFINE W == Build(artifacts, selection, stamp).writes
           included == ToSet(selection.included)
           exps == {e \in included : IncludedStatus(artifacts, selection.excluded, e)}
           index == [build |-> stamp,
                     rows |-> raw_index_rows(artifacts, selection.excluded, included)]
           all == [build |-> stamp, split |-> 0, whole |-> TRUE, rows |-> windows_rows(artifacts, exps)]
           a == Put("raw_index", index)
           b == Put("windows_all", all)
<1>1. PICK m : W = << >> \/ W = <<a>> \/ W = <<a, b, Put("dataset_manifest", m)>>
  BY Zenon DEF Build
<1> DEFINE c == Put("dataset_manifest", m)
<1>2. IsSeq(W) /\ ToSet(W) \subseteq {a, b, c}
  <2>1. W = << >> \/ W = <<a>> \/ W = <<a, b, c>>
    BY <1>1
  <2> HIDE DEF W, a, b, c
  <2>2. /\ IsSeq(<< >>) /\ ToSet(<< >>) = {}
        /\ IsSeq(<<a>>) /\ ToSet(<<a>>) = {a}
        /\ IsSeq(<<a, b, c>>) /\ ToSet(<<a, b, c>>) = {a, b, c}
    BY Tuples
  <2> QED BY <2>1, <2>2
<1>3. windows_rows(artifacts, exps) \in Seq(WindowRow)
  <2>1. /\ selection.included \in Seq(DOMAIN artifacts) /\ DOMAIN artifacts \subseteq Nat
        /\ \A e \in DOMAIN artifacts : artifacts[e] \in Artifact
    BY DEF InputsTyped, Inputs
  <2>2. included \subseteq DOMAIN artifacts
    BY <2>1, Listed
  <2>3. IsFiniteSet(included)
    <3>1. DOMAIN selection.included = 1 .. Len(selection.included) /\ Len(selection.included) \in Nat
      BY <2>1
    <3>2. IsFiniteSet(DOMAIN selection.included)
      BY <3>1, FS_Interval
    <3>3. selection.included \in Surjection(DOMAIN selection.included, included)
      BY <2>1 DEF Surjection, ToSet
    <3> QED BY <3>2, <3>3, FS_Surjection
  <2>4. exps \subseteq included /\ IsFiniteSet(exps)
    BY <2>3, FS_Subset
  <2> HIDE DEF exps, included
  <2> QED BY <2>1, <2>2, <2>4, WindowsRowsTyped
<1>4. Sound("raw_index", index) /\ Sound("windows_all", all)
  <2> HIDE DEF exps, included
  <2>1. Sound("raw_index", index)
    BY DEF Sound
  <2>2. all \in AllWindows
    BY <1>3 DEF AllWindows
  <2>3. Sound("windows_all", all)
    BY <2>2 DEF Sound
  <2> QED BY <2>1, <2>3
<1> HIDE DEF index, all
<1>5. \A w \in {a, b, c} : w.file \in WrittenBy["build"] /\ Sound(w.file, w.content)
  BY <1>4 DEF Put, WrittenBy, Sound
<1> HIDE DEF W
<1>6. SoundOutput("build", W)
  <2> HIDE DEF a, b, c
  <2> QED BY <1>2, <1>5 DEF SoundOutput, SoundWrites
<1> QED BY <1>6 DEF W

LEMMA ReportSound ==
  ASSUME NEW files, NEW stamp
  PROVE  SoundOutput("report", Report(files, stamp).writes)
<1> DEFINE W == Report(files, stamp).writes
<1>1. PICK o, q, m : W \in {<< >>, <<Put("dataset_summary", o), Put("quality_report", q)>>,
                            Append(<<Put("dataset_summary", o), Put("quality_report", q)>>,
                                   Put("dataset_manifest", m))}
  BY DEF Report
<1> HIDE DEF W
<1>2. IsSeq(W) /\ ToSet(W) \subseteq {Put("dataset_summary", o), Put("quality_report", q),
                                      Put("dataset_manifest", m)}
  <2> DEFINE a == Put("dataset_summary", o)
             b == Put("quality_report", q)
             c == Put("dataset_manifest", m)
  <2>1. W = << >> \/ W = <<a, b>> \/ W = Append(<<a, b>>, c)
    BY <1>1
  <2> HIDE DEF a, b, c
  <2>2. Append(<<a, b>>, c) = <<a, b, c>>
    BY ShortJoins
  <2>3. /\ IsSeq(<< >>) /\ ToSet(<< >>) = {}
        /\ IsSeq(<<a, b>>) /\ ToSet(<<a, b>>) = {a, b}
        /\ IsSeq(<<a, b, c>>) /\ ToSet(<<a, b, c>>) = {a, b, c}
    BY Tuples
  <2>4. IsSeq(W) /\ ToSet(W) \subseteq {a, b, c}
    BY <2>1, <2>2, <2>3
  <2> QED BY <2>4 DEF a, b, c
<1>3. \A v \in ToSet(W) : Unchecked("report", v.file)
  BY <1>2 DEF Put, Unchecked, ModelFiles, Checked, WrittenBy
<1> QED BY <1>2, <1>3, UncheckedSound DEF SoundOutput, W

\* The rows of a split are the rows of its experiments, with the split's name.
LEMMA RowsOfSplitTyped ==
  ASSUME NEW rows \in Seq(WindowRow), NEW exps, NEW s \in Splits
  PROVE  /\ RowsOfSplit(rows, exps, s) \in Seq(WindowRow)
         /\ ToSet(RowsOfSplit(rows, exps, s))
               = {[rows[i] EXCEPT !.split = s] : i \in {j \in DOMAIN rows : rows[j].exp \in exps}}
<1> DEFINE places == {i \in DOMAIN rows : rows[i].exp \in exps}
           preceding(i) == {j \in places : j < i}
           nth(n) == CHOOSE i \in places : Cardinality(preceding(i)) = n - 1
           row(i) == [rows[i] EXCEPT !.split = s]
           size == Cardinality(places)
<1>1. RowsOfSplit(rows, exps, s) = [n \in 1 .. size |-> row(nth(n))]
  BY Zenon DEF RowsOfSplit
<1>2. DOMAIN rows = 1 .. Len(rows) /\ Len(rows) \in Nat /\ DOMAIN rows \subseteq Nat
      /\ \A i \in DOMAIN rows : rows[i] \in WindowRow
  BY Element
<1>3. places \in SUBSET Nat /\ IsFiniteSet(places) /\ places \subseteq DOMAIN rows
  <2>1. IsFiniteSet(DOMAIN rows)
    BY <1>2, FS_Interval
  <2>2. places \subseteq DOMAIN rows
    OBVIOUS
  <2> HIDE DEF places
  <2> QED BY <1>2, <2>1, <2>2, FS_Subset
<1>4. size \in Nat
  BY <1>3, FS_CardinalityType
<1> HIDE DEF places
<1>5. /\ \A n \in 1 .. size : \E i \in places : Cardinality(preceding(i)) = n - 1
      /\ \A i, k \in places : Cardinality(preceding(i)) = Cardinality(preceding(k)) => i = k
      /\ \A i \in places : Cardinality(preceding(i)) + 1 \in 1 .. size
      /\ \A i \in places : Cardinality(preceding(i)) \in Nat
  <2>1. /\ \A n \in 1 .. size : \E i \in places : Cardinality(preceding(i)) = n - 1
        /\ \A i, k \in places : Cardinality(preceding(i)) = Cardinality(preceding(k)) => i = k
        /\ \A i \in places : Cardinality(preceding(i)) + 1 \in 1 .. size
    BY <1>3, NumbersListed
  <2>2. ASSUME NEW i \in places PROVE Cardinality(preceding(i)) \in Nat
    <3>1. preceding(i) \in SUBSET places
      OBVIOUS
    <3> HIDE DEF preceding
    <3> QED BY <1>3, <3>1, FS_Subset, FS_CardinalityType
  <2> QED BY <2>1, <2>2
<1>6. \A n \in 1 .. size : nth(n) \in places /\ Cardinality(preceding(nth(n))) = n - 1
  <2> HIDE DEF preceding, size
  <2> QED BY <1>5
<1> HIDE DEF nth
<1>7. \A i \in places : \E n \in 1 .. size : nth(n) = i
  <2> TAKE i \in places
  <2> DEFINE k == Cardinality(preceding(i))
             n == k + 1
  <2>1. k \in Nat /\ n \in 1 .. size
    BY <1>5
  <2>2. n - 1 = k
    <3> HIDE DEF k
    <3> QED BY <2>1
  <2>3. nth(n) \in places /\ Cardinality(preceding(nth(n))) = k
    <3> HIDE DEF preceding, size, k
    <3>1. n \in 1 .. size /\ n - 1 = k
      BY <2>1, <2>2
    <3> HIDE DEF n
    <3> QED BY <1>6, <3>1
  <2>4. nth(n) = i
    <3> HIDE DEF preceding, n
    <3> QED BY <1>5, <2>3 DEF k
  <2> HIDE DEF n
  <2> QED BY <2>1, <2>4
<1>8. \A i \in places : row(i) \in WindowRow
  <2> TAKE i \in places
  <2> DEFINE r == rows[i]
  <2>1. r \in WindowRow
    BY <1>2, <1>3
  <2> HIDE DEF r
  <2>2. [r EXCEPT !.split = s] = [exp |-> r.exp, label |-> r.label, recovery |-> r.recovery,
                                  bad |-> r.bad, split |-> s]
    BY <2>1 DEF WindowRow
  <2>3. [r EXCEPT !.split = s] \in WindowRow
    BY <2>1, <2>2 DEF WindowRow
  <2> QED BY <2>3 DEF r
<1> HIDE DEF row, size, preceding
<1>9. [n \in 1 .. size |-> row(nth(n))] \in Seq(WindowRow)
  BY <1>4, <1>6, <1>8
<1>10. ToSet([n \in 1 .. size |-> row(nth(n))]) = {row(i) : i \in places}
  <2> DEFINE listed == [n \in 1 .. size |-> row(nth(n))]
  <2>1. ToSet(listed) = {row(nth(n)) : n \in 1 .. size}
    BY DEF ToSet
  <2> HIDE DEF listed
  <2>2. {row(nth(n)) : n \in 1 .. size} = {row(i) : i \in places}
    BY <1>6, <1>7
  <2> QED BY <2>1, <2>2 DEF listed
<1> QED BY <1>1, <1>9, <1>10 DEF row, places

\* What a split writes of the windows that it reads.
SplitExps(rows, s) == {e \in DOMAIN Assignments(rows) : Assignments(rows)[e] = s}

PartOf(rows, s) == RowsOfSplit(rows, SplitExps(rows, s), s)

UpdatedRows(rows) == PartOf(rows, "train") \o PartOf(rows, "val") \o PartOf(rows, "test")

PartFile(rows, s, stamp) ==
    Put(PartNames[s], [split |-> stamp, whole |-> TRUE, rows |-> PartOf(rows, s)])

SplitPlan(all, stamp) ==
    <<Put("windows_all", [all EXCEPT !.split = stamp, !.rows = UpdatedRows(all.rows)]),
      PartFile(all.rows, "train", stamp), PartFile(all.rows, "val", stamp),
      PartFile(all.rows, "test", stamp),
      Put("splits", [split |-> stamp, assignments |-> Assignments(all.rows)])>>

LEMMA SplitWrites ==
  ASSUME NEW files, NEW stamp
  PROVE  LET W == Split(files, stamp).writes
         IN  \/ W = << >>
             \/ Readable(files, "windows_all") /\ W = SplitPlan(files["windows_all"], stamp)
<1> DEFINE W == Split(files, stamp).writes
           all == files["windows_all"]
           parts == [s \in Splits |-> RowsOfSplit(all.rows, SplitExps(all.rows, s), s)]
           updated == parts["train"] \o parts["val"] \o parts["test"]
           a == Put("windows_all", [all EXCEPT !.split = stamp, !.rows = updated])
           e == Put("splits", [split |-> stamp, assignments |-> Assignments(all.rows)])
<1>1. \/ W = << >>
      \/ /\ Readable(files, "windows_all")
         /\ W = <<a>> \o PartWrites(parts, stamp) \o <<e>>
  BY Zenon DEF Split, SplitExps
<1>2. \A s \in Splits : parts[s] = PartOf(all.rows, s)
  BY DEF PartOf
<1>3. {"train", "val", "test"} = Splits
  BY DEF Splits
<1> HIDE DEF parts, W
<1>4. updated = UpdatedRows(all.rows)
  BY <1>2, <1>3 DEF UpdatedRows
<1> DEFINE b == PartFile(all.rows, "train", stamp)
           c == PartFile(all.rows, "val", stamp)
           d == PartFile(all.rows, "test", stamp)
<1>5. PartWrites(parts, stamp) = <<b, c, d>>
  BY <1>2, <1>3 DEF PartWrites, PartFile, PartNames
<1>6. (<<a>> \o <<b, c, d>>) \o <<e>> = <<a, b, c, d, e>>
  <2> HIDE DEF a, b, c, d, e
  <2> QED BY FiveJoined
<1>7. SplitPlan(all, stamp) = <<a, b, c, d, e>>
  BY <1>4 DEF SplitPlan
<1> HIDE DEF a, b, c, d, e
<1>8. W = << >> \/ (Readable(files, "windows_all") /\ W = SplitPlan(all, stamp))
  BY <1>1, <1>5, <1>6, <1>7
<1> QED BY <1>8 DEF W

LEMMA PlanOfSplit ==
  ASSUME NEW all \in AllWindows, NEW stamp \in Nat
  PROVE  /\ \A s \in Splits : PartOf(all.rows, s) \in Seq(WindowRow)
         /\ UpdatedRows(all.rows) \in Seq(WindowRow)
         /\ [all EXCEPT !.split = stamp, !.rows = UpdatedRows(all.rows)]
            = [build |-> all.build, split |-> stamp, whole |-> all.whole,
               rows |-> UpdatedRows(all.rows)]
<1>1. all.rows \in Seq(WindowRow)
  BY DEF AllWindows
<1>2. \A s \in Splits : PartOf(all.rows, s) \in Seq(WindowRow)
  BY <1>1, RowsOfSplitTyped DEF PartOf
<1>3. UpdatedRows(all.rows) \in Seq(WindowRow)
  <2>1. {"train", "val", "test"} \subseteq Splits
    BY DEF Splits
  <2> DEFINE u == PartOf(all.rows, "train")
             v == PartOf(all.rows, "val")
             w == PartOf(all.rows, "test")
  <2>2. u \in Seq(WindowRow) /\ v \in Seq(WindowRow) /\ w \in Seq(WindowRow)
    BY <1>2, <2>1
  <2> HIDE DEF u, v, w
  <2>3. (u \o v) \o w \in Seq(WindowRow)
    <3>1. u \o v \in Seq(WindowRow)
      BY <2>2, ConcatProperties
    <3> DEFINE x == u \o v
    <3> HIDE DEF x
    <3>2. x \o w \in Seq(WindowRow)
      BY <2>2, <3>1, ConcatProperties DEF x
    <3> QED BY <3>2 DEF x
  <2> QED BY <2>3 DEF u, v, w, UpdatedRows
<1>4. \A r : [all EXCEPT !.split = stamp, !.rows = r]
             = [build |-> all.build, split |-> stamp, whole |-> all.whole, rows |-> r]
  <2>1. all = [build |-> all.build, split |-> all.split, whole |-> all.whole, rows |-> all.rows]
    BY DEF AllWindows
  <2>2. DOMAIN all = {"build", "split", "whole", "rows"}
    BY <2>1
  <2> TAKE r
  <2>3. [all EXCEPT !.split = stamp, !.rows = r]
        = [x \in {"build", "split", "whole", "rows"} |->
              IF x = "rows" THEN r ELSE IF x = "split" THEN stamp ELSE all[x]]
    BY <2>2
  <2> QED BY <2>3
<1> QED BY <1>2, <1>3, <1>4, Zenon

LEMMA SplitSound ==
  ASSUME NEW files, NEW stamp \in Nat, SoundFiles(files)
  PROVE  SoundOutput("split", Split(files, stamp).writes)
<1> DEFINE W == Split(files, stamp).writes
           all == files["windows_all"]
           rows == all.rows
<1>1. \/ W = << >>
      \/ Readable(files, "windows_all") /\ W = SplitPlan(all, stamp)
  BY SplitWrites
<1> HIDE DEF W
<1>2. CASE W = << >>
  <2>1. IsSeq(<< >>) /\ ToSet(<< >>) = {}
    BY Tuples
  <2> QED BY <1>2, <2>1 DEF SoundOutput, SoundWrites, W
<1>3. CASE Readable(files, "windows_all") /\ W = SplitPlan(all, stamp)
  <2>1. all \in AllWindows
    BY <1>3, CheckedFiles DEF SoundFiles, Sound, Readable, Checked, FileNames
  <2>2. /\ \A s \in Splits : PartOf(rows, s) \in Seq(WindowRow)
        /\ UpdatedRows(rows) \in Seq(WindowRow)
        /\ [all EXCEPT !.split = stamp, !.rows = UpdatedRows(rows)]
           = [build |-> all.build, split |-> stamp, whole |-> all.whole, rows |-> UpdatedRows(rows)]
    BY <2>1, PlanOfSplit
  <2> DEFINE x == [all EXCEPT !.split = stamp, !.rows = UpdatedRows(rows)]
             y(s) == [split |-> stamp, whole |-> TRUE, rows |-> PartOf(rows, s)]
             z == [split |-> stamp, assignments |-> Assignments(rows)]
             a == Put("windows_all", x)
             b == Put("windows_train", y("train"))
             c == Put("windows_val", y("val"))
             d == Put("windows_test", y("test"))
             e == Put("splits", z)
  <2>3. W = <<a, b, c, d, e>>
    BY <1>3 DEF SplitPlan, PartFile, PartNames
  <2>4. x \in AllWindows
    BY <2>1, <2>2 DEF AllWindows
  <2>5. \A s \in {"train", "val", "test"} : y(s) \in PartWindows
    BY <2>2 DEF PartWindows, Splits
  <2> HIDE DEF x, y, z
  <2>6. \A w \in {a, b, c, d, e} : w.file \in WrittenBy["split"] /\ Sound(w.file, w.content)
    BY <2>4, <2>5 DEF Put, WrittenBy, Sound
  <2> HIDE DEF a, b, c, d, e
  <2>7. IsSeq(W) /\ ToSet(W) = {a, b, c, d, e}
    BY <2>3, Tuples
  <2>8. SoundOutput("split", W)
    BY <2>6, <2>7 DEF SoundOutput, SoundWrites
  <2> QED BY <2>8 DEF W
<1> QED BY <1>1, <1>2, <1>3

LEMMA AblationSound ==
  ASSUME NEW files, NEW stamp
  PROVE  SoundOutput("ablation", Ablation(files, stamp).writes)
<1> DEFINE W == Ablation(files, stamp).writes
<1>1. PICK r : W = << >> \/ W = AblationWrites(r)
  BY Zenon DEF Ablation
<1> DEFINE a == Put("ablation_binary_summary", r)
           b == Put("ablation_multiclass_summary", r)
           c == Put("ablation_metrics", r)
           d == Put("ablation_manifest", r)
<1>2. IsSeq(W) /\ ToSet(W) \subseteq {a, b, c, d}
  <2>1. AblationWrites(r) = <<a, b, c, d>>
    BY DEF AblationWrites
  <2> HIDE DEF W, a, b, c, d
  <2>2. /\ IsSeq(<< >>) /\ ToSet(<< >>) = {}
        /\ IsSeq(<<a, b, c, d>>) /\ ToSet(<<a, b, c, d>>) = {a, b, c, d}
    BY Tuples
  <2> QED BY <1>1, <2>1, <2>2
<1>3. \A v \in ToSet(W) : Unchecked("ablation", v.file)
  <2> HIDE DEF W
  <2> QED BY <1>2 DEF Put, Unchecked, ModelFiles, Checked, WrittenBy
<1> QED BY <1>2, <1>3, UncheckedSound DEF SoundOutput

\* A later launch, with a model of its own or without.
LEMMA OneModelLater ==
  ASSUME NEW models, NEW n \in Nat, OneModel(models, n)
  PROVE  OneModel(models, n + 1)
<1>1. \A r : r \in Nat /\ r <= n => r <= n + 1
  OBVIOUS
<1> QED BY <1>1 DEF OneModel

LEMMA AnotherModel ==
  ASSUME NEW models, NEW n \in Nat, OneModel(models, n), NEW m, m.run = n + 1
  PROVE  OneModel(models \cup {m}, n + 1)
<1>1. \A r : r \in Nat /\ r <= n => r <= n + 1 /\ r # n + 1
  OBVIOUS
<1>2. n + 1 \in Nat /\ n + 1 <= n + 1
  OBVIOUS
<1> QED BY <1>1, <1>2 DEF OneModel

\* Two models of one run that are both stored are the same.
LEMMA GeneralizationSound ==
  ASSUME NEW files, NEW stamp, NEW n, OneModel(ModelsKnown(files, {}), n)
  PROVE  SoundOutput("generalization", Generalization(files, stamp).writes)
<1> DEFINE W == Generalization(files, stamp).writes
           binary     == CHOOSE m \in ModelOf(files, "binary_models") : TRUE
           multiclass == CHOOSE m \in ModelOf(files, "multiclass_models") : TRUE
           r == [stamp |-> stamp, binary |-> binary, multiclass |-> multiclass]
           a == Put("scenario_predictions", r)
           b == Put("normal_binary_summary", r)
           c == Put("anomaly_binary_summary", r)
           d == Put("anomaly_multiclass_summary", r)
           e == Put("generalization_metrics", r)
           f == Put("generalization_manifest", r)
<1>1. CASE ModelOf(files, "binary_models") = {} \/ ModelOf(files, "multiclass_models") = {}
  <2>1. W = << >>
    BY <1>1 DEF Generalization
  <2> HIDE DEF W
  <2>2. IsSeq(W) /\ ToSet(W) = {}
    BY <2>1, Tuples
  <2>3. SoundOutput("generalization", W)
    BY <2>2 DEF SoundOutput, SoundWrites
  <2> QED BY <2>3 DEF W
<1>2. CASE ModelOf(files, "binary_models") # {} /\ ModelOf(files, "multiclass_models") # {}
  <2>1. W = <<a, b, c, d, e, f>>
    BY <1>2 DEF Generalization
  <2>2. IsSeq(W) /\ ToSet(W) = {a, b, c, d, e, f}
    <3> HIDE DEF W, a, b, c, d, e, f
    <3> QED BY <2>1, Tuples
  <2>3. binary = multiclass
    <3>1. binary \in ModelOf(files, "binary_models") /\ multiclass \in ModelOf(files, "multiclass_models")
      BY <1>2
    <3> HIDE DEF binary, multiclass
    <3> QED BY <3>1 DEF ModelOf, OneModel, ModelsKnown
  <2>4. Sound("generalization_manifest", r)
    <3> HIDE DEF binary, multiclass
    <3> QED BY <2>3 DEF Sound
  <2> HIDE DEF r
  <2>5. \A v \in {a, b, c, d, e, f} : /\ v.file \in WrittenBy["generalization"]
                                     /\ Sound(v.file, v.content)
    BY <2>4 DEF Put, Sound, WrittenBy
  <2> QED BY <2>2, <2>5 DEF SoundOutput, SoundWrites
<1> QED BY <1>1, <1>2

\* What holds of what a training is about to write holds of a training that
\* stops before it stores its models, too.
LEMMA TrainWrites ==
  ASSUME NEW files, NEW score, NEW stamp
  PROVE  LET W == Train(files, score, stamp).writes
             m == [run |-> stamp, columns |-> final_feature_columns(files["windows_train"].rows),
                   trained |-> ExperimentsOf(files["windows_train"].rows)]
         IN  /\ IsSeq(W)
             /\ \A w \in ToSet(W) :
                   \/ w = Put("binary_metrics", results_to_payload("binary", score, stamp))
                   \/ w = Put("multiclass_metrics", results_to_payload("multiclass", score, stamp))
                   \/ w = Put("binary_models", files["binary_models"] \cup {m})
                   \/ w = Put("multiclass_models", files["multiclass_models"] \cup {m})
                   \/ Unchecked("train", w.file)
<1> DEFINE W == Train(files, score, stamp).writes
           m == [run |-> stamp, columns |-> final_feature_columns(files["windows_train"].rows),
                 trained |-> ExperimentsOf(files["windows_train"].rows)]
           output == [stamp |-> stamp]
           a == Put("binary_metrics", results_to_payload("binary", score, stamp))
           b == Put("multiclass_metrics", results_to_payload("multiclass", score, stamp))
           c == Put("confusion", output)
           d == Put("binary_predictions", output)
           e == Put("multiclass_predictions", output)
           f == Put("feature_columns", output)
           h == Put("baseline_summary", output)
           i == Put("binary_models", files["binary_models"] \cup {m})
           j == Put("multiclass_models", files["multiclass_models"] \cup {m})
           k == Put("candidate_metrics", output)
<1>1. PICK r : W \in {<< >>, <<a, b, c, d>>,
                      <<a, b, c, d>> \o <<e, f, Put("run_manifest", r), h, i, j, k>>}
  BY Zenon DEF Train
<1> DEFINE g == Put("run_manifest", r)
           early == <<a, b, c, d>>
           late == <<e, f, g, h, i, j, k>>
<1>2. IsSeq(W) /\ ToSet(W) \subseteq {a, b, c, d, e, f, g, h, i, j, k}
  <2>1. W = << >> \/ W = early \/ W = early \o late
    BY <1>1
  <2>2. IsSeq(early) /\ ToSet(early) = {a, b, c, d}
    <3> HIDE DEF a, b, c, d
    <3> QED BY Tuples
  <2>3. IsSeq(late) /\ ToSet(late) = {e, f, g, h, i, j, k}
    <3> HIDE DEF e, f, g, h, i, j, k
    <3> QED BY Tuples
  <2>4. IsSeq(<< >>) /\ ToSet(<< >>) = {}
    BY Tuples
  <2> HIDE DEF early, late, W, a, b, c, d, e, f, g, h, i, j, k
  <2>5. IsSeq(early \o late) /\ ToSet(early \o late) = ToSet(early) \cup ToSet(late)
    BY <2>2, <2>3, Joined2
  <2> QED BY <2>1, <2>2, <2>3, <2>4, <2>5
<1>3. \A w \in {c, d, e, f, g, h, k} : Unchecked("train", w.file)
  BY DEF Put, Unchecked, ModelFiles, Checked, WrittenBy
<1> HIDE DEF W, c, d, e, f, g, h, k
<1>4. \A w \in ToSet(W) : w = a \/ w = b \/ w = i \/ w = j \/ Unchecked("train", w.file)
  <2> HIDE DEF a, b, i, j
  <2> QED BY <1>2, <1>3
<1> QED BY <1>2, <1>4 DEF W

LEMMA TrainSound ==
  ASSUME NEW files, NEW n \in Nat,
         NEW score \in [binary : [1 .. 6 -> Nat], multiclass : [1 .. 5 -> Nat]],
         OneModel(ModelsKnown(files, {}), n)
  PROVE  LET W == Train(files, score, n + 1).writes
         IN  /\ IsSeq(W)
             /\ SoundWrites("train", ToSet(W))
             /\ OneModel(ModelsKnown(files, ToSet(W)), n + 1)
<1> DEFINE W == Train(files, score, n + 1).writes
           m == [run |-> n + 1, columns |-> final_feature_columns(files["windows_train"].rows),
                 trained |-> ExperimentsOf(files["windows_train"].rows)]
           payload(task) == results_to_payload(task, score, n + 1)
<1>1. /\ IsSeq(W)
      /\ \A w \in ToSet(W) :
            \/ w = Put("binary_metrics", payload("binary"))
            \/ w = Put("multiclass_metrics", payload("multiclass"))
            \/ w = Put("binary_models", files["binary_models"] \cup {m})
            \/ w = Put("multiclass_models", files["multiclass_models"] \cup {m})
            \/ Unchecked("train", w.file)
  BY TrainWrites
<1>2. Chosen("binary", payload("binary")) /\ Chosen("multiclass", payload("multiclass"))
  <2>1. score["binary"] \in [1 .. 6 -> Nat] /\ score["multiclass"] \in [1 .. 5 -> Nat]
    OBVIOUS
  <2> QED BY <2>1 DEF Chosen, results_to_payload, Places
<1>3. m.run = n + 1
  OBVIOUS
<1> HIDE DEF W, m, payload
<1>4. SoundWrites("train", ToSet(W))
  <2> SUFFICES ASSUME NEW w \in ToSet(W)
               PROVE  w.file \in WrittenBy["train"] /\ Sound(w.file, w.content)
    BY DEF SoundWrites
  <2>1. CASE w = Put("binary_metrics", payload("binary"))
    BY <2>1, <1>2 DEF Put, Sound, WrittenBy
  <2>2. CASE w = Put("multiclass_metrics", payload("multiclass"))
    BY <2>2, <1>2 DEF Put, Sound, WrittenBy
  <2>3. CASE w = Put("binary_models", files["binary_models"] \cup {m})
             \/ w = Put("multiclass_models", files["multiclass_models"] \cup {m})
    BY <2>3, ModelsAreNotPlain DEF Put, Sound, WrittenBy, ModelFiles
  <2>4. CASE Unchecked("train", w.file)
    BY <2>4 DEF Unchecked, Sound, Checked
  <2> QED BY <1>1, <2>1, <2>2, <2>3, <2>4
<1>5. ModelsKnown(files, ToSet(W)) \subseteq ModelsKnown(files, {}) \cup {m}
  <2> SUFFICES ASSUME NEW w \in ToSet(W), w.file \in ModelFiles
               PROVE  w.content \subseteq ModelsKnown(files, {}) \cup {m}
    BY DEF ModelsKnown
  <2>1. w = Put("binary_models", files["binary_models"] \cup {m})
        \/ w = Put("multiclass_models", files["multiclass_models"] \cup {m})
    BY <1>1 DEF Put, Unchecked, ModelFiles
  <2> QED BY <2>1 DEF Put, ModelsKnown
<1>6. OneModel(ModelsKnown(files, {}) \cup {m}, n + 1)
  BY <1>3, AnotherModel
<1>7. OneModel(ModelsKnown(files, ToSet(W)), n + 1)
  BY <1>5, <1>6 DEF OneModel
<1> QED BY <1>1, <1>4, <1>7 DEF W

\* One copy after the other, until a source is missing.
LEMMA CopiesOf ==
  ASSUME NEW files, NEW S, NEW sources \in Seq(S), NEW target
  PROVE  LET W == CopySources(files, sources, target)
         IN  IsSeq(W) /\ \A w \in ToSet(W) : w.file = target
<1> DEFINE W == CopySources(files, sources, target)
           missing == {i \in DOMAIN sources : files[sources[i]] = Absent}
           copy(n) == Put(target, CopiedUpTo(files, sources, n, files[target]))
<1>1. FirstMissing(files, sources) \in Nat \ {0}
  <2>1. missing \in SUBSET (Nat \ {0}) /\ Len(sources) \in Nat
    OBVIOUS
  <2>2. CASE missing = {}
    BY <2>1, <2>2 DEF FirstMissing
  <2>3. CASE missing # {}
    <3> HIDE DEF missing
    <3>1. \E i \in missing : \A j \in missing : i <= j
      BY <2>1, <2>3, LeastNumber
    <3>2. (CHOOSE i \in missing : \A j \in missing : i <= j) \in missing
      BY <3>1
    <3>3. FirstMissing(files, sources) = CHOOSE i \in missing : \A j \in missing : i <= j
      BY <2>3 DEF FirstMissing, missing
    <3> QED BY <2>1, <3>2, <3>3
  <2> QED BY <2>2, <2>3
<1> DEFINE last == FirstMissing(files, sources) - 1
<1>2. W = [n \in 1 .. last |-> copy(n)]
  BY DEF CopySources
<1>3. last \in Nat
  BY <1>1
<1> DEFINE C == {copy(n) : n \in 1 .. last}
<1>4. W \in Seq(C)
  <2>1. \A n \in 1 .. last : copy(n) \in C
    OBVIOUS
  <2> HIDE DEF C, last, copy, W
  <2> QED BY <1>2, <1>3, <2>1
<1>5. IsSeq(W) /\ ToSet(W) \subseteq C
  <2> HIDE DEF W, C
  <2> QED BY <1>4, Listed
<1>6. \A w \in C : w.file = target
  BY DEF Put
<1> HIDE DEF W, C
<1> QED BY <1>5, <1>6 DEF W

LEMMA Phase4Sound ==
  ASSUME NEW files, NEW stamp, SoundFiles(files)
  PROVE  SoundOutput("phase4_export", Phase4Export(files, stamp).writes)
<1> DEFINE W == Phase4Export(files, stamp).writes
           copied == CopySources(files, Phase4Sources, "p4_source")
           binary == files["binary_metrics"]
           multiclass == files["multiclass_metrics"]
           table(task, payload) ==
             [stamp |-> stamp, run |-> payload.stamp, best |-> payload.best,
              bestVal |-> payload.val[payload.best], rows |-> FamilyRows(task, payload)]
           a == Put("p4_binary_table", table("binary", binary))
           b == Put("p4_multiclass_table", table("multiclass", multiclass))
<1>1. PICK pc, pf, pr :
        \/ W = << >>
        \/ /\ Readable(files, "binary_metrics") /\ Readable(files, "multiclass_metrics")
           /\ \/ W = copied
              \/ W = copied \o <<a, b, Put("p4_per_class_table", pc)>>
              \/ W = (copied \o <<a, b, Put("p4_per_class_table", pc)>>)
                     \o <<Put("p4_figures", pf), Put("p4_readme", pr)>>
  BY Zenon DEF Phase4Export
<1> DEFINE c == Put("p4_per_class_table", pc)
           d == Put("p4_figures", pf)
           e == Put("p4_readme", pr)
           tables == <<a, b, c>>
           rest == <<d, e>>
           whole == copied \o tables
<1>2. IsSeq(copied) /\ \A w \in ToSet(copied) : w.file = "p4_source"
  <2>1. Phase4Sources \in Seq({Phase4Sources[i] : i \in 1 .. 8})
    BY DEF Phase4Sources
  <2> QED BY <2>1, CopiesOf
<1>3. IsSeq(W) /\ ToSet(W) \subseteq ToSet(copied) \cup {a, b, c, d, e}
  <2>1. W = << >> \/ W = copied \/ W = whole \/ W = whole \o rest
    BY <1>1
  <2>2. IsSeq(tables) /\ ToSet(tables) = {a, b, c}
    <3> HIDE DEF a, b, c
    <3> QED BY Tuples
  <2>3. IsSeq(rest) /\ ToSet(rest) = {d, e}
    <3> HIDE DEF d, e
    <3> QED BY Tuples
  <2>4. IsSeq(<< >>) /\ ToSet(<< >>) = {}
    BY Tuples
  <2> HIDE DEF tables, rest, copied, W, a, b, c, d, e
  <2>5. IsSeq(whole) /\ ToSet(whole) = ToSet(copied) \cup ToSet(tables)
    BY <1>2, <2>2, Joined2
  <2> HIDE DEF whole
  <2>6. IsSeq(whole \o rest) /\ ToSet(whole \o rest) = ToSet(whole) \cup ToSet(rest)
    BY <2>3, <2>5, Joined2
  <2> QED BY <1>2, <2>1, <2>2, <2>3, <2>4, <2>5, <2>6
<1>4. \A w \in ToSet(copied) \cup {c, d, e} : Unchecked("phase4_export", w.file)
  <2> HIDE DEF copied
  <2> QED BY <1>2 DEF Put, Unchecked, ModelFiles, Checked, WrittenBy
<1>5. CASE W = << >>
  <2> HIDE DEF W
  <2>1. SoundOutput("phase4_export", W)
    BY <1>5, Tuples DEF SoundOutput, SoundWrites
  <2> QED BY <2>1 DEF W
<1>6. CASE W # << >>
  <2>1. Chosen("binary", binary) /\ Chosen("multiclass", multiclass)
    <3>1. Readable(files, "binary_metrics") /\ Readable(files, "multiclass_metrics")
      BY <1>1, <1>6
    <3>2. {"binary_metrics", "multiclass_metrics"} \subseteq FileNames
      BY CheckedFiles DEF Checked, FileNames
    <3> QED BY <3>1, <3>2, CheckedFiles DEF Checked, SoundFiles, Sound, Readable
  <2>2. \A task \in Task : \A payload : Chosen(task, payload) => ShownBest(task, table(task, payload))
    BY BestRowShown DEF ShownBest
  <2>3. ShownBest("binary", table("binary", binary)) /\ ShownBest("multiclass", table("multiclass", multiclass))
    <3> HIDE DEF table, binary, multiclass
    <3> QED BY <2>1, <2>2 DEF Task
  <2> HIDE DEF table, copied, W, binary, multiclass, c, d, e
  <2>4. \A w \in {a, b} : w.file \in WrittenBy["phase4_export"] /\ Sound(w.file, w.content)
    BY <2>3 DEF Put, Sound, WrittenBy
  <2>5. \A w \in ToSet(copied) \cup {c, d, e} :
            w.file \in WrittenBy["phase4_export"] /\ Sound(w.file, w.content)
    BY <1>4 DEF Unchecked, Sound, Checked
  <2>6. SoundOutput("phase4_export", W)
    <3> HIDE DEF a, b
    <3> QED BY <1>3, <2>4, <2>5 DEF SoundOutput, SoundWrites
  <2> QED BY <2>6 DEF W
<1> QED BY <1>5, <1>6

LEMMA Phase6Sound ==
  ASSUME NEW files, NEW stamp
  PROVE  SoundOutput("phase6_export", Phase6Export(files, stamp).writes)
<1> DEFINE W == Phase6Export(files, stamp).writes
           copied == CopySources(files, Phase6Sources, "p6_source")
<1>1. PICK gb, gm, ab, am, r :
        W \in {<< >>, copied,
               copied \o <<Put("p6_generalization_binary", gb), Put("p6_generalization_multiclass", gm),
                           Put("p6_ablation_binary", ab), Put("p6_ablation_multiclass", am),
                           Put("p6_readme", r)>>}
  BY Zenon DEF Phase6Export
<1> DEFINE a == Put("p6_generalization_binary", gb)
           b == Put("p6_generalization_multiclass", gm)
           c == Put("p6_ablation_binary", ab)
           d == Put("p6_ablation_multiclass", am)
           e == Put("p6_readme", r)
           tables == <<a, b, c, d, e>>
<1>2. IsSeq(copied) /\ \A w \in ToSet(copied) : w.file = "p6_source"
  <2>1. Phase6Sources \in Seq({Phase6Sources[i] : i \in 1 .. 9})
    BY DEF Phase6Sources
  <2> QED BY <2>1, CopiesOf
<1>3. IsSeq(W) /\ ToSet(W) \subseteq ToSet(copied) \cup {a, b, c, d, e}
  <2>1. W = << >> \/ W = copied \/ W = copied \o tables
    BY <1>1
  <2>2. IsSeq(tables) /\ ToSet(tables) = {a, b, c, d, e}
    <3> HIDE DEF a, b, c, d, e
    <3> QED BY Tuples
  <2>3. IsSeq(<< >>) /\ ToSet(<< >>) = {}
    BY Tuples
  <2> HIDE DEF tables, copied, W, a, b, c, d, e
  <2>4. IsSeq(copied \o tables) /\ ToSet(copied \o tables) = ToSet(copied) \cup ToSet(tables)
    BY <1>2, <2>2, Joined2
  <2> QED BY <1>2, <2>1, <2>2, <2>3, <2>4
<1> HIDE DEF copied, W
<1>4. \A w \in ToSet(copied) \cup {a, b, c, d, e} : Unchecked("phase6_export", w.file)
  BY <1>2 DEF Put, Unchecked, ModelFiles, Checked, WrittenBy
<1>5. \A w \in ToSet(W) : Unchecked("phase6_export", w.file)
  <2> HIDE DEF a, b, c, d, e
  <2> QED BY <1>3, <1>4
<1> QED BY <1>3, <1>5, UncheckedSound DEF SoundOutput, W

\* The matrix has a row of a scenario only when both of its files can be read.
LEMMA Phase5Sound ==
  ASSUME NEW files, NEW stamp, RawPaired(files)
  PROVE  SoundOutput("phase5_export", Phase5Export(files, stamp).writes)
<1> DEFINE W == Phase5Export(files, stamp).writes
           bench == files["bench_summary"]
           cpu   == files["cpu_summary"]
           m     == [stamp |-> stamp,
                     rows |-> [s \in DOMAIN bench |-> [bench |-> bench[s], cpu |-> cpu[s]]]]
           a == Put("p5_matrix", m)
           b == Put("p5_delta", m)
           c == Put("p5_figures", m)
           d == Put("p5_readme", [stamp |-> stamp])
<1>1. CASE \E s \in DOMAIN bench : bench[s] = 0 \/ cpu[s] = 0
  <2>1. W = << >>
    BY <1>1 DEF Phase5Export
  <2> HIDE DEF W
  <2>2. SoundOutput("phase5_export", W)
    BY <2>1, Tuples DEF SoundOutput, SoundWrites
  <2> QED BY <2>2 DEF W
<1>2. CASE \A s \in DOMAIN bench : bench[s] # 0 /\ cpu[s] # 0
  <2>1. W = <<a, b, c, d>>
    BY <1>2 DEF Phase5Export
  <2>2. IsSeq(W) /\ ToSet(W) = {a, b, c, d}
    <3> HIDE DEF W, a, b, c, d
    <3> QED BY <2>1, Tuples
  <2>3. \A s \in Scenario : m.rows[s].bench = m.rows[s].cpu
    <3>1. DOMAIN bench = Scenario /\ \A s \in Scenario : bench[s] = cpu[s]
      BY <1>2 DEF RawPaired
    <3> HIDE DEF bench, cpu
    <3> QED BY <3>1
  <2> HIDE DEF m
  <2>4. \A w \in {a, b, c, d} : w.file \in WrittenBy["phase5_export"] /\ Sound(w.file, w.content)
    BY <2>3 DEF Put, Sound, WrittenBy
  <2> QED BY <2>2, <2>4 DEF SoundOutput, SoundWrites
<1> QED BY <1>1, <1>2


---------------------------------------------------------------------------
(* What a launch publishes: its plan, as long as it has files to write.    *)

Manifests == {"dataset_manifest", "splits", "ablation_manifest", "generalization_manifest"}

\* The field of a manifest that names its launch, the files that it speaks of,
\* those of them that can be cut without being unreadable, and its script.
Field == [dataset_manifest |-> "build", splits |-> "split",
          ablation_manifest |-> "stamp", generalization_manifest |-> "stamp"]

FilesOf ==
    [dataset_manifest |-> {"raw_index", "windows_all"},
     splits |-> {"windows_all", "windows_train", "windows_val", "windows_test"},
     ablation_manifest |-> {"ablation_binary_summary", "ablation_multiclass_summary",
                            "ablation_metrics"},
     generalization_manifest |-> {"scenario_predictions", "normal_binary_summary",
                                  "anomaly_binary_summary", "anomaly_multiclass_summary",
                                  "generalization_metrics"}]

CutOf == [dataset_manifest |-> {"windows_all"},
          splits |-> {"windows_train", "windows_val", "windows_test"},
          ablation_manifest |-> {}, generalization_manifest |-> {}]

WriterOf == [dataset_manifest |-> "build", splits |-> "split",
             ablation_manifest |-> "ablation", generalization_manifest |-> "generalization"]

Published(m, files) == IF Readable(files, m) THEN files[m][Field[m]] ELSE 0

\* Content c of file f is, complete, what launch n wrote for manifest m.
OfLaunch(m, f, c, n) ==
    /\ c \notin {Absent, Unreadable}
    /\ c[Field[m]] = n
    /\ f \in CutOf[m] => c.whole

AllOf(m, files) ==
    /\ Published(m, files) # 0
    /\ \A f \in FilesOf[m] : OfLaunch(m, f, files[f], Published(m, files))

\* No manifest names a launch after the n-th.
UpTo(files, n) == \A m \in Manifests : Published(m, files) \in 0 .. n

\* What script p, the n-th launch, is about to write: the manifest last, and
\* with it all its files; a script that is not the manifest's own leaves its
\* claims as they are.
PubPlan(m, p, files, W, n) ==
    /\ \A i \in 1 .. Len(W) : W[i].file = m => i = Len(W)
    /\ \A i, j \in 1 .. Len(W) : W[i].file \in FilesOf[m] /\ W[i].file = W[j].file => i = j
    /\ \A i \in 1 .. Len(W) :
          W[i].file = m => /\ W[i].content \notin {Absent, Unreadable}
                           /\ W[i].content[Field[m]]
                              = IF p = WriterOf[m] THEN n ELSE Published(m, files)
    /\ \A i \in 1 .. Len(W) :
          W[i].file \in FilesOf[m]
          => IF p = WriterOf[m]
               THEN OfLaunch(m, W[i].file, W[i].content, n)
               ELSE \A k \in Nat \ {0} : OfLaunch(m, W[i].file, W[i].content, k)
                                         => OfLaunch(m, W[i].file, files[W[i].file], k)
    /\ p = WriterOf[m]
       => \A i \in 1 .. Len(W) :
             W[i].file = m
             => \A f \in FilesOf[m] : \/ OfLaunch(m, f, files[f], n)
                                      \/ \E j \in 1 .. Len(W) : W[j].file = f

\* A script with files that manifest m does not speak of.
LEMMA OtherPlan ==
  ASSUME NEW m, NEW p, NEW files, NEW W, NEW n, IsSeq(W), SoundWrites(p, ToSet(W)),
         WrittenBy[p] \cap (FilesOf[m] \cup {m}) = {}
  PROVE  PubPlan(m, p, files, W, n)
<1>1. \A i \in 1 .. Len(W) : W[i].file \in WrittenBy[p]
  BY DEF IsSeq, ToSet, SoundWrites
<1>2. \A i \in 1 .. Len(W) : W[i].file # m /\ W[i].file \notin FilesOf[m]
  BY <1>1
<1> QED BY <1>2 DEF PubPlan


\* A build writes index, windows and manifest of one launch, and its windows
\* are not split.
LEMMA BuildPlans ==
  ASSUME NEW files, NEW n \in Nat, NEW m \in {"dataset_manifest", "splits"}
  PROVE  PubPlan(m, "build", files, Build(artifacts, selection, n).writes, n)
<1> DEFINE W == Build(artifacts, selection, n).writes
           included == ToSet(selection.included)
           exps == {e \in included : IncludedStatus(artifacts, selection.excluded, e)}
           rows == windows_rows(artifacts, exps)
           index == [build |-> n, rows |-> raw_index_rows(artifacts, selection.excluded, included)]
           all == [build |-> n, split |-> 0, whole |-> TRUE, rows |-> rows]
           of == [build |-> n, included |-> included, count |-> Len(rows)]
           a == Put("raw_index", index)
           b == Put("windows_all", all)
           c == Put("dataset_manifest", of)
<1>1. W = << >> \/ W = <<a>> \/ W = <<a, b, c>>
  BY Zenon DEF Build
<1>2. /\ index.build = n /\ index \notin {Absent, Unreadable}
      /\ all.build = n /\ all.split = 0 /\ all.whole /\ all \notin {Absent, Unreadable}
      /\ of.build = n /\ of \notin {Absent, Unreadable}
  <2> HIDE DEF rows, included, exps
  <2> QED BY DEF Absent, Unreadable
<1>3. /\ a.file = "raw_index" /\ a.content = index
      /\ b.file = "windows_all" /\ b.content = all
      /\ c.file = "dataset_manifest" /\ c.content = of
  BY DEF Put
<1> HIDE DEF a, b, c, index, all, of, rows, W
<1>4. /\ W = << >> => Len(W) = 0
      /\ W = <<a>> => Len(W) = 1 /\ W[1] = a
      /\ W = <<a, b, c>> => Len(W) = 3 /\ W[1] = a /\ W[2] = b /\ W[3] = c
  OBVIOUS
<1>5. CASE W = << >>
  BY <1>4, <1>5 DEF PubPlan, W
<1>6. CASE W = <<a>>
  <2>1. \A i \in 1 .. 1 : i = 1
    OBVIOUS
  <2>2. PubPlan(m, "build", files, W, n)
    BY <1>2, <1>3, <1>4, <1>6, <2>1 DEF PubPlan, OfLaunch, FilesOf, CutOf, WriterOf, Field
  <2> QED BY <2>2 DEF W
<1>7. CASE W = <<a, b, c>>
  <2>1. \A i \in 1 .. 3 : i = 1 \/ i = 2 \/ i = 3
    OBVIOUS
  <2>2. CASE m = "dataset_manifest"
    BY <1>2, <1>3, <1>4, <1>7, <2>1, <2>2 DEF PubPlan, OfLaunch, FilesOf, CutOf, WriterOf, Field, W
  <2>3. CASE m = "splits"
    BY <1>2, <1>3, <1>4, <1>7, <2>1, <2>3 DEF PubPlan, OfLaunch, FilesOf, CutOf, WriterOf, Field, W
  <2> QED BY <2>2, <2>3
<1> QED BY <1>1, <1>5, <1>6, <1>7

\* A report repeats the launch that the manifest of the data set names.
LEMMA ReportPlan ==
  ASSUME NEW files, NEW n \in Nat
  PROVE  PubPlan("dataset_manifest", "report", files, Report(files, n).writes, n)
<1> DEFINE W == Report(files, n).writes
           old == IF files["dataset_manifest"] = Absent
                    THEN [build |-> 0, included |-> {}]
                    ELSE files["dataset_manifest"]
           new(count) == [build |-> old.build, included |-> old.included, count |-> count]
<1>1. PICK o, q, count :
        \/ W = << >>
        \/ W = <<Put("dataset_summary", o), Put("quality_report", q)>>
        \/ /\ files["dataset_manifest"] # Unreadable
           /\ W = Append(<<Put("dataset_summary", o), Put("quality_report", q)>>,
                         Put("dataset_manifest", new(count)))
  BY Zenon DEF Report
<1> DEFINE a == Put("dataset_summary", o)
           b == Put("quality_report", q)
           c == Put("dataset_manifest", new(count))
<1>2. \/ W = << >> \/ W = <<a, b>>
      \/ files["dataset_manifest"] # Unreadable /\ W = <<a, b, c>>
  <2>1. Append(<<a, b>>, c) = <<a, b, c>>
    <3> HIDE DEF a, b, c
    <3> QED BY ShortJoins
  <2> QED BY <1>1, <2>1
<1>3. a.file = "dataset_summary" /\ b.file = "quality_report"
      /\ c.file = "dataset_manifest" /\ c.content = new(count)
  BY DEF Put
<1>4. new(count) \notin {Absent, Unreadable} /\ new(count).build = old.build
  <2> HIDE DEF old
  <2> QED BY DEF Absent, Unreadable
<1>5. files["dataset_manifest"] # Unreadable
      => old.build = Published("dataset_manifest", files)
  BY DEF Published, Readable, Field
<1> HIDE DEF a, b, c, W, new, old
<1>6. /\ W = << >> => Len(W) = 0
      /\ W = <<a, b>> => Len(W) = 2 /\ W[1] = a /\ W[2] = b
      /\ W = <<a, b, c>> => Len(W) = 3 /\ W[1] = a /\ W[2] = b /\ W[3] = c
  OBVIOUS
<1>7. /\ \A i \in 1 .. 2 : i = 1 \/ i = 2
      /\ \A i \in 1 .. 3 : i = 1 \/ i = 2 \/ i = 3
  OBVIOUS
<1>8. CASE W = << >>
  BY <1>6, <1>8 DEF PubPlan, W
<1>9. CASE W = <<a, b>>
  <2>1. \A i \in 1 .. 2 : W[i].file \notin {"dataset_manifest", "raw_index", "windows_all"}
    BY <1>3, <1>6, <1>7, <1>9
  <2> QED BY <1>6, <1>9, <2>1 DEF PubPlan, FilesOf, WriterOf, W
<1>10. CASE files["dataset_manifest"] # Unreadable /\ W = <<a, b, c>>
  BY <1>3, <1>4, <1>5, <1>6, <1>7, <1>10 DEF PubPlan, FilesOf, WriterOf, Field, W
<1> QED BY <1>2, <1>8, <1>9, <1>10


\* A split writes the windows again, in another order, and keeps the launch of
\* the build that they name and whether they are whole.
LEMMA SplitPlans ==
  ASSUME NEW files, SoundFiles(files), NEW n \in Nat, NEW m \in {"dataset_manifest", "splits"}
  PROVE  PubPlan(m, "split", files, Split(files, n).writes, n)
<1> DEFINE W == Split(files, n).writes
           all == files["windows_all"]
           rows == all.rows
           x == [all EXCEPT !.split = n, !.rows = UpdatedRows(rows)]
           y(s) == [split |-> n, whole |-> TRUE, rows |-> PartOf(rows, s)]
           z == [split |-> n, assignments |-> Assignments(rows)]
           a == Put("windows_all", x)
           b == Put("windows_train", y("train"))
           c == Put("windows_val", y("val"))
           d == Put("windows_test", y("test"))
           e == Put("splits", z)
<1>1. W = << >> \/ (Readable(files, "windows_all") /\ W = SplitPlan(all, n))
  BY SplitWrites
<1>2. CASE W = << >>
  <2> HIDE DEF W
  <2>1. Len(W) = 0
    BY <1>2
  <2>2. PubPlan(m, "split", files, W, n)
    BY <2>1 DEF PubPlan
  <2> QED BY <2>2 DEF W
<1>3. CASE Readable(files, "windows_all") /\ W = SplitPlan(all, n)
  <2>1. W = <<a, b, c, d, e>>
    BY <1>3 DEF SplitPlan, PartFile, PartNames
  <2>2. all \in AllWindows
    BY <1>3, CheckedFiles DEF SoundFiles, Sound, Readable, Checked, FileNames
  <2>3. x = [build |-> all.build, split |-> n, whole |-> all.whole, rows |-> UpdatedRows(rows)]
    BY <2>2, PlanOfSplit
  <2>4. /\ x.build = all.build /\ x.split = n /\ x.whole = all.whole
        /\ x \notin {Absent, Unreadable}
    <3> HIDE DEF x, all
    <3> QED BY <2>3 DEF Absent, Unreadable
  <2>5. /\ \A s : y(s).split = n /\ y(s).whole /\ y(s) \notin {Absent, Unreadable}
        /\ z.split = n /\ z \notin {Absent, Unreadable}
    <3> HIDE DEF all
    <3> QED BY DEF Absent, Unreadable
  <2>6. all \notin {Absent, Unreadable}
    BY <1>3 DEF Readable
  <2>7. /\ a.file = "windows_all" /\ a.content = x
        /\ b.file = "windows_train" /\ b.content = y("train")
        /\ c.file = "windows_val" /\ c.content = y("val")
        /\ d.file = "windows_test" /\ d.content = y("test")
        /\ e.file = "splits" /\ e.content = z
    BY DEF Put
  <2> HIDE DEF x, y, z, a, b, c, d, e, W
  <2>8. Len(W) = 5 /\ W[1] = a /\ W[2] = b /\ W[3] = c /\ W[4] = d /\ W[5] = e
    BY <2>1
  <2>9. \A i \in 1 .. 5 : i = 1 \/ i = 2 \/ i = 3 \/ i = 4 \/ i = 5
    OBVIOUS
  <2>10. CASE m = "splits"
    <3>1. \A i \in 1 .. 5 : W[i].content \notin {Absent, Unreadable} /\ W[i].content.split = n
      BY <2>4, <2>5, <2>7, <2>8, <2>9
    <3>2. \A i \in 2 .. 4 : W[i].content.whole
      <4>1. \A i \in 2 .. 4 : i = 2 \/ i = 3 \/ i = 4
        OBVIOUS
      <4> QED BY <2>5, <2>7, <2>8, <4>1
    <3>3. \A i, j \in 1 .. 5 : W[i].file = W[j].file => i = j
      BY <2>7, <2>8, <2>9
    <3>4. \A i \in 1 .. 5 : W[i].file = "splits" => i = 5
      BY <2>7, <2>8, <2>9
    <3>5. \A f \in FilesOf[m] : \E j \in 1 .. 5 : W[j].file = f
      BY <2>7, <2>8, <2>10 DEF FilesOf
    <3>6. \A i \in 1 .. 5 : W[i].file \in CutOf[m] => i \in 2 .. 4
      BY <2>7, <2>8, <2>9, <2>10 DEF CutOf
    <3>7. WriterOf[m] = "split" /\ Field[m] = "split"
      BY <2>10 DEF WriterOf, Field
    <3>8. \A i \in 1 .. 5 : OfLaunch(m, W[i].file, W[i].content, n)
      BY <3>1, <3>2, <3>6, <3>7 DEF OfLaunch
    <3> DEFINE l == Len(W)
    <3>9. /\ \A i \in 1 .. l : W[i].file = m => i = l
          /\ \A i, j \in 1 .. l : W[i].file \in FilesOf[m] /\ W[i].file = W[j].file => i = j
          /\ \A i \in 1 .. l : W[i].content \notin {Absent, Unreadable} /\ W[i].content[Field[m]] = n
          /\ \A i \in 1 .. l : OfLaunch(m, W[i].file, W[i].content, n)
          /\ \A f \in FilesOf[m] : \E j \in 1 .. l : W[j].file = f
      <4>1. l = 5
        BY <2>8
      <4> HIDE DEF l
      <4>2. \A i \in 1 .. 5 : W[i].content[Field[m]] = n
        BY <3>1, <3>7
      <4> QED BY <2>10, <3>1, <3>3, <3>4, <3>5, <3>8, <4>1, <4>2
    <3>10. PubPlan(m, "split", files, W, n)
      BY <3>7, <3>9 DEF PubPlan
    <3> QED BY <3>10 DEF W
  <2>11. CASE m = "dataset_manifest"
    <3>1. \A i \in 1 .. 5 : /\ W[i].file # m
                            /\ W[i].file \in FilesOf[m] => i = 1
      BY <2>7, <2>8, <2>9, <2>11 DEF FilesOf
    <3>2. \A k : OfLaunch(m, "windows_all", x, k) => OfLaunch(m, "windows_all", all, k)
      BY <2>4, <2>6, <2>11 DEF OfLaunch, Field
    <3>3. WriterOf[m] = "build"
      BY <2>11 DEF WriterOf
    <3> QED BY <2>7, <2>8, <3>1, <3>2, <3>3 DEF PubPlan, W
  <2> QED BY <2>10, <2>11
<1> QED BY <1>1, <1>2, <1>3

LEMMA AblationPlan ==
  ASSUME NEW files, NEW n \in Nat
  PROVE  PubPlan("ablation_manifest", "ablation", files, Ablation(files, n).writes, n)
<1> DEFINE W == Ablation(files, n).writes
<1>1. PICK r : (W = << >> \/ W = AblationWrites(r)) /\ r.stamp = n /\ r \notin {Absent, Unreadable}
  <2>1. PICK x, y, z :
          LET r == [stamp |-> n, run |-> x, split |-> y, columns |-> z]
          IN  W = << >> \/ W = AblationWrites(r)
    BY Zenon DEF Ablation
  <2> DEFINE r == [stamp |-> n, run |-> x, split |-> y, columns |-> z]
  <2>2. r.stamp = n /\ r \notin {Absent, Unreadable}
    BY DEF Absent, Unreadable
  <2> HIDE DEF W
  <2> QED BY <2>1, <2>2
<1> DEFINE a == Put("ablation_binary_summary", r)
           b == Put("ablation_multiclass_summary", r)
           c == Put("ablation_metrics", r)
           d == Put("ablation_manifest", r)
<1>2. W = << >> \/ W = <<a, b, c, d>>
  BY <1>1 DEF AblationWrites
<1>3. /\ a.file = "ablation_binary_summary" /\ b.file = "ablation_multiclass_summary"
      /\ c.file = "ablation_metrics" /\ d.file = "ablation_manifest"
      /\ a.content = r /\ b.content = r /\ c.content = r /\ d.content = r
  BY DEF Put
<1> HIDE DEF a, b, c, d, W
<1>4. /\ W = << >> => Len(W) = 0
      /\ W = <<a, b, c, d>> => Len(W) = 4 /\ W[1] = a /\ W[2] = b /\ W[3] = c /\ W[4] = d
      /\ \A i \in 1 .. 4 : i = 1 \/ i = 2 \/ i = 3 \/ i = 4
  OBVIOUS
<1>5. CASE W = << >>
  BY <1>4, <1>5 DEF PubPlan, W
<1>6. CASE W = <<a, b, c, d>>
  BY <1>1, <1>3, <1>4, <1>6 DEF PubPlan, OfLaunch, FilesOf, CutOf, WriterOf, Field, W
<1> QED BY <1>2, <1>5, <1>6

LEMMA GeneralizationPlan ==
  ASSUME NEW files, NEW n \in Nat
  PROVE  PubPlan("generalization_manifest", "generalization", files,
                 Generalization(files, n).writes, n)
<1> DEFINE W == Generalization(files, n).writes
           binary     == CHOOSE m \in ModelOf(files, "binary_models") : TRUE
           multiclass == CHOOSE m \in ModelOf(files, "multiclass_models") : TRUE
           r == [stamp |-> n, binary |-> binary, multiclass |-> multiclass]
           a == Put("scenario_predictions", r)
           b == Put("normal_binary_summary", r)
           c == Put("anomaly_binary_summary", r)
           d == Put("anomaly_multiclass_summary", r)
           e == Put("generalization_metrics", r)
           f == Put("generalization_manifest", r)
<1>1. W = << >> \/ W = <<a, b, c, d, e, f>>
  BY DEF Generalization
<1>2. r.stamp = n /\ r \notin {Absent, Unreadable}
  <2> HIDE DEF binary, multiclass
  <2> QED BY DEF Absent, Unreadable
<1>3. /\ a.file = "scenario_predictions" /\ b.file = "normal_binary_summary"
      /\ c.file = "anomaly_binary_summary" /\ d.file = "anomaly_multiclass_summary"
      /\ e.file = "generalization_metrics" /\ f.file = "generalization_manifest"
      /\ a.content = r /\ b.content = r /\ c.content = r
      /\ d.content = r /\ e.content = r /\ f.content = r
  BY DEF Put
<1> HIDE DEF a, b, c, d, e, f, r, W
<1>4. /\ W = << >> => Len(W) = 0
      /\ W = <<a, b, c, d, e, f>>
         => /\ Len(W) = 6 /\ W[1] = a /\ W[2] = b /\ W[3] = c /\ W[4] = d
            /\ W[5] = e /\ W[6] = f
      /\ \A i \in 1 .. 6 : i = 1 \/ i = 2 \/ i = 3 \/ i = 4 \/ i = 5 \/ i = 6
  OBVIOUS
<1>5. CASE W = << >>
  BY <1>4, <1>5 DEF PubPlan, W
<1>6. CASE W = <<a, b, c, d, e, f>>
  BY <1>2, <1>3, <1>4, <1>6 DEF PubPlan, OfLaunch, FilesOf, CutOf, WriterOf, Field, W
<1> QED BY <1>1, <1>5, <1>6


---------------------------------------------------------------------------
(* The files after a series of writes.                                     *)

\* A file is as it was, or as one of the writes left it.
LEMMA AfterWritesOf ==
  ASSUME NEW files, NEW W, IsSeq(W)
  PROVE  /\ AfterWrites(files, W) = [f \in DOMAIN files |-> AfterWrites(files, W)[f]]
         /\ \A f \in DOMAIN files :
              \/ AfterWrites(files, W)[f] = files[f] /\ \A w \in ToSet(W) : w.file # f
              \/ \E w \in ToSet(W) : w.file = f /\ AfterWrites(files, W)[f] = w.content
<1>1. AfterWrites(files, W) = [f \in DOMAIN files |-> AfterWrites(files, W)[f]]
  BY DEF AfterWrites
<1>2. DOMAIN W = 1 .. Len(W) /\ Len(W) \in Nat
  BY DEF IsSeq
<1>3. ASSUME NEW f \in DOMAIN files
      PROVE  \/ AfterWrites(files, W)[f] = files[f] /\ \A w \in ToSet(W) : w.file # f
             \/ \E w \in ToSet(W) : w.file = f /\ AfterWrites(files, W)[f] = w.content
  <2> DEFINE of == {i \in DOMAIN W : W[i].file = f}
             last == CHOOSE i \in of : \A j \in of : j <= i
  <2>1. CASE of = {}
    BY <2>1 DEF AfterWrites, ToSet
  <2>2. CASE of # {}
    <3>1. \E i \in of : \A j \in of : j <= i
      <4> DEFINE back == {Len(W) - i : i \in of}
      <4>1. back \in SUBSET Nat /\ back # {}
        BY <1>2, <2>2
      <4>2. PICK k \in back : \A l \in back : k <= l
        <5> HIDE DEF back
        <5> QED BY <4>1, LeastNumber
      <4>3. PICK i \in of : k = Len(W) - i
        BY <4>2
      <4>4. \A j \in of : Len(W) - j \in back /\ j \in Nat
        BY <1>2
      <4>5. i \in Nat /\ \A j \in of : Len(W) - i <= Len(W) - j
        BY <4>2, <4>3, <4>4
      <4> HIDE DEF of, back
      <4>6. \A j \in of : j <= i
        BY <1>2, <4>4, <4>5
      <4> QED BY <4>3, <4>6
    <3>2. last \in of
      <4> HIDE DEF of
      <4> QED BY <3>1
    <3>3. AfterWrites(files, W)[f] = W[last].content
      BY <2>2 DEF AfterWrites
    <3> HIDE DEF last
    <3> QED BY <3>2, <3>3 DEF ToSet
  <2> QED BY <2>1, <2>2
<1> QED BY <1>1, <1>3

\* The last write of a file counts, also when there are others before it.
LEMMA LastWrite ==
  ASSUME NEW files, NEW W, IsSeq(W), NEW f \in DOMAIN files, NEW i \in 1 .. Len(W),
         W[i].file = f, \A j \in 1 .. Len(W) : W[j].file = f => j <= i
  PROVE  AfterWrites(files, W)[f] = W[i].content
<1> DEFINE of == {j \in DOMAIN W : W[j].file = f}
<1>1. DOMAIN W = 1 .. Len(W) /\ Len(W) \in Nat
  BY DEF IsSeq
<1>2. i \in of /\ \A j \in of : j <= i
  BY <1>1
<1>3. of \subseteq Nat
  BY <1>1
<1>4. AfterWrites(files, W)[f] = W[CHOOSE k \in of : \A j \in of : j <= k].content
  BY <1>2 DEF AfterWrites
<1> HIDE DEF of
<1>5. (CHOOSE k \in of : \A j \in of : j <= k) = i
  <2> DEFINE last == CHOOSE k \in of : \A j \in of : j <= k
  <2>1. last \in of /\ \A j \in of : j <= last
    BY <1>2
  <2> HIDE DEF last
  <2>2. last <= i /\ i <= last /\ last \in Nat /\ i \in Nat
    BY <1>2, <1>3, <2>1
  <2>3. last = i
    BY <2>2
  <2> QED BY <2>3 DEF last
<1> QED BY <1>4, <1>5

\* To write a file and then the others is to write all.
LEMMA OneAfterTheOther ==
  ASSUME NEW files, NEW W, IsSeq(W), W # << >>, Head(W).file \in DOMAIN files
  PROVE  AfterWrites([files EXCEPT ![Head(W).file] = Head(W).content], Tail(W))
         = AfterWrites(files, W)
<1> DEFINE w == Head(W)
           T == Tail(W)
           new == [files EXCEPT ![w.file] = w.content]
<1>1. /\ IsSeq(T) /\ w = W[1] /\ Len(W) \in Nat \ {0} /\ DOMAIN W = 1 .. Len(W)
      /\ Len(T) = Len(W) - 1 /\ \A i \in 1 .. Len(W) - 1 : T[i] = W[i + 1]
  BY TailOf
<1> HIDE DEF w, T
<1>2. DOMAIN new = DOMAIN files /\ new[w.file] = w.content
      /\ \A f \in DOMAIN files : f # w.file => new[f] = files[f]
  BY DEF w
<1> HIDE DEF new
<1>3. /\ AfterWrites(files, W) = [f \in DOMAIN files |-> AfterWrites(files, W)[f]]
      /\ AfterWrites(new, T) = [f \in DOMAIN files |-> AfterWrites(new, T)[f]]
  BY <1>1, <1>2, AfterWritesOf
<1>4. ASSUME NEW f \in DOMAIN files PROVE AfterWrites(new, T)[f] = AfterWrites(files, W)[f]
  <2>1. CASE \E i \in 1 .. Len(T) : T[i].file = f
    <3> DEFINE of == {i \in 1 .. Len(T) : T[i].file = f}
               back == {Len(T) - i : i \in of}
    <3>1. back \in SUBSET Nat /\ back # {}
      BY <1>1, <2>1
    <3>2. PICK k \in back : \A l \in back : k <= l
      <4> HIDE DEF back
      <4> QED BY <3>1, LeastNumber
    <3>3. PICK i \in of : k = Len(T) - i
      BY <3>2
    <3>4. \A j \in of : Len(T) - i <= Len(T) - j
      BY <3>2, <3>3
    <3>5. i \in 1 .. Len(T) /\ T[i].file = f /\ \A j \in 1 .. Len(T) : T[j].file = f => j <= i
      <4>1. \A j \in 1 .. Len(T) : T[j].file = f => Len(T) - i <= Len(T) - j
        BY <3>4
      <4>2. i \in 1 .. Len(T) /\ T[i].file = f
        BY <3>3
      <4> DEFINE l == Len(T)
      <4>3. l \in Nat
        BY <1>1
      <4> HIDE DEF l
      <4>4. i \in 1 .. l /\ \A j \in 1 .. l : T[j].file = f => l - i <= l - j
        BY <4>1, <4>2 DEF l
      <4>5. \A j \in 1 .. l : T[j].file = f => j <= i
        BY <4>3, <4>4
      <4>6. \A j \in 1 .. Len(T) : T[j].file = f => j <= i
        BY <4>5, Zenon DEF l
      <4> QED BY <4>2, <4>6, Zenon
    <3> HIDE DEF of, back
    <3>6. AfterWrites(new, T)[f] = T[i].content
      <4>1. IsSeq(T) /\ f \in DOMAIN new
        BY <1>1, <1>2
      <4> QED BY <3>5, <4>1, LastWrite
    <3>7. /\ i + 1 \in 1 .. Len(W) /\ W[i + 1] = T[i]
          /\ \A j \in 1 .. Len(W) : W[j].file = f => j <= i + 1
      <4>1. i + 1 \in 1 .. Len(W) /\ W[i + 1] = T[i]
        BY <1>1, <3>5
      <4>2. ASSUME NEW j \in 1 .. Len(W), W[j].file = f PROVE j <= i + 1
        <5>1. CASE j = 1
          BY <3>5, <5>1
        <5>2. CASE j # 1
          <6>1. j - 1 \in 1 .. Len(T) /\ T[j - 1] = W[j]
            BY <1>1, <5>2
          <6>2. j - 1 <= i
            BY <3>5, <4>2, <6>1
          <6> QED BY <1>1, <3>5, <6>2
        <5> QED BY <5>1, <5>2
      <4> QED BY <4>1, <4>2
    <3>8. AfterWrites(files, W)[f] = W[i + 1].content
      BY <3>5, <3>7, LastWrite
    <3> QED BY <3>6, <3>7, <3>8
  <2>2. CASE ~\E i \in 1 .. Len(T) : T[i].file = f
    <3>1. AfterWrites(new, T)[f] = new[f]
      <4>1. \A v \in ToSet(T) : v.file # f
        BY <2>2, <1>1 DEF IsSeq, ToSet
      <4> QED BY <1>1, <1>2, <4>1, AfterWritesOf
    <3>2. \A j \in 1 .. Len(W) : W[j].file = f => j = 1
      <4> SUFFICES ASSUME NEW j \in 1 .. Len(W), j # 1 PROVE W[j].file # f
        OBVIOUS
      <4>1. j - 1 \in 1 .. Len(T) /\ T[j - 1] = W[j]
        BY <1>1
      <4> QED BY <2>2, <4>1
    <3>3. CASE w.file = f
      <4>1. 1 \in 1 .. Len(W) /\ W[1].file = f /\ \A j \in 1 .. Len(W) : W[j].file = f => j <= 1
        BY <1>1, <3>2, <3>3
      <4>2. AfterWrites(files, W)[f] = W[1].content
        BY <4>1, LastWrite
      <4> QED BY <1>1, <1>2, <3>1, <3>3, <4>2
    <3>4. CASE w.file # f
      <4>1. \A j \in 1 .. Len(W) : W[j].file # f
        BY <1>1, <3>2, <3>4
      <4>2. \A v \in ToSet(W) : v.file # f
        BY <1>1, <4>1 DEF ToSet
      <4>3. AfterWrites(files, W)[f] = files[f]
        BY <4>2, AfterWritesOf
      <4> QED BY <1>2, <3>1, <3>4, <4>3
    <3> QED BY <3>3, <3>4
  <2> QED BY <2>1, <2>2
<1>5. AfterWrites(new, T) = AfterWrites(files, W)
  BY <1>3, <1>4
<1> QED BY <1>5 DEF new, w, T


\* The three files of a split that came to its end.
SplitDone(files) ==
    \E rows \in Seq(WindowRow) : \A s \in Splits :
        /\ files[PartNames[s]] \in PartWindows /\ files[PartNames[s]].whole
        /\ files[PartNames[s]].rows = PartOf(rows, s)

SplitOK(files) ==
    SplitDone(files) \/ \A f \in SplitFiles \cup {"splits"} : files[f] = Absent

LEMMA PartFiles ==
  /\ SplitFiles = {"windows_train", "windows_val", "windows_test"}
  /\ SplitFiles \cup {"splits"} \subseteq FileNames
  /\ \A p \in Program \ {"split"} : WrittenBy[p] \cap (SplitFiles \cup {"splits"}) = {}
<1>1. SplitFiles = {"windows_train", "windows_val", "windows_test"}
  BY DEF SplitFiles, PartNames, Splits
<1>2. SplitFiles \cup {"splits"} \subseteq FileNames
  BY <1>1, WrittenFiles DEF WrittenBy, Program
<1>3. \A p \in Program \ {"split"} : WrittenBy[p] \cap (SplitFiles \cup {"splits"}) = {}
  BY <1>1 DEF Program, WrittenBy
<1> QED BY <1>1, <1>2, <1>3

LEMMA SplitOutputDone ==
  ASSUME NEW files, SoundFiles(files), NEW n \in Nat
  PROVE  LET W == Split(files, n).writes
         IN  W # << >> => SplitDone(AfterWrites(files, W))
<1> DEFINE W == Split(files, n).writes
           all == files["windows_all"]
           rows == all.rows
           y(s) == [split |-> n, whole |-> TRUE, rows |-> PartOf(rows, s)]
           a == Put("windows_all", [all EXCEPT !.split = n, !.rows = UpdatedRows(rows)])
           b == Put("windows_train", y("train"))
           c == Put("windows_val", y("val"))
           d == Put("windows_test", y("test"))
           e == Put("splits", [split |-> n, assignments |-> Assignments(rows)])
           new == AfterWrites(files, W)
<1> SUFFICES ASSUME W # << >> PROVE SplitDone(new)
  OBVIOUS
<1>1. Readable(files, "windows_all") /\ W = SplitPlan(all, n)
  BY SplitWrites
<1>2. W = <<a, b, c, d, e>>
  BY <1>1 DEF SplitPlan, PartFile, PartNames
<1>3. all \in AllWindows
  BY <1>1, CheckedFiles DEF SoundFiles, Sound, Readable, Checked, FileNames
<1>4. rows \in Seq(WindowRow) /\ \A s \in Splits : PartOf(rows, s) \in Seq(WindowRow)
  BY <1>3, PlanOfSplit DEF AllWindows
<1>5. \A s \in Splits : y(s) \in PartWindows /\ y(s).whole /\ y(s).rows = PartOf(rows, s)
  BY <1>4 DEF PartWindows
<1>6. /\ a.file = "windows_all" /\ b.file = "windows_train" /\ c.file = "windows_val"
      /\ d.file = "windows_test" /\ e.file = "splits"
      /\ b.content = y("train") /\ c.content = y("val") /\ d.content = y("test")
  BY DEF Put
<1> HIDE DEF a, b, c, d, e, W, y, rows
<1>7. IsSeq(W) /\ ToSet(W) = {a, b, c, d, e}
  BY <1>2, Tuples
<1>8. {"windows_train", "windows_val", "windows_test"} \subseteq DOMAIN files
  BY PartFiles DEF SoundFiles
<1>9. /\ new["windows_train"] = y("train") /\ new["windows_val"] = y("val")
      /\ new["windows_test"] = y("test")
  <2> HIDE DEF new
  <2>1. \A f \in {"windows_train", "windows_val", "windows_test"} :
           \/ \A w \in ToSet(W) : w.file # f
           \/ \E w \in ToSet(W) : w.file = f /\ new[f] = w.content
    BY <1>7, <1>8, AfterWritesOf DEF new
  <2> QED BY <1>6, <1>7, <2>1
<1> HIDE DEF new
<1>10. \A s \in Splits : new[PartNames[s]] = y(s)
  BY <1>9 DEF Splits, PartNames
<1> QED BY <1>4, <1>5, <1>10 DEF SplitDone

\* The files between two scripts, after n launches.
FilesSound(files, n) ==
    SoundFiles(files) /\ RawPaired(files) /\ OneModel(ModelsKnown(files, {}), n)

ScoreTyped(p, score) ==
    p = "train" => score \in [binary : [1 .. 6 -> Nat], multiclass : [1 .. 5 -> Nat]]

LEMMA OutputSound ==
  ASSUME InputsTyped, NEW p \in Program, NEW files, NEW n \in Nat, NEW score,
         FilesSound(files, n), ScoreTyped(p, score)
  PROVE  LET W == Output(p, files, score, n + 1).writes
         IN  /\ IsSeq(W)
             /\ SoundWrites(p, ToSet(W))
             /\ OneModel(ModelsKnown(files, ToSet(W)), n + 1)
<1> DEFINE k == n + 1
           W == Output(p, files, score, k).writes
<1>1. CASE p = "train"
  <2>1. W = Train(files, score, n + 1).writes
    BY <1>1 DEF Output
  <2> HIDE DEF W
  <2>2. /\ IsSeq(W)
        /\ SoundWrites("train", ToSet(W))
        /\ OneModel(ModelsKnown(files, ToSet(W)), n + 1)
    BY <1>1, <2>1, TrainSound DEF FilesSound, ScoreTyped
  <2> QED BY <1>1, <2>2 DEF W
<1>2. CASE p # "train"
  <2>0. k \in Nat
    OBVIOUS
  <2> HIDE DEF k
  <2>1. SoundOutput(p, W)
    <3>1. CASE p = "build"
      BY <2>0, <3>1, BuildSound DEF Output
    <3>2. CASE p = "split"
      BY <2>0, <3>2, SplitSound DEF Output, FilesSound
    <3>3. CASE p = "report"
      BY <3>3, ReportSound DEF Output
    <3>4. CASE p = "phase4_export"
      BY <3>4, Phase4Sound DEF Output, FilesSound
    <3>5. CASE p = "ablation"
      BY <3>5, AblationSound DEF Output
    <3>6. CASE p = "generalization"
      BY <3>6, GeneralizationSound DEF Output, FilesSound
    <3>7. CASE p = "phase6_export"
      BY <3>7, Phase6Sound DEF Output
    <3>8. CASE p = "phase5_export"
      BY <3>8, Phase5Sound DEF Output, FilesSound
    <3> HIDE DEF W
    <3> QED BY <1>2, <3>1, <3>2, <3>3, <3>4, <3>5, <3>6, <3>7, <3>8 DEF Program
  <2> HIDE DEF W
  <2>2. ModelsKnown(files, ToSet(W)) = ModelsKnown(files, {})
    <3>1. \A w \in ToSet(W) : w.file \notin ModelFiles
      BY <1>2, <2>1, WrittenFiles DEF SoundOutput, SoundWrites
    <3> QED BY <3>1 DEF ModelsKnown
  <2>3. OneModel(ModelsKnown(files, {}), n + 1)
    BY OneModelLater DEF FilesSound
  <2>4. IsSeq(W) /\ SoundWrites(p, ToSet(W))
    BY <2>1 DEF SoundOutput
  <2> QED BY <2>2, <2>3, <2>4 DEF W, k
<1> QED BY <1>1, <1>2

\* The members of a group: the first is trained on, with two the last is tested
\* on, with three the second is chosen on.
LEMMA GroupShares ==
  ASSUME NEW G \in SUBSET Nat, IsFiniteSet(G)
  PROVE  /\ \A e \in G : split_group(G, e) \in Splits
         /\ G # {} => \E e \in G : split_group(G, e) = "train"
         /\ Cardinality(G) >= 2 => \E e \in G : split_group(G, e) = "test"
         /\ Cardinality(G) >= 3 => \E e \in G : split_group(G, e) = "val"
<1> DEFINE place(e) == Cardinality({d \in G : d <= e})
           size == Cardinality(G)
<1>1. size \in Nat /\ (G # {} => size >= 1)
  <2>1. size \in Nat
    BY FS_CardinalityType
  <2>2. G # {} => size # 0
    BY FS_EmptySet
  <2> HIDE DEF size
  <2> QED BY <2>1, <2>2
<1>2. ASSUME NEW n \in 1 .. size PROVE \E e \in G : place(e) = n
  <2>1. PICK e \in G : Cardinality({j \in G : j < e}) = n - 1
    BY NumbersListed
  <2> DEFINE B == {j \in G : j < e}
  <2>2. {d \in G : d <= e} = B \cup {e} /\ e \notin B /\ B \in SUBSET G
    <3>1. e \in Nat /\ \A d \in G : d <= e <=> (d < e \/ d = e)
      OBVIOUS
    <3>2. ~(e < e)
      BY <3>1
    <3> QED BY <3>1, <3>2
  <2> HIDE DEF B
  <2>3. IsFiniteSet(B)
    BY <2>2, FS_Subset
  <2>4. Cardinality(B \cup {e}) = Cardinality(B) + 1
    BY <2>2, <2>3, FS_AddElement
  <2>5. Cardinality(B) = n - 1
    BY <2>1 DEF B
  <2>6. place(e) = n
    <3>1. place(e) = (n - 1) + 1
      BY <2>2, <2>4, <2>5
    <3> HIDE DEF place, size
    <3>2. (n - 1) + 1 = n
      BY <1>1
    <3> QED BY <3>1, <3>2
  <2> QED BY <2>6
<1>3. ASSUME NEW e
      PROVE  /\ split_group(G, e) \in Splits
             /\ place(e) = 1 => split_group(G, e) = "train"
             /\ place(e) = 2 => split_group(G, e) = IF size = 2 THEN "test" ELSE "val"
             /\ place(e) = 3 => split_group(G, e) = "test"
  BY DEF split_group, Splits
<1> HIDE DEF place, size
<1>4. G # {} => \E e \in G : split_group(G, e) = "train"
  BY <1>1, <1>2, <1>3
<1>5. size >= 2 => \E e \in G : split_group(G, e) = "test"
  <2>1. CASE size = 2
    BY <1>1, <1>2, <1>3, <2>1
  <2>2. CASE size >= 3
    BY <1>1, <1>2, <1>3, <2>2
  <2> QED BY <1>1, <2>1, <2>2
<1>6. size >= 3 => \E e \in G : split_group(G, e) = "val"
  BY <1>1, <1>2, <1>3
<1> QED BY <1>3, <1>4, <1>5, <1>6 DEF size

\* The groups of the windows that are read.
LEMMA GroupsOf ==
  ASSUME NEW rows \in Seq(WindowRow)
  PROVE  /\ \A e : GroupOf(rows, e) \in SUBSET Nat /\ IsFiniteSet(GroupOf(rows, e))
         /\ \A e \in ExperimentsOf(rows) : e \in GroupOf(rows, e)
         /\ \A e : \A d \in GroupOf(rows, e) : /\ d \in ExperimentsOf(rows)
                                               /\ GroupOf(rows, d) = GroupOf(rows, e)
<1> DEFINE E == ExperimentsOf(rows)
<1>1. /\ DOMAIN rows = 1 .. Len(rows) /\ Len(rows) \in Nat
      /\ \A i \in DOMAIN rows : rows[i] \in WindowRow
  BY Element
<1>2. E \in SUBSET Nat
  BY <1>1 DEF ExperimentsOf, WindowRow
<1>3. IsFiniteSet(E)
  <2> DEFINE I == DOMAIN rows
             f == [i \in I |-> rows[i].exp]
  <2>1. IsFiniteSet(I)
    BY <1>1, FS_Interval
  <2>2. f \in Surjection(I, E)
    BY DEF Surjection, ExperimentsOf
  <2> HIDE DEF I, f, E
  <2> QED BY <2>1, <2>2, FS_Surjection
<1>4. \A e : GroupOf(rows, e) \subseteq E
  BY DEF GroupOf
<1>5. \A e : GroupOf(rows, e) \in SUBSET Nat /\ IsFiniteSet(GroupOf(rows, e))
  <2> HIDE DEF E
  <2> QED BY <1>2, <1>3, <1>4, FS_Subset
<1> QED BY <1>4, <1>5 DEF GroupOf

\* A row of a part is a row that was read, and each of those is in one part.
LEMMA RowsKept ==
  ASSUME NEW rows \in Seq(WindowRow)
  PROVE  LET all == UpdatedRows(rows)
         IN  /\ ExperimentsOf(all) = ExperimentsOf(rows)
             /\ \A e : LabelsIn(all, e) = LabelsIn(rows, e)
<1> DEFINE all == UpdatedRows(rows)
           row(i, s) == [rows[i] EXCEPT !.split = s]
           places(s) == {j \in DOMAIN rows : rows[j].exp \in SplitExps(rows, s)}
<1>1. ToSet(all) = UNION {ToSet(PartOf(rows, s)) : s \in Splits}
  <2> DEFINE a == PartOf(rows, "train")
             b == PartOf(rows, "val")
             c == PartOf(rows, "test")
  <2>1. IsSeq(a) /\ IsSeq(b) /\ IsSeq(c)
    BY RowsOfSplitTyped, Listed DEF PartOf, Splits
  <2>2. all = (a \o b) \o c
    BY DEF UpdatedRows
  <2> HIDE DEF a, b, c, all
  <2>3. ToSet(all) = (ToSet(a) \cup ToSet(b)) \cup ToSet(c)
    <3>1. IsSeq(a \o b) /\ ToSet(a \o b) = ToSet(a) \cup ToSet(b)
      BY <2>1, Joined2
    <3> QED BY <2>1, <2>2, <3>1, Joined2
  <2> QED BY <2>3 DEF a, b, c, Splits
<1>2. \A s \in Splits : ToSet(PartOf(rows, s)) = {row(i, s) : i \in places(s)}
  BY RowsOfSplitTyped DEF PartOf
<1>3. \A i \in DOMAIN rows, s \in Splits :
         row(i, s).exp = rows[i].exp /\ row(i, s).label = rows[i].label
  <2> TAKE i \in DOMAIN rows, s \in Splits
  <2> DEFINE r == rows[i]
  <2>1. r \in WindowRow
    BY Element
  <2> HIDE DEF r
  <2>2. [r EXCEPT !.split = s].exp = r.exp /\ [r EXCEPT !.split = s].label = r.label
    BY <2>1 DEF WindowRow
  <2> QED BY <2>2 DEF r
<1>4. \A i \in DOMAIN rows : \E s \in Splits : i \in places(s)
  <2> TAKE i \in DOMAIN rows
  <2> DEFINE e == rows[i].exp
  <2>1. e \in ExperimentsOf(rows)
    BY DEF ExperimentsOf
  <2>2. Assignments(rows)[e] \in Splits /\ e \in DOMAIN Assignments(rows)
    BY <2>1, GroupsOf, GroupShares DEF Assignments
  <2> QED BY <2>2 DEF SplitExps
<1>5. \A s : places(s) \subseteq DOMAIN rows
  OBVIOUS
<1> HIDE DEF all, row, places
<1>6. ExperimentsOf(all) = {r.exp : r \in ToSet(all)}
  BY DEF ExperimentsOf, ToSet
<1>7. \A e : LabelsIn(all, e) = {r.label : r \in {q \in ToSet(all) : q.exp = e}}
  BY DEF LabelsIn, ToSet
<1>8. /\ \A r \in ToSet(all) : \E i \in DOMAIN rows : r.exp = rows[i].exp /\ r.label = rows[i].label
      /\ \A i \in DOMAIN rows : \E r \in ToSet(all) : r.exp = rows[i].exp /\ r.label = rows[i].label
  BY <1>1, <1>2, <1>3, <1>4, <1>5
<1>9. ExperimentsOf(all) = ExperimentsOf(rows)
  BY <1>6, <1>8 DEF ExperimentsOf
<1>10. \A e : LabelsIn(all, e) = LabelsIn(rows, e)
  <2> TAKE e
  <2>1. \A l : l \in LabelsIn(all, e) <=> \E r \in ToSet(all) : r.exp = e /\ r.label = l
    BY <1>7
  <2>2. \A l : l \in LabelsIn(rows, e) <=> \E i \in DOMAIN rows : rows[i].exp = e /\ rows[i].label = l
    BY DEF LabelsIn
  <2>3. \A l : l \in LabelsIn(all, e) <=> l \in LabelsIn(rows, e)
    BY <1>8, <2>1, <2>2
  <2>4. /\ LabelsIn(all, e) = {l \in LabelsIn(all, e) : TRUE}
        /\ LabelsIn(rows, e) = {l \in LabelsIn(rows, e) : TRUE}
    OBVIOUS
  <2> QED BY <2>3, <2>4
<1> QED BY <1>9, <1>10 DEF all

---------------------------------------------------------------------------
(* What a report says, and what of it stays true.                          *)

ReportFiles == {"raw_index", "windows_all", "quality_report"} \cup SplitFiles

Pending(W, f) == {W[i].content : i \in {j \in 1 .. Len(W) : W[j].file = f}}

\* What each of these files holds, or is about to, as far as it can be read.
Known(files, W) ==
    [f \in ReportFiles |-> ({files[f]} \cup Pending(W, f)) \ {Absent, Unreadable}]

\* The windows of e show its faults and its recovery.
Explained(e, rows) == artifacts[e].events \subseteq LabelsIn(rows, e) /\ HasRecovery(rows, e)

StampsUpTo(K, n) ==
    /\ \A i \in K["raw_index"] : i.build \in 0 .. n
    /\ \A a \in K["windows_all"] : a.build \in 0 .. n /\ a.split \in 0 .. n
    /\ \A q \in K["quality_report"] : /\ q.index \in 0 .. n
                                      /\ q.origin.build \in 0 .. n /\ q.origin.split \in 0 .. n
    /\ \A f \in SplitFiles : \A t \in K[f] : t.split \in 1 .. n

IndexTrue(K) ==
    \A i \in K["raw_index"] : \A e \in DOMAIN i.rows :
        e \in DOMAIN artifacts /\ i.rows[e].primary = scenario_to_label(artifacts[e])

NoErrorsTrue(K) ==
    \A q \in K["quality_report"], a \in K["windows_all"], i \in K["raw_index"] :
        q.errors = {} /\ a.whole /\ q.index = i.build /\ q.origin.build = a.build
        => \A e \in DOMAIN i.rows :
              i.rows[e].included /\ artifacts[e].events # {} => Explained(e, a.rows)

\* Split k was found to have each fault among its val and test windows.
FoundComplete(K, k) ==
    \/ \E q \in K["quality_report"] : q.warnings = {} /\ q.origin.split = k
    \/ \E a \in K["windows_all"] : quality_warnings(a.rows) = {} /\ a.split = k

NoWarningsTrue(K) ==
    \A f \in {"windows_val", "windows_test"} : \A t \in K["windows_train"], o \in K[f] :
        t.split = o.split /\ o.whole /\ FoundComplete(K, t.split)
        => FaultsOf(t.rows) \subseteq FaultsOf(o.rows)

Claims(K, n) == StampsUpTo(K, n) /\ IndexTrue(K) /\ NoErrorsTrue(K) /\ NoWarningsTrue(K)

\* What a report was about stays there.
ReportedStays(files, W) ==
    /\ \A f \in {"raw_index", "windows_all"} : Pending(W, f) \cap {Absent, Unreadable} = {}
    /\ Known(files, W)["quality_report"] # {}
       => \A f \in {"raw_index", "windows_all"} : files[f] \notin {Absent, Unreadable}

\* windows_all.csv is written before the parts, which are of another split then.
WindowsFirst(files, W) ==
    \A i \in 1 .. Len(W) :
        W[i].file = "windows_all"
        => /\ \A j \in 1 .. i - 1 : W[j].file \notin SplitFiles
           /\ \A f \in SplitFiles : \/ files[f] \in {Absent, Unreadable}
                                    \/ files[f].split # W[i].content.split

\* What is claimed of some contents is true of fewer of them, and later.
LEMMA ClaimsOfFewer ==
  ASSUME NEW K, NEW L, NEW n \in Nat, NEW m \in Nat, n <= m, Claims(K, n),
         \A f \in ReportFiles : L[f] \subseteq K[f]
  PROVE  Claims(L, m)
<1>1. /\ L["raw_index"] \subseteq K["raw_index"] /\ L["windows_all"] \subseteq K["windows_all"]
      /\ L["quality_report"] \subseteq K["quality_report"]
      /\ \A f \in SplitFiles : L[f] \subseteq K[f]
      /\ L["windows_train"] \subseteq K["windows_train"]
      /\ \A f \in {"windows_val", "windows_test"} : L[f] \subseteq K[f]
  BY PartFiles DEF ReportFiles
<1>2. 0 .. n \subseteq 0 .. m /\ 1 .. n \subseteq 1 .. m
  OBVIOUS
<1>3. StampsUpTo(L, m)
  BY <1>1, <1>2 DEF Claims, StampsUpTo
<1>4. IndexTrue(L)
  BY <1>1 DEF Claims, IndexTrue
<1>5. NoErrorsTrue(L)
  BY <1>1 DEF Claims, NoErrorsTrue
<1>6. NoWarningsTrue(L)
  BY <1>1 DEF Claims, NoWarningsTrue, FoundComplete
<1> QED BY <1>3, <1>4, <1>5, <1>6 DEF Claims

\* The script writes none of the files.
LEMMA NonePending ==
  ASSUME NEW W, IsSeq(W), NEW p, SoundWrites(p, ToSet(W)), NEW f, f \notin WrittenBy[p]
  PROVE  Pending(W, f) = {}
<1>1. \A i \in 1 .. Len(W) : W[i].file \in WrittenBy[p]
  BY DEF IsSeq, ToSet, SoundWrites
<1> QED BY <1>1 DEF Pending

\* What is left to write after the first file, and before it.
LEMMA PendingTail ==
  ASSUME NEW W, NEW T, Len(W) \in Nat \ {0}, Len(T) = Len(W) - 1,
         \A i \in 1 .. Len(T) : T[i] = W[i + 1], NEW f
  PROVE  /\ Pending(T, f) \subseteq Pending(W, f)
         /\ W[1].file = f => W[1].content \in Pending(W, f)
<1> DEFINE k == Len(W)
           l == Len(T)
<1>1. k \in Nat \ {0} /\ l = k - 1
  OBVIOUS
<1>2. \A i \in 1 .. l : T[i] = W[i + 1]
  OBVIOUS
<1> HIDE DEF k, l
<1>3. ASSUME NEW c \in Pending(T, f) PROVE c \in Pending(W, f)
  <2>1. PICK i \in 1 .. l : T[i].file = f /\ c = T[i].content
    BY <1>3 DEF Pending, l
  <2>2. i + 1 \in 1 .. k /\ W[i + 1].file = f /\ c = W[i + 1].content
    BY <1>1, <1>2, <2>1
  <2> QED BY <2>2 DEF Pending, k
<1>4. 1 \in 1 .. k
  BY <1>1
<1> QED BY <1>3, <1>4 DEF Pending, k

\* A build that is about to write.
LEMMA ClaimsOfBuild ==
  ASSUME NEW K, NEW L, NEW n \in Nat, Claims(K, n), NEW I, NEW A,
         L["raw_index"] \subseteq K["raw_index"] \cup {I},
         L["windows_all"] \subseteq K["windows_all"] \cup {A},
         L["quality_report"] \subseteq K["quality_report"],
         \A f \in SplitFiles : L[f] \subseteq K[f],
         I.build = n + 1, A.build = n + 1, A.split = 0,
         \A e \in DOMAIN I.rows :
            e \in DOMAIN artifacts /\ I.rows[e].primary = scenario_to_label(artifacts[e])
  PROVE  Claims(L, n + 1)
<1> DEFINE k == n + 1
<1>1. k \in Nat /\ k \in 0 .. k /\ 0 \in 0 .. k /\ k \notin 0 .. n /\ 0 \notin 1 .. n
      /\ 0 .. n \subseteq 0 .. k /\ 1 .. n \subseteq 1 .. k
  OBVIOUS
<1>2. I.build = k /\ A.build = k
  OBVIOUS
<1> HIDE DEF k
<1>3. /\ L["windows_train"] \subseteq K["windows_train"]
      /\ \A f \in {"windows_val", "windows_test"} : L[f] \subseteq K[f]
      /\ "windows_train" \in SplitFiles
  BY PartFiles
<1>4. /\ \A i \in L["raw_index"] : i = I \/ i \in K["raw_index"]
      /\ \A a \in L["windows_all"] : a = A \/ a \in K["windows_all"]
      /\ \A q \in L["quality_report"] : q \in K["quality_report"]
  OBVIOUS
<1>5. StampsUpTo(K, n) /\ IndexTrue(K) /\ NoErrorsTrue(K) /\ NoWarningsTrue(K)
  BY DEF Claims
<1>6. StampsUpTo(L, k)
  BY <1>1, <1>2, <1>4, <1>5 DEF StampsUpTo
<1>7. IndexTrue(L)
  BY <1>4, <1>5 DEF IndexTrue
<1>8. NoErrorsTrue(L)
  <2>1. \A q \in L["quality_report"] : q.index # I.build /\ q.origin.build # A.build
    BY <1>1, <1>2, <1>4, <1>5 DEF StampsUpTo
  <2> QED BY <1>4, <1>5, <2>1 DEF NoErrorsTrue
<1>9. NoWarningsTrue(L)
  <2>1. \A t \in L["windows_train"] : t.split # A.split
    BY <1>1, <1>3, <1>5 DEF StampsUpTo
  <2>2. \A t \in L["windows_train"] : FoundComplete(L, t.split) => FoundComplete(K, t.split)
    BY <1>4, <2>1 DEF FoundComplete
  <2> QED BY <1>3, <1>5, <2>2 DEF NoWarningsTrue
<1> QED BY <1>6, <1>7, <1>8, <1>9 DEF Claims, k

\* A split that is about to write all windows as A, and the parts.
SplitOf(K, L, n, all, A, parts) ==
    /\ all \in K["windows_all"]
    /\ L["raw_index"] \subseteq K["raw_index"]
    /\ L["windows_all"] \subseteq K["windows_all"] \cup {A}
    /\ L["quality_report"] \subseteq K["quality_report"]
    /\ \A f \in SplitFiles : L[f] \subseteq K[f] \cup {parts[f]} /\ parts[f].split = n + 1
    /\ A.build = all.build /\ A.whole = all.whole /\ A.split = n + 1
    /\ \A e : Explained(e, all.rows) => Explained(e, A.rows)
    /\ quality_warnings(A.rows) = {}
       => \A f \in {"windows_val", "windows_test"} :
             FaultsOf(parts["windows_train"].rows) \subseteq FaultsOf(parts[f].rows)

LEMMA ClaimsOfSplit ==
  ASSUME NEW K, NEW L, NEW n \in Nat, Claims(K, n), NEW all, NEW A, NEW parts,
         SplitOf(K, L, n, all, A, parts)
  PROVE  Claims(L, n + 1)
<1> USE DEF SplitOf
<1> DEFINE k == n + 1
<1>1. /\ k \in Nat /\ k \in 0 .. k /\ k \in 1 .. k /\ k \notin 0 .. n /\ k \notin 1 .. n
      /\ 0 .. n \subseteq 0 .. k /\ 1 .. n \subseteq 1 .. k
  OBVIOUS
<1>2. A.split = k /\ \A f \in SplitFiles : parts[f].split = k
  OBVIOUS
<1> HIDE DEF k
<1>3. /\ "windows_train" \in SplitFiles /\ "windows_val" \in SplitFiles
      /\ "windows_test" \in SplitFiles
  BY PartFiles
<1>4. /\ \A i \in L["raw_index"] : i \in K["raw_index"]
      /\ \A a \in L["windows_all"] : a = A \/ a \in K["windows_all"]
      /\ \A q \in L["quality_report"] : q \in K["quality_report"]
      /\ \A f \in SplitFiles : \A t \in L[f] : t = parts[f] \/ t \in K[f]
  OBVIOUS
<1>5. StampsUpTo(K, n) /\ IndexTrue(K) /\ NoErrorsTrue(K) /\ NoWarningsTrue(K)
  BY DEF Claims
<1>6. StampsUpTo(L, k)
  <2>1. all.build \in 0 .. n
    BY <1>5 DEF StampsUpTo
  <2> QED BY <1>1, <1>2, <1>4, <1>5, <2>1 DEF StampsUpTo
<1>7. IndexTrue(L)
  BY <1>4, <1>5 DEF IndexTrue
<1>8. NoErrorsTrue(L)
  <2>1. ASSUME NEW q \in L["quality_report"], NEW a \in L["windows_all"], NEW i \in L["raw_index"],
               q.errors = {}, a.whole, q.index = i.build, q.origin.build = a.build,
               NEW e \in DOMAIN i.rows, i.rows[e].included, artifacts[e].events # {}
        PROVE  Explained(e, a.rows)
    <3>1. CASE a = A
      <4>1. Explained(e, all.rows)
        BY <1>4, <1>5, <2>1, <3>1 DEF NoErrorsTrue
      <4> QED BY <3>1, <4>1
    <3>2. CASE a \in K["windows_all"]
      BY <1>4, <1>5, <2>1, <3>2 DEF NoErrorsTrue
    <3> QED BY <1>4, <3>1, <3>2
  <2> QED BY <2>1 DEF NoErrorsTrue
<1>9. NoWarningsTrue(L)
  <2>1. ASSUME NEW f \in {"windows_val", "windows_test"}, NEW t \in L["windows_train"], NEW o \in L[f],
               t.split = o.split, o.whole, FoundComplete(L, t.split)
        PROVE  FaultsOf(t.rows) \subseteq FaultsOf(o.rows)
    <3>0. f \in SplitFiles
      BY <1>3
    <3>1. CASE t.split = k
      <4>1. t = parts["windows_train"] /\ o = parts[f]
        BY <1>1, <1>3, <1>4, <1>5, <2>1, <3>0, <3>1 DEF StampsUpTo
      <4>2. \A q \in L["quality_report"] : q.origin.split # k
        BY <1>1, <1>4, <1>5 DEF StampsUpTo
      <4>3. \A a \in L["windows_all"] : a.split = k => a = A
        BY <1>1, <1>4, <1>5 DEF StampsUpTo
      <4>4. quality_warnings(A.rows) = {}
        BY <2>1, <3>1, <4>2, <4>3 DEF FoundComplete
      <4> QED BY <4>1, <4>4
    <3>2. CASE t.split # k
      <4>1. t \in K["windows_train"] /\ o \in K[f]
        BY <1>2, <1>3, <1>4, <2>1, <3>0, <3>2
      <4>2. FoundComplete(K, t.split)
        BY <1>2, <1>4, <2>1, <3>2 DEF FoundComplete
      <4> QED BY <1>5, <2>1, <4>1, <4>2 DEF NoWarningsTrue
    <3> QED BY <3>1, <3>2
  <2> QED BY <2>1 DEF NoWarningsTrue
<1> QED BY <1>6, <1>7, <1>8, <1>9 DEF Claims, k

\* A report that is about to write what it has seen: the labels that an index
\* names are the faults of the experiment.
LEMMA ClaimsOfReport ==
  ASSUME InputsTyped, NEW K, NEW L, NEW n \in Nat, Claims(K, n), NEW all, NEW index, NEW Q,
         K["windows_all"] = {all}, K["raw_index"] = {index},
         L["quality_report"] \subseteq K["quality_report"] \cup {Q},
         \A f \in ReportFiles \ {"quality_report"} : L[f] \subseteq K[f],
         Q.index = index.build, Q.origin.build = all.build, Q.origin.split = all.split,
         Q.errors = quality_errors(all.rows, index.rows), Q.warnings = quality_warnings(all.rows)
  PROVE  Claims(L, n + 1)
<1> DEFINE k == n + 1
<1>1. k \in Nat /\ 0 .. n \subseteq 0 .. k /\ 1 .. n \subseteq 1 .. k
  OBVIOUS
<1> HIDE DEF k
<1>2. /\ "raw_index" \in ReportFiles \ {"quality_report"}
      /\ "windows_all" \in ReportFiles \ {"quality_report"}
      /\ SplitFiles \subseteq ReportFiles \ {"quality_report"}
      /\ "windows_train" \in SplitFiles /\ "windows_val" \in SplitFiles
      /\ "windows_test" \in SplitFiles
  BY PartFiles DEF ReportFiles
<1>3. /\ \A i \in L["raw_index"] : i = index
      /\ \A a \in L["windows_all"] : a = all
      /\ \A q \in L["quality_report"] : q = Q \/ q \in K["quality_report"]
      /\ \A f \in SplitFiles : \A t \in L[f] : t \in K[f]
      /\ index \in K["raw_index"] /\ all \in K["windows_all"]
  BY <1>2
<1>4. StampsUpTo(K, n) /\ IndexTrue(K) /\ NoErrorsTrue(K) /\ NoWarningsTrue(K)
  BY DEF Claims
<1>5. StampsUpTo(L, k)
  BY <1>1, <1>3, <1>4 DEF StampsUpTo
<1>6. IndexTrue(L)
  BY <1>3, <1>4 DEF IndexTrue
<1>7. ASSUME Q.errors = {}, NEW e \in DOMAIN index.rows, index.rows[e].included,
             artifacts[e].events # {}
      PROVE  Explained(e, all.rows)
  <2> DEFINE P == index.rows[e].primary
             E == artifacts[e].events
  <2>0. artifacts[e] \in Artifact
    BY <1>3, <1>4, <1>7 DEF IndexTrue, InputsTyped, Inputs
  <2>1. P = scenario_to_label(artifacts[e]) /\ E # {} /\ Normal \notin E
    BY <1>3, <1>4, <1>7, <2>0 DEF IndexTrue, Artifact
  <2>2. P = E
    BY <2>1 DEF scenario_to_label
  <2>3. P # {Normal}
    BY <2>1, <2>2
  <2>4. quality_errors(all.rows, index.rows) = {}
    BY <1>7
  <2>5. /\ \E l \in LabelsIn(all.rows, e) \ {Normal} : P = {l}
        /\ HasRecovery(all.rows, e)
    <3>1. e \notin {d \in DOMAIN index.rows :
                      /\ index.rows[d].included
                      /\ index.rows[d].primary # {Normal}
                      /\ \/ ~\E l \in LabelsIn(all.rows, d) \ {Normal} : index.rows[d].primary = {l}
                         \/ ~HasRecovery(all.rows, d)}
      BY <2>4, Zenon DEF quality_errors
    <3> QED BY <1>7, <2>3, <3>1
  <2> QED BY <2>2, <2>5 DEF Explained
<1>8. NoErrorsTrue(L)
  <2>1. ASSUME NEW q \in L["quality_report"], NEW a \in L["windows_all"], NEW i \in L["raw_index"],
               q.errors = {}, a.whole, q.index = i.build, q.origin.build = a.build,
               NEW e \in DOMAIN i.rows, i.rows[e].included, artifacts[e].events # {}
        PROVE  Explained(e, a.rows)
    <3>1. a = all /\ i = index
      BY <1>3
    <3>2. CASE q = Q
      BY <1>7, <2>1, <3>1, <3>2
    <3>3. CASE q \in K["quality_report"]
      BY <1>3, <1>4, <2>1, <3>1, <3>3 DEF NoErrorsTrue
    <3> QED BY <1>3, <3>2, <3>3
  <2> QED BY <2>1 DEF NoErrorsTrue
<1>9. NoWarningsTrue(L)
  <2>1. \A s : FoundComplete(L, s) => FoundComplete(K, s)
    BY <1>3 DEF FoundComplete
  <2> QED BY <1>2, <1>3, <1>4, <2>1 DEF NoWarningsTrue
<1> QED BY <1>5, <1>6, <1>8, <1>9 DEF Claims, k

---------------------------------------------------------------------------
(* What a script that is launched is about to write.                       *)

OutputClaims(files, W, n) ==
    Claims(Known(files, W), n) /\ ReportedStays(files, W) /\ WindowsFirst(files, W)

\* What a report may still say between two scripts.
ReportOK(files, n) == Claims(Known(files, << >>), n) /\ ReportedStays(files, << >>)

LEMMA NothingPending ==
  /\ \A f : Pending(<< >>, f) = {}
  /\ \A files, W : \A f \in ReportFiles :
        Known(files, W)[f] = ({files[f]} \cup Pending(W, f)) \ {Absent, Unreadable}
<1>1. \A f : Pending(<< >>, f) = {}
  BY DEF Pending
<1> QED BY <1>1 DEF Known

LEMMA NamesOfReports ==
  /\ "raw_index" \in ReportFiles /\ "windows_all" \in ReportFiles
  /\ "quality_report" \in ReportFiles /\ SplitFiles \subseteq ReportFiles
  /\ {"raw_index", "windows_all", "quality_report"} \cap SplitFiles = {}
  /\ ReportFiles \subseteq FileNames \ RawFiles
<1>1. ReportFiles \ SplitFiles \subseteq FileNames \ RawFiles
  BY WrittenFiles DEF ReportFiles, WrittenBy, Program
<1>2. SplitFiles \subseteq FileNames \ RawFiles
  BY PartFiles DEF RawFiles
<1> QED BY <1>1, <1>2, PartFiles DEF ReportFiles

\* A script that writes none of these files.
LEMMA ClaimsOfOthers ==
  ASSUME NEW files, NEW n \in Nat, ReportOK(files, n), NEW p, NEW W, IsSeq(W),
         SoundWrites(p, ToSet(W)), WrittenBy[p] \cap ReportFiles = {}
  PROVE  OutputClaims(files, W, n + 1)
<1>1. \A f \in ReportFiles : Pending(W, f) = {}
  BY NonePending
<1>2. \A f \in ReportFiles : Known(files, W)[f] = Known(files, << >>)[f]
  <2>1. \A f \in ReportFiles : Pending(W, f) = Pending(<< >>, f)
    BY <1>1, NothingPending
  <2> QED BY <2>1 DEF Known
<1>3. \A f \in ReportFiles : Known(files, W)[f] \subseteq Known(files, << >>)[f]
  BY <1>2
<1>4. n + 1 \in Nat /\ n <= n + 1
  OBVIOUS
<1>5. Claims(Known(files, << >>), n) /\ ReportedStays(files, << >>)
  BY DEF ReportOK
<1> DEFINE k == n + 1
<1> HIDE DEF k
<1>6. Claims(Known(files, W), k)
  BY <1>3, <1>4, <1>5, ClaimsOfFewer DEF k
<1>7. ReportedStays(files, W)
  BY <1>1, <1>2, <1>5, NamesOfReports DEF ReportedStays
<1>8. WindowsFirst(files, W)
  <2>1. \A i \in 1 .. Len(W) : W[i].file \in WrittenBy[p]
    BY DEF IsSeq, ToSet, SoundWrites
  <2> QED BY <2>1, NamesOfReports DEF WindowsFirst
<1> QED BY <1>6, <1>7, <1>8 DEF OutputClaims, k

\* A build: an index of all its experiments, then windows that are not split.
LEMMA BuildClaims ==
  ASSUME InputsTyped, NEW files, NEW n \in Nat, ReportOK(files, n)
  PROVE  OutputClaims(files, Build(artifacts, selection, n + 1).writes, n + 1)
<1> DEFINE k == n + 1
           W == Build(artifacts, selection, k).writes
           included == ToSet(selection.included)
           exps == {e \in included : IncludedStatus(artifacts, selection.excluded, e)}
           rows == windows_rows(artifacts, exps)
           I == [build |-> k, rows |-> raw_index_rows(artifacts, selection.excluded, included)]
           A == [build |-> k, split |-> 0, whole |-> TRUE, rows |-> rows]
           of == [build |-> k, included |-> included, count |-> Len(rows)]
           a == Put("raw_index", I)
           b == Put("windows_all", A)
           c == Put("dataset_manifest", of)
           K == Known(files, << >>)
           L == Known(files, W)
<1>0. k \in Nat
  OBVIOUS
<1>1. W = << >> \/ W = <<a>> \/ W = <<a, b, c>>
  BY Zenon DEF Build
<1>2. /\ I.build = k /\ I \notin {Absent, Unreadable}
      /\ A.build = k /\ A.split = 0 /\ A \notin {Absent, Unreadable}
  <2> HIDE DEF rows, included, exps, k
  <2> QED BY DEF Absent, Unreadable
<1>3. /\ a.file = "raw_index" /\ a.content = I
      /\ b.file = "windows_all" /\ b.content = A
      /\ c.file = "dataset_manifest"
  BY DEF Put
<1>4. \A e \in DOMAIN I.rows :
         e \in DOMAIN artifacts /\ I.rows[e].primary = scenario_to_label(artifacts[e])
  <2>1. included \subseteq DOMAIN artifacts
    BY Listed DEF InputsTyped, Inputs
  <2>2. I.rows = raw_index_rows(artifacts, selection.excluded, included)
    OBVIOUS
  <2> HIDE DEF included, I
  <2> QED BY <2>1, <2>2 DEF raw_index_rows
<1>5. Claims(K, n) /\ ReportedStays(files, << >>)
  BY DEF ReportOK
<1> HIDE DEF a, b, c, I, A, of, rows, W, k
<1>6. /\ W = << >> => Len(W) = 0
      /\ W = <<a>> => Len(W) = 1 /\ W[1] = a
      /\ W = <<a, b, c>> => Len(W) = 3 /\ W[1] = a /\ W[2] = b /\ W[3] = c
  OBVIOUS
<1>7. /\ 1 .. 0 = {} /\ 1 .. 1 = {1} /\ 1 .. 3 = {1, 2, 3}
      /\ 1 .. (2 - 1) = {1}
  OBVIOUS
<1>8. \A i \in 1 .. Len(W) :
         \/ i = 1 /\ W[i].file = "raw_index" /\ W[i].content = I
         \/ i = 2 /\ W[1].file = "raw_index" /\ W[i].file = "windows_all" /\ W[i].content = A
         \/ W[i].file = "dataset_manifest"
  BY <1>1, <1>3, <1>6, <1>7
<1>9. /\ Pending(W, "raw_index") \subseteq {I}
      /\ Pending(W, "windows_all") \subseteq {A}
      /\ \A f \in ReportFiles \ {"raw_index", "windows_all"} : Pending(W, f) = {}
  BY <1>8 DEF Pending, ReportFiles, SplitFiles, PartNames, Splits
<1>10. /\ L["raw_index"] \subseteq K["raw_index"] \cup {I}
       /\ L["windows_all"] \subseteq K["windows_all"] \cup {A}
       /\ L["quality_report"] \subseteq K["quality_report"]
       /\ \A f \in SplitFiles : L[f] \subseteq K[f]
  BY <1>9, NothingPending, NamesOfReports DEF Known
<1> HIDE DEF K, L
<1>11. Claims(L, k)
  BY <1>2, <1>4, <1>5, <1>10, ClaimsOfBuild DEF k
<1>12. ReportedStays(files, W)
  <2>1. L["quality_report"] # {} => K["quality_report"] # {}
    BY <1>10
  <2>2. \A f \in {"raw_index", "windows_all"} : Pending(W, f) \cap {Absent, Unreadable} = {}
    BY <1>2, <1>9
  <2> QED BY <1>5, <2>1, <2>2 DEF ReportedStays, K, L
<1>13. WindowsFirst(files, W)
  <2>1. \A f \in SplitFiles : files[f] \in {Absent, Unreadable} \/ files[f] \in K[f]
    BY NamesOfReports DEF K, Known
  <2>2. \A f \in SplitFiles : \A t \in K[f] : t.split \in 1 .. n
    BY <1>5 DEF Claims, StampsUpTo
  <2>3. 0 \notin 1 .. n
    OBVIOUS
  <2>4. \A f \in SplitFiles : files[f] \in {Absent, Unreadable} \/ files[f].split # A.split
    BY <1>2, <2>1, <2>2, <2>3
  <2>5. ASSUME NEW i \in 1 .. Len(W), W[i].file = "windows_all"
        PROVE  W[i].content = A /\ \A j \in 1 .. i - 1 : W[j].file \notin SplitFiles
    <3>1. i = 2 /\ W[1].file = "raw_index" /\ W[i].content = A
      BY <1>8, <2>5
    <3>2. \A j \in 1 .. i - 1 : j = 1
      BY <3>1
    <3> QED BY <3>1, <3>2, NamesOfReports
  <2> QED BY <2>4, <2>5 DEF WindowsFirst
<1> QED BY <1>11, <1>12, <1>13 DEF OutputClaims, W, L, k

\* A report: what it finds in the index and the windows that it reads.
LEMMA ReportClaims ==
  ASSUME InputsTyped, NEW files, NEW n \in Nat, ReportOK(files, n)
  PROVE  OutputClaims(files, Report(files, n + 1).writes, n + 1)
<1> DEFINE k == n + 1
           W == Report(files, k).writes
           all == files["windows_all"]
           index == files["raw_index"]
           origin == [report |-> k, build |-> all.build, split |-> all.split]
           Q == [origin |-> origin, index |-> index.build,
                 errors |-> quality_errors(all.rows, index.rows),
                 warnings |-> quality_warnings(all.rows)]
           K == Known(files, << >>)
           L == Known(files, W)
<1>1. PICK m :
        \/ W = << >>
        \/ /\ Readable(files, "windows_all") /\ Readable(files, "raw_index")
           /\ \/ W = <<Put("dataset_summary", origin), Put("quality_report", Q)>>
              \/ W = Append(<<Put("dataset_summary", origin), Put("quality_report", Q)>>,
                            Put("dataset_manifest", m))
  BY Zenon DEF Report
<1> DEFINE a == Put("dataset_summary", origin)
           b == Put("quality_report", Q)
           c == Put("dataset_manifest", m)
<1>2. \/ W = << >>
      \/ /\ Readable(files, "windows_all") /\ Readable(files, "raw_index")
         /\ W = <<a, b>> \/ W = <<a, b, c>>
  <2>1. Append(<<a, b>>, c) = <<a, b, c>>
    <3> HIDE DEF a, b, c
    <3> QED BY ShortJoins
  <2> QED BY <1>1, <2>1
<1>3. /\ a.file = "dataset_summary" /\ b.file = "quality_report" /\ b.content = Q
      /\ c.file = "dataset_manifest"
      /\ Q.index = index.build /\ Q.origin.build = all.build /\ Q.origin.split = all.split
      /\ Q.errors = quality_errors(all.rows, index.rows) /\ Q.warnings = quality_warnings(all.rows)
  BY DEF Put
<1>4. Claims(K, n) /\ ReportedStays(files, << >>)
  BY DEF ReportOK
<1> HIDE DEF a, b, c, Q, origin, W, all, index, k
<1>5. /\ W = << >> => Len(W) = 0
      /\ W = <<a, b>> => Len(W) = 2 /\ W[1] = a /\ W[2] = b
      /\ W = <<a, b, c>> => Len(W) = 3 /\ W[1] = a /\ W[2] = b /\ W[3] = c
  OBVIOUS
<1>6. 1 .. 0 = {} /\ 1 .. 2 = {1, 2} /\ 1 .. 3 = {1, 2, 3}
  OBVIOUS
<1>7. \A i \in 1 .. Len(W) :
         \/ W[i].file = "quality_report" /\ W[i].content = Q
         \/ W[i].file \in {"dataset_summary", "dataset_manifest"}
  BY <1>2, <1>3, <1>5, <1>6
<1>8. /\ Pending(W, "quality_report") \subseteq {Q}
      /\ \A f \in ReportFiles \ {"quality_report"} : Pending(W, f) = {}
  BY <1>7 DEF Pending, ReportFiles, SplitFiles, PartNames, Splits
<1>9. /\ L["quality_report"] \subseteq K["quality_report"] \cup {Q}
      /\ \A f \in ReportFiles \ {"quality_report"} : L[f] \subseteq K[f]
  BY <1>8, NothingPending, NamesOfReports DEF Known
<1>10. WindowsFirst(files, W)
  BY <1>7 DEF WindowsFirst
<1>11. CASE W = << >>
  <2>1. \A f \in ReportFiles : Pending(W, f) = {}
    BY <1>11, NothingPending
  <2>2. \A f \in ReportFiles : L[f] \subseteq K[f]
    BY <1>11
  <2>3. Claims(L, k)
    <3>1. k \in Nat /\ n <= k
      BY DEF k
    <3> HIDE DEF K, L
    <3> QED BY <1>4, <2>2, <3>1, ClaimsOfFewer
  <2>4. ReportedStays(files, W)
    BY <1>4, <1>11
  <2> QED BY <1>10, <2>3, <2>4 DEF OutputClaims, W, k
<1>12. CASE Readable(files, "windows_all") /\ Readable(files, "raw_index")
  <2>1. K["windows_all"] = {all} /\ K["raw_index"] = {index}
    BY <1>12, NothingPending, NamesOfReports DEF Known, Readable, all, index
  <2>2. ReportedStays(files, W)
    BY <1>8, <1>12, NamesOfReports DEF ReportedStays, Readable
  <2> HIDE DEF K, L
  <2>3. Claims(L, k)
    BY <1>3, <1>4, <1>9, <2>1, ClaimsOfReport DEF k
  <2> QED BY <1>10, <2>2, <2>3 DEF OutputClaims, W, L, k
<1> QED BY <1>2, <1>11, <1>12

\* The rows of the parts are those of the list, each with the split it is in.
LEMMA RowsOfParts ==
  ASSUME NEW rows \in Seq(WindowRow)
  PROVE  LET all == UpdatedRows(rows)
         IN  /\ \A e : HasRecovery(rows, e) => HasRecovery(all, e)
             /\ \A s \in Splits : FaultsOf(PartOf(rows, s)) \subseteq FaultsOf(all)
             /\ \A s \in Splits : \A i \in DOMAIN all :
                   all[i].split = s /\ all[i].label # Normal => all[i].label \in FaultsOf(PartOf(rows, s))
<1> DEFINE all == UpdatedRows(rows)
           row(i, s) == [rows[i] EXCEPT !.split = s]
           places(s) == {j \in DOMAIN rows : rows[j].exp \in SplitExps(rows, s)}
<1>1. ToSet(all) = UNION {ToSet(PartOf(rows, s)) : s \in Splits}
  <2> DEFINE a == PartOf(rows, "train")
             b == PartOf(rows, "val")
             c == PartOf(rows, "test")
  <2>1. IsSeq(a) /\ IsSeq(b) /\ IsSeq(c)
    BY RowsOfSplitTyped, Listed DEF PartOf, Splits
  <2>2. all = (a \o b) \o c
    BY DEF UpdatedRows
  <2> HIDE DEF a, b, c, all
  <2>3. ToSet(all) = (ToSet(a) \cup ToSet(b)) \cup ToSet(c)
    <3>1. IsSeq(a \o b) /\ ToSet(a \o b) = ToSet(a) \cup ToSet(b)
      BY <2>1, Joined2
    <3> QED BY <2>1, <2>2, <3>1, Joined2
  <2> QED BY <2>3 DEF a, b, c, Splits
<1>2. \A s \in Splits : ToSet(PartOf(rows, s)) = {row(i, s) : i \in places(s)}
  BY RowsOfSplitTyped DEF PartOf
<1>3. \A i \in DOMAIN rows, s \in Splits :
         /\ row(i, s).exp = rows[i].exp /\ row(i, s).recovery = rows[i].recovery
         /\ row(i, s).split = s
  <2> TAKE i \in DOMAIN rows, s \in Splits
  <2> DEFINE r == rows[i]
  <2>1. r \in WindowRow
    BY Element
  <2> HIDE DEF r
  <2>2. LET q == [r EXCEPT !.split = s]
        IN  q.exp = r.exp /\ q.recovery = r.recovery /\ q.split = s
    BY <2>1 DEF WindowRow
  <2> QED BY <2>2 DEF r
<1>4. \A i \in DOMAIN rows : \E s \in Splits : i \in places(s)
  <2> TAKE i \in DOMAIN rows
  <2> DEFINE e == rows[i].exp
  <2>1. e \in ExperimentsOf(rows)
    BY DEF ExperimentsOf
  <2>2. Assignments(rows)[e] \in Splits /\ e \in DOMAIN Assignments(rows)
    BY <2>1, GroupsOf, GroupShares DEF Assignments
  <2> QED BY <2>2 DEF SplitExps
<1>5. \A s : places(s) \subseteq DOMAIN rows
  OBVIOUS
<1> HIDE DEF all, row, places
<1>6. \A e : HasRecovery(rows, e) => HasRecovery(all, e)
  <2> SUFFICES ASSUME NEW e, NEW i \in DOMAIN rows, rows[i].exp = e, rows[i].recovery
               PROVE  HasRecovery(all, e)
    BY DEF HasRecovery
  <2>1. PICK s \in Splits : i \in places(s)
    BY <1>4
  <2>2. row(i, s) \in ToSet(all)
    BY <1>1, <1>2, <2>1
  <2>3. row(i, s).exp = e /\ row(i, s).recovery
    BY <1>3
  <2> QED BY <2>2, <2>3 DEF HasRecovery, ToSet
<1>7. \A s \in Splits : \A r \in ToSet(PartOf(rows, s)) : r.split = s /\ r \in ToSet(all)
  BY <1>1, <1>2, <1>3, <1>5
<1>8. \A r \in ToSet(all) : \E s \in Splits : r \in ToSet(PartOf(rows, s)) /\ r.split = s
  BY <1>1, <1>7
<1>9. \A q, l : l \in FaultsOf(q) <=> l # Normal /\ \E r \in ToSet(q) : r.label = l
  BY DEF FaultsOf, LabelsOf, ToSet
<1>10. \A s \in Splits : FaultsOf(PartOf(rows, s)) \subseteq FaultsOf(all)
  BY <1>7, <1>9
<1>11. ASSUME NEW s \in Splits, NEW i \in DOMAIN all, all[i].split = s, all[i].label # Normal
       PROVE  all[i].label \in FaultsOf(PartOf(rows, s))
  <2>1. all[i] \in ToSet(all)
    BY DEF ToSet
  <2>2. all[i] \in ToSet(PartOf(rows, s))
    BY <1>8, <1>11, <2>1
  <2> QED BY <1>9, <1>11, <2>2
<1> QED BY <1>6, <1>10, <1>11 DEF all

\* A split: all windows first, with their split, then the parts.
LEMMA SplitClaims ==
  ASSUME NEW files, SoundFiles(files), NEW n \in Nat, ReportOK(files, n)
  PROVE  OutputClaims(files, Split(files, n + 1).writes, n + 1)
<1> DEFINE k == n + 1
           W == Split(files, k).writes
           all == files["windows_all"]
           rows == all.rows
           A == [build |-> all.build, split |-> k, whole |-> all.whole, rows |-> UpdatedRows(rows)]
           y(s) == [split |-> k, whole |-> TRUE, rows |-> PartOf(rows, s)]
           parts == [f \in SplitFiles |-> IF f = "windows_train" THEN y("train")
                                          ELSE IF f = "windows_val" THEN y("val") ELSE y("test")]
           a == Put("windows_all", [all EXCEPT !.split = k, !.rows = UpdatedRows(rows)])
           b == Put("windows_train", y("train"))
           c == Put("windows_val", y("val"))
           d == Put("windows_test", y("test"))
           e == Put("splits", [split |-> k, assignments |-> Assignments(rows)])
           K == Known(files, << >>)
           L == Known(files, W)
<1>0. k \in Nat /\ k \notin 1 .. n
  OBVIOUS
<1>1. Claims(K, n) /\ ReportedStays(files, << >>)
  BY DEF ReportOK
<1>2. W = << >> \/ (Readable(files, "windows_all") /\ W = SplitPlan(all, k))
  BY SplitWrites
<1>3. CASE W = << >>
  <2>1. Claims(Known(files, << >>), k)
    <3>1. \A f \in ReportFiles : K[f] \subseteq K[f]
      OBVIOUS
    <3>2. k \in Nat /\ n <= k
      OBVIOUS
    <3> HIDE DEF K, k
    <3>3. Claims(K, k)
      BY <1>1, <3>1, <3>2, ClaimsOfFewer
    <3> QED BY <3>3 DEF K
  <2>2. WindowsFirst(files, << >>)
    BY DEF WindowsFirst
  <2> HIDE DEF W, k
  <2>3. OutputClaims(files, W, k)
    BY <1>1, <1>3, <2>1, <2>2 DEF OutputClaims
  <2> QED BY <2>3 DEF W, k
<1>4. CASE Readable(files, "windows_all") /\ W = SplitPlan(all, k)
  <2>1. all \in AllWindows
    BY <1>4, CheckedFiles DEF SoundFiles, Sound, Readable, Checked, FileNames
  <2>2. rows \in Seq(WindowRow)
    BY <2>1 DEF AllWindows
  <2>3. [all EXCEPT !.split = k, !.rows = UpdatedRows(rows)] = A
    <3> HIDE DEF k
    <3> QED BY <1>0, <2>1, PlanOfSplit
  <2>4. W = <<a, b, c, d, e>>
    BY <1>4 DEF SplitPlan, PartFile, PartNames
  <2>5. /\ a.file = "windows_all" /\ b.file = "windows_train" /\ c.file = "windows_val"
        /\ d.file = "windows_test" /\ e.file = "splits" /\ a.content = A
        /\ b.content = y("train") /\ c.content = y("val") /\ d.content = y("test")
    BY <2>3 DEF Put
  <2>6. /\ parts["windows_train"] = y("train") /\ parts["windows_val"] = y("val")
        /\ parts["windows_test"] = y("test")
    <3> HIDE DEF y
    <3> QED BY PartFiles
  <2>7. /\ A.build = all.build /\ A.whole = all.whole /\ A.split = k /\ A.rows = UpdatedRows(rows)
        /\ A \notin {Absent, Unreadable}
        /\ \A s : y(s).split = k /\ y(s).rows = PartOf(rows, s)
    <3> HIDE DEF k, rows
    <3> QED BY DEF Absent, Unreadable
  <2> HIDE DEF a, b, c, d, e, A, y, parts, W, rows, k, all
  <2>8. /\ Len(W) = 5 /\ W[1] = a /\ W[2] = b /\ W[3] = c /\ W[4] = d /\ W[5] = e
        /\ 1 .. 5 = {1, 2, 3, 4, 5}
    BY <2>4
  <2>9. \A i \in 1 .. Len(W) :
           \/ i = 1 /\ W[i].file = "windows_all" /\ W[i].content = A
           \/ W[i].file \in SplitFiles /\ W[i].content = parts[W[i].file]
           \/ W[i].file = "splits"
    BY <2>5, <2>6, <2>8, PartFiles
  <2>10. /\ Pending(W, "windows_all") \subseteq {A}
         /\ Pending(W, "raw_index") = {} /\ Pending(W, "quality_report") = {}
         /\ \A f \in SplitFiles : Pending(W, f) \subseteq {parts[f]}
    BY <2>9, PartFiles DEF Pending
  <2>11. /\ L["raw_index"] \subseteq K["raw_index"]
         /\ L["windows_all"] \subseteq K["windows_all"] \cup {A}
         /\ L["quality_report"] \subseteq K["quality_report"]
         /\ \A f \in SplitFiles : L[f] \subseteq K[f] \cup {parts[f]}
    BY <2>10, NothingPending, NamesOfReports DEF Known
  <2>12. \A f \in SplitFiles : parts[f].split = k
    BY <2>6, <2>7, PartFiles
  <2>13. all \in K["windows_all"]
    BY <1>4, NamesOfReports DEF Known, Readable, all
  <2>14. \A x : Explained(x, all.rows) => Explained(x, A.rows)
    <3>1. \A x : HasRecovery(rows, x) => HasRecovery(A.rows, x)
      BY <2>2, <2>7, RowsOfParts
    <3>2. \A x : LabelsIn(A.rows, x) = LabelsIn(rows, x)
      BY <2>2, <2>7, RowsKept
    <3> QED BY <3>1, <3>2 DEF Explained, rows
  <2>15. ASSUME quality_warnings(A.rows) = {}, NEW f \in {"windows_val", "windows_test"}
         PROVE  FaultsOf(parts["windows_train"].rows) \subseteq FaultsOf(parts[f].rows)
    <3> DEFINE s == IF f = "windows_val" THEN "val" ELSE "test"
    <3>1. /\ parts["windows_train"].rows = PartOf(rows, "train") /\ parts[f].rows = PartOf(rows, s)
          /\ s \in Splits /\ "train" \in Splits /\ s \in {"test", "val"}
      BY <2>6, <2>7 DEF Splits
    <3> HIDE DEF s
    <3> SUFFICES ASSUME NEW l \in FaultsOf(PartOf(rows, "train"))
                 PROVE  l \in FaultsOf(PartOf(rows, s))
      BY <3>1
    <3>2. l \in FaultsOf(A.rows)
      BY <2>2, <2>7, <3>1, RowsOfParts
    <3>3. l # Normal /\ l \in {A.rows[i].label : i \in DOMAIN A.rows} \ {Normal}
      BY <3>2 DEF FaultsOf, LabelsOf
    <3>4. PICK i \in DOMAIN A.rows : A.rows[i].label = l /\ A.rows[i].split = s
      <4> DEFINE p == <<l, s>>
      <4>1. p \in ({A.rows[i].label : i \in DOMAIN A.rows} \ {Normal}) \X {"test", "val"}
            /\ p[1] = l /\ p[2] = s
        BY <3>1, <3>3
      <4> HIDE DEF p
      <4>2. \E i \in DOMAIN A.rows : A.rows[i].label = p[1] /\ A.rows[i].split = p[2]
        BY <2>15, <4>1 DEF quality_warnings
      <4> QED BY <4>1, <4>2
    <3> QED BY <2>2, <2>7, <3>1, <3>3, <3>4, RowsOfParts
  <2> HIDE DEF K, L
  <2>16. Claims(L, k)
    <3>1. \A f \in SplitFiles :
             L[f] \subseteq K[f] \cup {parts[f]} /\ parts[f].split = n + 1
      BY <2>11, <2>12 DEF k
    <3>2. A.split = n + 1
      BY <2>7 DEF k
    <3>3. SplitOf(K, L, n, all, A, parts)
      BY <2>7, <2>11, <2>13, <2>14, <2>15, <3>1, <3>2 DEF SplitOf
    <3>4. Claims(L, n + 1)
      BY <1>1, <3>3, ClaimsOfSplit
    <3> QED BY <3>4 DEF k
  <2>17. ReportedStays(files, W)
    <3>1. L["quality_report"] # {} => K["quality_report"] # {}
      BY <2>11
    <3>2. \A f \in {"raw_index", "windows_all"} : Pending(W, f) \cap {Absent, Unreadable} = {}
      BY <2>7, <2>10
    <3> QED BY <1>1, <3>1, <3>2 DEF ReportedStays, K, L
  <2>18. WindowsFirst(files, W)
    <3>1. \A f \in SplitFiles : files[f] \in {Absent, Unreadable} \/ files[f] \in K[f]
      BY NamesOfReports DEF K, Known
    <3>2. \A f \in SplitFiles : \A t \in K[f] : t.split # k
      BY <1>0, <1>1 DEF Claims, StampsUpTo
    <3>3. ASSUME NEW i \in 1 .. Len(W), W[i].file = "windows_all"
          PROVE  W[i].content.split = k /\ 1 .. i - 1 = {}
      BY <2>7, <2>9, <3>3, NamesOfReports
    <3> QED BY <3>1, <3>2, <3>3 DEF WindowsFirst
  <2>19. OutputClaims(files, W, k)
    BY <2>16, <2>17, <2>18 DEF OutputClaims, L
  <2> QED BY <2>19 DEF W, k
<1> QED BY <1>2, <1>3, <1>4

LEMMA OutputReports ==
  ASSUME InputsTyped, NEW p \in Program, NEW files, NEW n \in Nat, NEW score,
         FilesSound(files, n), ScoreTyped(p, score), ReportOK(files, n)
  PROVE  OutputClaims(files, Output(p, files, score, n + 1).writes, n + 1)
<1> DEFINE W == Output(p, files, score, n + 1).writes
<1>1. CASE p = "build"
  BY <1>1, BuildClaims DEF Output
<1>2. CASE p = "split"
  BY <1>2, SplitClaims DEF Output, FilesSound
<1>3. CASE p = "report"
  BY <1>3, ReportClaims DEF Output
<1>4. CASE p \notin {"build", "split", "report"}
  <2>1. IsSeq(W) /\ SoundWrites(p, ToSet(W))
    BY OutputSound
  <2>2. WrittenBy[p] \cap ReportFiles = {}
    BY <1>4, PartFiles DEF Program, WrittenBy, ReportFiles
  <2> HIDE DEF W
  <2>3. OutputClaims(files, W, n + 1)
    BY <2>1, <2>2, ClaimsOfOthers
  <2> QED BY <2>3 DEF W
<1> QED BY <1>1, <1>2, <1>3, <1>4

\* When it has written all of them.
LEMMA ReportsAfter ==
  ASSUME NEW files, SoundFiles(files), NEW W, IsSeq(W), NEW n \in Nat, OutputClaims(files, W, n)
  PROVE  ReportOK(AfterWrites(files, W), n)
<1> DEFINE new == AfterWrites(files, W)
<1>1. \A f \in ReportFiles : new[f] = files[f] \/ new[f] \in Pending(W, f)
  <2> SUFFICES ASSUME NEW f \in ReportFiles PROVE new[f] = files[f] \/ new[f] \in Pending(W, f)
    OBVIOUS
  <2>1. f \in DOMAIN files
    BY NamesOfReports DEF SoundFiles
  <2>2. CASE \E w \in ToSet(W) : w.file = f /\ new[f] = w.content
    <3>1. \E i \in 1 .. Len(W) : W[i].file = f /\ new[f] = W[i].content
      BY <2>2 DEF ToSet, IsSeq
    <3> HIDE DEF new
    <3> QED BY <3>1 DEF Pending
  <2> QED BY <2>1, <2>2, AfterWritesOf
<1> HIDE DEF new
<1>2. \A f \in ReportFiles : Known(new, << >>)[f] \subseteq Known(files, W)[f]
  BY <1>1, NothingPending DEF Known
<1>3. Claims(Known(new, << >>), n)
  BY <1>2, ClaimsOfFewer DEF OutputClaims
<1>4. ReportedStays(new, << >>)
  <2>1. ASSUME Known(new, << >>)["quality_report"] # {}, NEW f \in {"raw_index", "windows_all"}
        PROVE  new[f] \notin {Absent, Unreadable}
    <3>1. Known(files, W)["quality_report"] # {}
      BY <1>2, <2>1, NamesOfReports
    <3>2. files[f] \notin {Absent, Unreadable} /\ Pending(W, f) \cap {Absent, Unreadable} = {}
      BY <3>1 DEF OutputClaims, ReportedStays
    <3> QED BY <1>1, <2>1, <3>2, NamesOfReports
  <2> QED BY <2>1, NothingPending DEF ReportedStays
<1> QED BY <1>3, <1>4 DEF ReportOK, new

LEMMA NoReports == ReportOK(NoFiles, 0)
<1>1. \A f \in ReportFiles : NoFiles[f] = Absent
  <2>1. ReportFiles \subseteq PlainFiles
    BY PartFiles DEF ReportFiles, PlainFiles, WindowFiles
  <2> QED BY <2>1 DEF NoFiles
<1> DEFINE K == Known(NoFiles, << >>)
<1>2. \A f \in ReportFiles : K[f] = {}
  BY <1>1, NothingPending DEF Known
<1> HIDE DEF K
<1>3. Claims(K, 0)
  <2>1. K["raw_index"] = {} /\ K["windows_all"] = {} /\ K["quality_report"] = {}
        /\ \A f \in SplitFiles : K[f] = {}
    BY <1>2, NamesOfReports
  <2>2. K["windows_train"] = {}
    BY <2>1, PartFiles
  <2> QED BY <2>1, <2>2
      DEF Claims, StampsUpTo, IndexTrue, NoErrorsTrue, NoWarningsTrue
<1>4. ReportedStays(NoFiles, << >>)
  BY <1>2, NothingPending, NamesOfReports DEF ReportedStays, K
<1> QED BY <1>3, <1>4 DEF ReportOK, K

---------------------------------------------------------------------------
(* What an export has copied.                                              *)

Producers == {"train", "generalization", "ablation"}
Exporters == {"phase4_export", "phase6_export"}

SourcesOf == [train |-> ToSet(Phase4Sources), generalization |-> GeneralizationSources,
              ablation |-> AblationSources]
KeyOf == [train |-> "run_manifest", generalization |-> "generalization_manifest",
          ablation |-> "ablation_manifest"]
ExporterOf == [train |-> "phase4_export", generalization |-> "phase6_export",
               ablation |-> "phase6_export"]
CopyOf == [phase4_export |-> "p4_source", phase6_export |-> "p6_source"]
ReadmeOf == [phase4_export |-> "p4_readme", phase6_export |-> "p6_readme"]

OfItsCopies(x, files) ==
    IF x = "phase4_export" THEN Phase4OfItsCopies(files) ELSE Phase6OfItsCopies(files)

\* The sources are all of the n-th launch.
Finished(p, files, n) ==
    \A f \in SourcesOf[p] : files[f] \notin {Absent, Unreadable} /\ files[f].stamp = n

FinishedOnce(p, files, n) ==
    (\E k \in 0 .. n : Finished(p, files, k)) \/ \A f \in SourcesOf[p] : files[f] = Absent

CopyFrom(p, files) == files[CopyOf[ExporterOf[p]]]
CopiedOfOne(p, files) == OfOneRun(SourcesOf[p], CopyFrom(p, files), KeyOf[p])
Exported(x, files) == files[ReadmeOf[x]] # Absent

StampOrNone(c, n) == c \in {Absent, Unreadable} \/ c.stamp \in 0 .. n

\* The files between two scripts, when none was stopped or failed half way.
ExportsOK(files, n) ==
    /\ \A p \in Producers :
          /\ FinishedOnce(p, files, n)
          /\ Exported(ExporterOf[p], files)
             => CopyFrom(p, files)[KeyOf[p]] \in 0 .. n /\ CopiedOfOne(p, files)
    /\ \A x \in Exporters : Exported(x, files) => OfItsCopies(x, files)

LEMMA SourceNames ==
  /\ SourcesOf["train"] = {"binary_metrics", "multiclass_metrics", "confusion",
        "binary_predictions", "multiclass_predictions", "feature_columns", "run_manifest",
        "baseline_summary"}
  /\ SourcesOf["generalization"] = {"generalization_metrics", "normal_binary_summary",
        "anomaly_binary_summary", "anomaly_multiclass_summary", "generalization_manifest"}
  /\ SourcesOf["ablation"] = {"ablation_metrics", "ablation_binary_summary",
        "ablation_multiclass_summary", "ablation_manifest"}
<1>1. SourcesOf["train"] = {Phase4Sources[i] : i \in 1 .. 8}
  BY DEF SourcesOf, ToSet, Phase4Sources
<1>2. \A i \in 1 .. 8 : i \in {1, 2, 3, 4, 5, 6, 7, 8}
  OBVIOUS
<1>3. \A i \in 1 .. 5 : i \in {1, 2, 3, 4, 5}
  OBVIOUS
<1>4. \A i \in 6 .. 9 : i \in {6, 7, 8, 9}
  OBVIOUS
<1>5. SourcesOf["train"] = {"binary_metrics", "multiclass_metrics", "confusion",
        "binary_predictions", "multiclass_predictions", "feature_columns", "run_manifest",
        "baseline_summary"}
  BY <1>1, <1>2 DEF Phase4Sources
<1>6. SourcesOf["generalization"] = {"generalization_metrics", "normal_binary_summary",
        "anomaly_binary_summary", "anomaly_multiclass_summary", "generalization_manifest"}
  BY <1>3 DEF SourcesOf, GeneralizationSources, Phase6Sources
<1>7. SourcesOf["ablation"] = {"ablation_metrics", "ablation_binary_summary",
        "ablation_multiclass_summary", "ablation_manifest"}
  BY <1>4 DEF SourcesOf, AblationSources, Phase6Sources
<1> QED BY <1>5, <1>6, <1>7

LEMMA ExportNames ==
  /\ \A p \in Producers : /\ p \in Program /\ KeyOf[p] \in SourcesOf[p]
                          /\ SourcesOf[p] \subseteq WrittenBy[p] /\ SourcesOf[p] \subseteq FileNames
                          /\ ExporterOf[p] \in Exporters
  /\ \A p \in Producers, q \in Program : q # p => WrittenBy[q] \cap SourcesOf[p] = {}
  /\ \A x \in Exporters : /\ x \in Program /\ x \notin Producers
                          /\ CopyOf[x] \in WrittenBy[x] /\ ReadmeOf[x] \in WrittenBy[x]
                          /\ WrittenBy[x] \subseteq FileNames
  /\ \A x \in Exporters, q \in Program : q # x => WrittenBy[q] \cap WrittenBy[x] = {}
<1>1. ASSUME NEW p \in Producers
      PROVE  /\ p \in Program /\ KeyOf[p] \in SourcesOf[p]
             /\ SourcesOf[p] \subseteq WrittenBy[p]
             /\ ExporterOf[p] \in Exporters
             /\ \A q \in Program \ {p} : WrittenBy[q] \cap WrittenBy[p] = {}
  <2>1. CASE p = "train"
    BY <2>1, SourceNames DEF Program, KeyOf, WrittenBy, ExporterOf, Exporters
  <2>2. CASE p = "generalization"
    BY <2>2, SourceNames DEF Program, KeyOf, WrittenBy, ExporterOf, Exporters
  <2>3. CASE p = "ablation"
    BY <2>3, SourceNames DEF Program, KeyOf, WrittenBy, ExporterOf, Exporters
  <2> QED BY <2>1, <2>2, <2>3 DEF Producers
<1>2. ASSUME NEW x \in Exporters
      PROVE  /\ x \in Program /\ x \notin Producers
             /\ CopyOf[x] \in WrittenBy[x] /\ ReadmeOf[x] \in WrittenBy[x]
             /\ \A q \in Program \ {x} : WrittenBy[q] \cap WrittenBy[x] = {}
  <2>1. CASE x = "phase4_export"
    BY <2>1 DEF Program, Producers, CopyOf, ReadmeOf, WrittenBy
  <2>2. CASE x = "phase6_export"
    BY <2>2 DEF Program, Producers, CopyOf, ReadmeOf, WrittenBy
  <2> QED BY <2>1, <2>2 DEF Exporters
<1>3. \A p \in Program : WrittenBy[p] \subseteq FileNames
  BY WrittenFiles
<1> QED BY <1>1, <1>2, <1>3

\* What is said of a producer and of an exporter depends on its files.
LEMMA ProducerSame ==
  ASSUME NEW p \in Producers, NEW files, NEW new, \A f \in SourcesOf[p] : new[f] = files[f]
  PROVE  /\ \A n : Finished(p, new, n) <=> Finished(p, files, n)
         /\ \A n : FinishedOnce(p, new, n) <=> FinishedOnce(p, files, n)
         /\ new[KeyOf[p]] = files[KeyOf[p]]
BY ExportNames DEF Finished, FinishedOnce

LEMMA ExporterSame ==
  ASSUME NEW x \in Exporters, NEW files, NEW new, \A f \in WrittenBy[x] : new[f] = files[f]
  PROVE  /\ Exported(x, new) <=> Exported(x, files)
         /\ OfItsCopies(x, new) <=> OfItsCopies(x, files)
         /\ \A p \in Producers : ExporterOf[p] = x => /\ CopyFrom(p, new) = CopyFrom(p, files)
                                                      /\ CopiedOfOne(p, new) <=> CopiedOfOne(p, files)
<1>1. new[CopyOf[x]] = files[CopyOf[x]] /\ new[ReadmeOf[x]] = files[ReadmeOf[x]]
  BY ExportNames
<1>2. OfItsCopies(x, new) <=> OfItsCopies(x, files)
  <2>1. CASE x = "phase4_export"
    BY <2>1 DEF OfItsCopies, Phase4OfItsCopies, WrittenBy
  <2>2. CASE x = "phase6_export"
    BY <2>2 DEF OfItsCopies, Phase6OfItsCopies, WrittenBy
  <2> QED BY <2>1, <2>2 DEF Exporters
<1> QED BY <1>1, <1>2 DEF Exported, CopyFrom, CopiedOfOne

---------------------------------------------------------------------------
(* What a producer writes.                                                 *)

\* Each of its results is of the launch.
Stamped(p, W, n) ==
    \A w \in ToSet(W) :
        w.file \in SourcesOf[p] => w.content \notin {Absent, Unreadable} /\ w.content.stamp = n

AllOfThem(p, W) == \A f \in SourcesOf[p] : \E w \in ToSet(W) : w.file = f

LEMMA FinishedAfter ==
  ASSUME NEW p \in Producers, NEW files, SoundFiles(files), NEW W, IsSeq(W), NEW n,
         Stamped(p, W, n), AllOfThem(p, W)
  PROVE  Finished(p, AfterWrites(files, W), n)
<1> DEFINE new == AfterWrites(files, W)
<1> SUFFICES ASSUME NEW f \in SourcesOf[p]
             PROVE  new[f] \notin {Absent, Unreadable} /\ new[f].stamp = n
  BY DEF Finished
<1>1. f \in DOMAIN files
  BY ExportNames DEF SoundFiles
<1>2. \E w \in ToSet(W) : w.file = f
  BY DEF AllOfThem
<1>3. \E w \in ToSet(W) : w.file = f /\ new[f] = w.content
  BY <1>1, <1>2, AfterWritesOf
<1> HIDE DEF new
<1> QED BY <1>3 DEF Stamped

LEMMA TrainFinishes ==
  ASSUME NEW files, NEW score, NEW n
  PROVE  LET R == Train(files, score, n)
         IN  /\ Stamped("train", R.writes, n)
             /\ R.ok => AllOfThem("train", R.writes)
<1> DEFINE R == Train(files, score, n)
           W == R.writes
           output == [stamp |-> n]
           m == [run |-> n, columns |-> final_feature_columns(files["windows_train"].rows),
                 trained |-> ExperimentsOf(files["windows_train"].rows)]
           r == [stamp |-> n, columns |-> final_feature_columns(files["windows_train"].rows),
                 split |-> files["windows_train"].split,
                 best |-> [t \in Task |-> results_to_payload(t, score, n).best]]
           a == Put("binary_metrics", results_to_payload("binary", score, n))
           b == Put("multiclass_metrics", results_to_payload("multiclass", score, n))
           c == Put("confusion", output)
           d == Put("binary_predictions", output)
           e == Put("multiclass_predictions", output)
           f == Put("feature_columns", output)
           g == Put("run_manifest", r)
           h == Put("baseline_summary", output)
           i == Put("binary_models", files["binary_models"] \cup {m})
           j == Put("multiclass_models", files["multiclass_models"] \cup {m})
           k == Put("candidate_metrics", output)
           early == <<a, b, c, d>>
           late == <<e, f, g, h, i, j, k>>
<1>1. \/ W = << >> /\ R.ok = FALSE
      \/ W = early /\ R.ok = FALSE
      \/ W = early \o late
  BY Zenon DEF Train
<1>2. ToSet(early) = {a, b, c, d} /\ ToSet(late) = {e, f, g, h, i, j, k}
      /\ IsSeq(early) /\ IsSeq(late) /\ ToSet(<< >>) = {}
  <2> HIDE DEF a, b, c, d, e, f, g, h, i, j, k
  <2> QED BY Tuples
<1>3. ToSet(early \o late) = {a, b, c, d} \cup {e, f, g, h, i, j, k}
  <2> HIDE DEF early, late, a, b, c, d, e, f, g, h, i, j, k
  <2> QED BY <1>2, Joined2
<1>4. \A w \in {a, b, c, d} \cup {e, f, g, h, i, j, k} :
         w.file \in SourcesOf["train"]
         => w.content \notin {Absent, Unreadable} /\ w.content.stamp = n
  <2>1. \A w \in {a, b} : w.content \notin {Absent, Unreadable} /\ w.content.stamp = n
    BY DEF Put, results_to_payload, Absent, Unreadable
  <2>2. \A w \in {c, d, e, f, h, k} : w.content \notin {Absent, Unreadable} /\ w.content.stamp = n
    BY DEF Put, Absent, Unreadable
  <2>3. g.content \notin {Absent, Unreadable} /\ g.content.stamp = n
    BY DEF Put, Absent, Unreadable
  <2>4. i.file \notin SourcesOf["train"] /\ j.file \notin SourcesOf["train"]
    BY SourceNames DEF Put
  <2> HIDE DEF a, b, c, d, e, f, g, h, i, j, k
  <2> QED BY <2>1, <2>2, <2>3, <2>4
<1>5. \A s \in SourcesOf["train"] : \E w \in {a, b, c, d} \cup {e, f, g, h, i, j, k} : w.file = s
  <2>1. /\ a.file = "binary_metrics" /\ b.file = "multiclass_metrics" /\ c.file = "confusion"
        /\ d.file = "binary_predictions" /\ e.file = "multiclass_predictions"
        /\ f.file = "feature_columns" /\ g.file = "run_manifest" /\ h.file = "baseline_summary"
    BY DEF Put
  <2> HIDE DEF a, b, c, d, e, f, g, h, i, j, k
  <2> QED BY <2>1, SourceNames
<1> HIDE DEF R, early, late, a, b, c, d, e, f, g, h, i, j, k
<1>6. Stamped("train", W, n)
  BY <1>1, <1>2, <1>3, <1>4 DEF Stamped
<1>7. R.ok => AllOfThem("train", W)
  BY <1>1, <1>3, <1>5 DEF AllOfThem
<1> QED BY <1>6, <1>7 DEF R

LEMMA AblationFinishes ==
  ASSUME NEW files, NEW n
  PROVE  LET R == Ablation(files, n)
         IN  /\ Stamped("ablation", R.writes, n)
             /\ R.writes = << >> \/ (R.ok /\ AllOfThem("ablation", R.writes))
<1> DEFINE R == Ablation(files, n)
           W == R.writes
           r == [stamp |-> n, run |-> files["run_manifest"].stamp,
                 split |-> files["windows_train"].split,
                 columns |-> [v \in DOMAIN Group |->
                                build_variant_columns(files["run_manifest"].columns, v)]]
           a == Put("ablation_binary_summary", r)
           b == Put("ablation_multiclass_summary", r)
           c == Put("ablation_metrics", r)
           d == Put("ablation_manifest", r)
<1>1. W = << >> \/ (W = <<a, b, c, d>> /\ R.ok)
  BY Zenon DEF Ablation, AblationWrites
<1>2. ToSet(<<a, b, c, d>>) = {a, b, c, d} /\ ToSet(<< >>) = {}
  <2> HIDE DEF a, b, c, d
  <2> QED BY Tuples
<1>3. \A w \in {a, b, c, d} : w.content \notin {Absent, Unreadable} /\ w.content.stamp = n
  BY DEF Put, Absent, Unreadable
<1>4. \A s \in SourcesOf["ablation"] : \E w \in {a, b, c, d} : w.file = s
  <2>1. /\ a.file = "ablation_binary_summary" /\ b.file = "ablation_multiclass_summary"
        /\ c.file = "ablation_metrics" /\ d.file = "ablation_manifest"
    BY DEF Put
  <2> HIDE DEF a, b, c, d
  <2> QED BY <2>1, SourceNames
<1> HIDE DEF R, a, b, c, d
<1> QED BY <1>1, <1>2, <1>3, <1>4 DEF Stamped, AllOfThem, R

LEMMA GeneralizationFinishes ==
  ASSUME NEW files, NEW n
  PROVE  LET R == Generalization(files, n)
         IN  /\ Stamped("generalization", R.writes, n)
             /\ R.writes = << >> \/ (R.ok /\ AllOfThem("generalization", R.writes))
<1> DEFINE R == Generalization(files, n)
           W == R.writes
<1>1. PICK x, y :
        LET r == [stamp |-> n, binary |-> x, multiclass |-> y]
        IN  \/ W = << >>
            \/ /\ W = <<Put("scenario_predictions", r), Put("normal_binary_summary", r),
                        Put("anomaly_binary_summary", r), Put("anomaly_multiclass_summary", r),
                        Put("generalization_metrics", r), Put("generalization_manifest", r)>>
               /\ R.ok
  BY Zenon DEF Generalization
<1> DEFINE r == [stamp |-> n, binary |-> x, multiclass |-> y]
           a == Put("scenario_predictions", r)
           b == Put("normal_binary_summary", r)
           c == Put("anomaly_binary_summary", r)
           d == Put("anomaly_multiclass_summary", r)
           e == Put("generalization_metrics", r)
           f == Put("generalization_manifest", r)
<1>2. W = << >> \/ (W = <<a, b, c, d, e, f>> /\ R.ok)
  BY <1>1
<1>3. ToSet(<<a, b, c, d, e, f>>) = {a, b, c, d, e, f} /\ ToSet(<< >>) = {}
  <2> HIDE DEF a, b, c, d, e, f
  <2> QED BY Tuples
<1>4. \A w \in {a, b, c, d, e, f} : w.content \notin {Absent, Unreadable} /\ w.content.stamp = n
  BY DEF Put, Absent, Unreadable
<1>5. \A s \in SourcesOf["generalization"] : \E w \in {a, b, c, d, e, f} : w.file = s
  <2>1. /\ b.file = "normal_binary_summary" /\ c.file = "anomaly_binary_summary"
        /\ d.file = "anomaly_multiclass_summary" /\ e.file = "generalization_metrics"
        /\ f.file = "generalization_manifest"
    BY DEF Put
  <2> HIDE DEF a, b, c, d, e, f
  <2> QED BY <2>1, SourceNames
<1> HIDE DEF R, a, b, c, d, e, f
<1> QED BY <1>2, <1>3, <1>4, <1>5 DEF Stamped, AllOfThem, R

\* A training may fail half way, the other two do not.
LEMMA ProducerWrites ==
  ASSUME NEW p \in Producers, NEW files, NEW score, NEW n
  PROVE  LET R == Output(p, files, score, n)
         IN  /\ Stamped(p, R.writes, n)
             /\ R.writes # << >> => /\ R.ok => AllOfThem(p, R.writes)
                                    /\ p # "train" => R.ok
<1>1. CASE p = "train"
  BY <1>1, TrainFinishes DEF Output
<1>2. CASE p = "generalization"
  BY <1>2, GeneralizationFinishes DEF Output
<1>3. CASE p = "ablation"
  BY <1>3, AblationFinishes DEF Output
<1> QED BY <1>1, <1>2, <1>3 DEF Producers

---------------------------------------------------------------------------
(* What an exporter copies.                                                *)

\* A script that copied all of its sources found each of them.
LEMMA CopiesOfAll ==
  ASSUME NEW files, NEW S, NEW sources \in Seq(S), NEW target, AllCopied(files, sources)
  PROVE  LET W == CopySources(files, sources, target)
             L == Len(sources)
         IN  /\ \A i \in 1 .. L : files[sources[i]] # Absent
             /\ IsSeq(W) /\ Len(W) = L
             /\ \A n \in 1 .. L : W[n] = Put(target, CopiedUpTo(files, sources, n, files[target]))
<1> DEFINE L == Len(sources)
           missing == {i \in DOMAIN sources : files[sources[i]] = Absent}
           copy(n) == Put(target, CopiedUpTo(files, sources, n, files[target]))
           W == CopySources(files, sources, target)
<1>1. DOMAIN sources = 1 .. L /\ L \in Nat
  OBVIOUS
<1>2. missing = {}
  <2> SUFFICES ASSUME missing # {} PROVE FALSE
    OBVIOUS
  <2>1. missing \in SUBSET Nat /\ \A i \in missing : i <= L
    BY <1>1
  <2>2. FirstMissing(files, sources) = CHOOSE i \in missing : \A j \in missing : i <= j
    BY DEF FirstMissing
  <2>3. FirstMissing(files, sources) > L
    BY DEF AllCopied
  <2> HIDE DEF missing, L
  <2>4. \E i \in missing : \A j \in missing : i <= j
    BY <2>1, LeastNumber
  <2>5. (CHOOSE i \in missing : \A j \in missing : i <= j) \in missing
    BY <2>4
  <2>6. FirstMissing(files, sources) \in missing
    BY <2>2, <2>5
  <2> DEFINE first == FirstMissing(files, sources)
  <2>7. first \in Nat /\ first <= L /\ first > L
    BY <2>1, <2>3, <2>6
  <2>8. L \in Nat
    BY <1>1
  <2> HIDE DEF first
  <2> QED BY <2>7, <2>8
<1>3. FirstMissing(files, sources) = L + 1
  BY <1>2 DEF FirstMissing
<1>4. W = [n \in 1 .. (L + 1) - 1 |-> copy(n)]
  BY <1>3 DEF CopySources
<1>5. W = [n \in 1 .. L |-> copy(n)]
  <2>1. (L + 1) - 1 = L
    BY <1>1
  <2> HIDE DEF L, W, copy
  <2> QED BY <1>4, <2>1
<1> DEFINE C == {copy(n) : n \in 1 .. L}
<1>6. W \in Seq(C) /\ Len(W) = L
  <2>1. \A n \in 1 .. L : copy(n) \in C
    OBVIOUS
  <2> HIDE DEF C, L, copy, W
  <2> QED BY <1>1, <1>5, <2>1
<1>7. IsSeq(W)
  <2> HIDE DEF W, C
  <2> QED BY <1>6, Listed
<1>8. \A i \in 1 .. L : files[sources[i]] # Absent
  BY <1>1, <1>2
<1>9. \A n \in 1 .. L : W[n] = copy(n)
  <2> HIDE DEF W, L, copy
  <2> QED BY <1>5
<1> QED BY <1>6, <1>7, <1>8, <1>9

\* After the copies come other files, each once: the last copy and each of the
\* others is what is there in the end.
EachOnce(files, target, tables) ==
    /\ IsSeq(tables)
    /\ \A t \in ToSet(tables) : t.file \in DOMAIN files \ {target}
    /\ \A t \in ToSet(tables), u \in ToSet(tables) : t.file = u.file => t = u

ThereInTheEnd(files, sources, target, tables) ==
    LET new == AfterWrites(files, CopySources(files, sources, target) \o tables)
    IN  /\ \A f \in ToSet(sources) : files[f] # Absent /\ new[target][f] = Origin(files, f)
        /\ \A t \in ToSet(tables) : new[t.file] = t.content

LEMMA ExportAfter ==
  ASSUME NEW files, NEW S, NEW sources \in Seq(S), NEW target, target \in DOMAIN files,
         AllCopied(files, sources), sources # << >>, NEW tables, EachOnce(files, target, tables)
  PROVE  ThereInTheEnd(files, sources, target, tables)
<1> DEFINE T == ToSet(tables)
<1>0. /\ IsSeq(tables)
      /\ \A t \in T : t.file \in DOMAIN files \ {target}
      /\ \A t \in T, u \in T : t.file = u.file => t = u
  BY DEF EachOnce
<1> DEFINE L == Len(sources)
           copied == CopySources(files, sources, target)
           W == copied \o tables
           new == AfterWrites(files, W)
           last == CopiedUpTo(files, sources, L, files[target])
<1>1. L \in Nat \ {0} /\ DOMAIN sources = 1 .. L
  OBVIOUS
<1>2. /\ \A i \in 1 .. L : files[sources[i]] # Absent
      /\ IsSeq(copied) /\ Len(copied) = L
      /\ \A n \in 1 .. L : copied[n] = Put(target, CopiedUpTo(files, sources, n, files[target]))
  BY CopiesOfAll
<1>3. \A i \in 1 .. L : copied[i].file = target
  <2> HIDE DEF copied, L
  <2> QED BY <1>2 DEF Put
<1>4. copied[L].content = last
  <2>1. L \in 1 .. L
    BY <1>1
  <2> HIDE DEF copied, L
  <2> QED BY <1>2, <2>1 DEF Put, last
<1>5. \A f \in ToSet(sources) : last[f] = Origin(files, f)
  <2>1. ToSet(sources) = {sources[i] : i \in 1 .. L}
    BY <1>1 DEF ToSet
  <2> HIDE DEF L
  <2> QED BY <2>1 DEF CopiedUpTo
<1> HIDE DEF last
<1>6. \A f \in ToSet(sources) : files[f] # Absent
  <2>1. ToSet(sources) = {sources[i] : i \in 1 .. L}
    BY <1>1 DEF ToSet
  <2> HIDE DEF L
  <2> QED BY <1>2, <2>1
<1> HIDE DEF copied, L
<1> DEFINE M == Len(tables)
<1>7. /\ IsSeq(W) /\ ToSet(W) = ToSet(copied) \cup T /\ Len(W) = L + M
      /\ \A i \in 1 .. L + M : W[i] = IF i <= L THEN copied[i] ELSE tables[i - L]
  BY <1>0, <1>2, Joined2
<1>8. M \in Nat /\ DOMAIN tables = 1 .. M /\ \A i \in 1 .. M : tables[i] \in T
  BY <1>0, Listed DEF ToSet, IsSeq
<1> HIDE DEF W, M, T
<1>9. L \in 1 .. Len(W) /\ W[L].file = target /\ W[L].content = last
  <2>1. L \in 1 .. L /\ L \in 1 .. L + M
    BY <1>1, <1>8
  <2> QED BY <1>3, <1>4, <1>7, <2>1
<1>10. \A j \in 1 .. Len(W) : W[j].file = target => j <= L
  <2> SUFFICES ASSUME NEW j \in 1 .. L + M, W[j].file = target, ~(j <= L) PROVE FALSE
    BY <1>7
  <2>1. j - L \in 1 .. M
    BY <1>1, <1>8
  <2>2. W[j] \in T
    BY <1>7, <1>8, <2>1
  <2> QED BY <1>0, <2>2
<1>11. new[target] = last
  BY <1>7, <1>9, <1>10, LastWrite
<1>12. ASSUME NEW t \in T PROVE new[t.file] = t.content
  <2>1. t.file \in DOMAIN files /\ t \in ToSet(W)
    BY <1>0, <1>7
  <2>2. \E w \in ToSet(W) : w.file = t.file /\ new[t.file] = w.content
    BY <1>7, <2>1, AfterWritesOf
  <2>3. PICK w \in ToSet(W) : w.file = t.file /\ new[t.file] = w.content
    BY <2>2
  <2>4. w \in T
    <3>1. w \notin ToSet(copied)
      <4>1. \A v \in ToSet(copied) : v.file = target
        BY <1>2, <1>3 DEF ToSet, IsSeq
      <4> QED BY <1>0, <2>3, <4>1
    <3> QED BY <1>7, <3>1
  <2> QED BY <1>0, <2>3, <2>4
<1> QED BY <1>5, <1>6, <1>11, <1>12 DEF W, copied, ThereInTheEnd, T

\* The tables are of the files that were copied.
CopiesDone(x, files, new) ==
    /\ OfItsCopies(x, new)
    /\ \A p \in Producers : ExporterOf[p] = x
          => \A f \in SourcesOf[p] : files[f] # Absent /\ CopyFrom(p, new)[f] = Origin(files, f)

\* Three tables and then two are five.
ThreeAndTwo(s, a, b, c, d, e) == (s \o <<a, b, c>>) \o <<d, e>> = s \o <<a, b, c, d, e>>

LEMMA JoinedTwice ==
  ASSUME NEW s, IsSeq(s), NEW a, NEW b, NEW c, NEW d, NEW e
  PROVE  ThreeAndTwo(s, a, b, c, d, e)
<1> DEFINE t == <<a, b, c>>
           u == <<d, e>>
           v == <<a, b, c, d, e>>
           L == Len(s)
           left == (s \o t) \o u
           right == s \o v
<1>1. IsSeq(t) /\ IsSeq(u) /\ IsSeq(v) /\ Len(t) = 3 /\ Len(u) = 2 /\ Len(v) = 5
  BY Tuples
<1>2. /\ v[1] = t[1] /\ v[2] = t[2] /\ v[3] = t[3] /\ v[4] = u[1] /\ v[5] = u[2]
  OBVIOUS
<1> HIDE DEF t, u, v
<1>3. L \in Nat
  BY DEF IsSeq
<1> DEFINE st == s \o t
<1>4. /\ IsSeq(st) /\ Len(st) = L + 3
      /\ \A i \in 1 .. L + 3 : st[i] = IF i <= L THEN s[i] ELSE t[i - L]
  <2>1. /\ IsSeq(s \o t) /\ Len(s \o t) = Len(s) + Len(t)
        /\ \A i \in 1 .. Len(s) + Len(t) : (s \o t)[i] = IF i <= Len(s) THEN s[i] ELSE t[i - Len(s)]
    BY <1>1, Joined2
  <2> QED BY <1>1, <2>1
<1> HIDE DEF st
<1>5. /\ IsSeq(left) /\ Len(left) = (L + 3) + 2
      /\ \A i \in 1 .. (L + 3) + 2 :
            left[i] = IF i <= L + 3 THEN st[i] ELSE u[i - (L + 3)]
  <2>1. /\ IsSeq(st \o u) /\ Len(st \o u) = Len(st) + Len(u)
        /\ \A i \in 1 .. Len(st) + Len(u) :
              (st \o u)[i] = IF i <= Len(st) THEN st[i] ELSE u[i - Len(st)]
    BY <1>1, <1>4, Joined2
  <2>2. left = st \o u
    BY DEF st
  <2> QED BY <1>1, <1>4, <2>1, <2>2
<1>6. /\ IsSeq(right) /\ Len(right) = L + 5
      /\ \A i \in 1 .. L + 5 : right[i] = IF i <= L THEN s[i] ELSE v[i - L]
  <2>1. /\ IsSeq(s \o v) /\ Len(s \o v) = Len(s) + Len(v)
        /\ \A i \in 1 .. Len(s) + Len(v) : (s \o v)[i] = IF i <= Len(s) THEN s[i] ELSE v[i - Len(s)]
    BY <1>1, Joined2
  <2> QED BY <1>1, <2>1
<1> HIDE DEF left, right, L
<1>7. ASSUME NEW i \in 1 .. L + 5 PROVE left[i] = right[i]
  <2>1. i \in 1 .. (L + 3) + 2
    BY <1>3
  <2>2. CASE i <= L
    <3>1. i <= L + 3 /\ i \in 1 .. L + 3
      BY <1>3, <2>2
    <3> QED BY <1>4, <1>5, <1>6, <2>1, <2>2, <3>1
  <2>3. CASE i = L + 1 \/ i = L + 2 \/ i = L + 3
    <3>1. i <= L + 3 /\ i \in 1 .. L + 3 /\ ~(i <= L)
      BY <1>3, <2>3
    <3>2. left[i] = t[i - L] /\ right[i] = v[i - L]
      BY <1>4, <1>5, <1>6, <2>1, <3>1
    <3>3. i - L = 1 \/ i - L = 2 \/ i - L = 3
      BY <1>3, <2>3
    <3> QED BY <1>2, <3>2, <3>3
  <2>4. CASE i = L + 4 \/ i = L + 5
    <3>1. ~(i <= L + 3) /\ ~(i <= L)
      BY <1>3, <2>4
    <3>2. left[i] = u[i - (L + 3)] /\ right[i] = v[i - L]
      BY <1>5, <1>6, <2>1, <3>1
    <3>3. (i - (L + 3) = 1 /\ i - L = 4) \/ (i - (L + 3) = 2 /\ i - L = 5)
      BY <1>3, <2>4
    <3> QED BY <1>2, <3>2, <3>3
  <2> QED BY <1>3, <2>2, <2>3, <2>4
<1>8. left = [i \in 1 .. L + 5 |-> left[i]] /\ right = [i \in 1 .. L + 5 |-> right[i]]
  <2>1. (L + 3) + 2 = L + 5
    BY <1>3
  <2>2. /\ left = [i \in 1 .. Len(left) |-> left[i]]
        /\ right = [i \in 1 .. Len(right) |-> right[i]]
    BY <1>5, <1>6 DEF IsSeq
  <2> QED BY <1>5, <1>6, <2>1, <2>2
<1>9. left = right
  BY <1>7, <1>8
<1> QED BY <1>9 DEF left, right, t, u, v, ThreeAndTwo

LEMMA Phase4Copies ==
  ASSUME NEW files, SoundFiles(files), NEW n,
         Phase4Export(files, n).ok, Phase4Export(files, n).writes # << >>
  PROVE  CopiesDone("phase4_export", files, AfterWrites(files, Phase4Export(files, n).writes))
<1> DEFINE R == Phase4Export(files, n)
           W == R.writes
           new == AfterWrites(files, W)
           copied == CopySources(files, Phase4Sources, "p4_source")
           from(origin) == [stamp |-> n, run |-> origin]
           table(task, payload) ==
             [stamp |-> n, run |-> payload.stamp, best |-> payload.best,
              bestVal |-> payload.val[payload.best], rows |-> FamilyRows(task, payload)]
           a == Put("p4_binary_table", table("binary", files["binary_metrics"]))
           b == Put("p4_multiclass_table", table("multiclass", files["multiclass_metrics"]))
           c == Put("p4_per_class_table", from(files["multiclass_metrics"].stamp))
           d == Put("p4_figures", from(files["confusion"].stamp))
           e == Put("p4_readme", from(files["run_manifest"].stamp))
           tables == <<a, b, c>>
           rest == <<d, e>>
<1>1. /\ Readable(files, "binary_metrics") /\ Readable(files, "multiclass_metrics")
      /\ Readable(files, "run_manifest")
      /\ AllCopied(files, Phase4Sources) /\ files["confusion"] # Unreadable
      /\ W = (copied \o tables) \o rest
  BY Zenon DEF Phase4Export
<1> DEFINE all == <<a, b, c, d, e>>
           T == {a, b, c, d, e}
<1>3. /\ a.file = "p4_binary_table" /\ b.file = "p4_multiclass_table"
      /\ c.file = "p4_per_class_table" /\ d.file = "p4_figures" /\ e.file = "p4_readme"
  BY DEF Put
<1>4. /\ a.content.run = files["binary_metrics"].stamp
      /\ b.content.run = files["multiclass_metrics"].stamp
      /\ c.content.run = files["multiclass_metrics"].stamp
      /\ d.content.run = files["confusion"].stamp /\ e.content.run = files["run_manifest"].stamp
  BY DEF Put
<1> HIDE DEF a, b, c, d, e, R
<1>5. IsSeq(all) /\ ToSet(all) = T
  BY Tuples
<1>6. Phase4Sources \in Seq({Phase4Sources[i] : i \in 1 .. 8}) /\ Phase4Sources # << >>
  BY DEF Phase4Sources
<1>7. IsSeq(copied)
  BY <1>1, <1>6, CopiesOfAll
<1>8. (copied \o tables) \o rest = copied \o all
  <2> HIDE DEF copied
  <2>1. ThreeAndTwo(copied, a, b, c, d, e)
    BY <1>7, JoinedTwice
  <2> QED BY <2>1 DEF ThreeAndTwo
<1>9. W = copied \o all
  BY <1>1, <1>8
<1>10. "p4_source" \in DOMAIN files
  BY ExportNames DEF Exporters, WrittenBy, SoundFiles
<1>11. \A t \in T, u \in T : t.file = u.file => t = u
  BY <1>3
<1>12. \A t \in T : t.file \in DOMAIN files \ {"p4_source"}
  <2>1. WrittenBy["phase4_export"] \subseteq DOMAIN files
    BY ExportNames DEF Exporters, SoundFiles
  <2> QED BY <1>3, <2>1 DEF WrittenBy
<1> HIDE DEF T, all, copied
<1>13. /\ \A f \in ToSet(Phase4Sources) :
             files[f] # Absent /\ new["p4_source"][f] = Origin(files, f)
       /\ \A t \in T : new[t.file] = t.content
  <2>1. EachOnce(files, "p4_source", all)
    BY <1>5, <1>11, <1>12 DEF EachOnce
  <2>2. PICK S : Phase4Sources \in Seq(S)
    BY <1>6
  <2>3. ThereInTheEnd(files, Phase4Sources, "p4_source", all)
    BY <1>1, <1>6, <1>10, <2>1, <2>2, ExportAfter
  <2> QED BY <1>1, <1>5, <1>9, <2>3 DEF copied, ThereInTheEnd
<1>14. /\ new["p4_binary_table"] = a.content /\ new["p4_multiclass_table"] = b.content
       /\ new["p4_per_class_table"] = c.content /\ new["p4_figures"] = d.content
       /\ new["p4_readme"] = e.content
  BY <1>3, <1>13 DEF T
<1> DEFINE copy == new["p4_source"]
<1> HIDE DEF W, new
<1>15. /\ copy["binary_metrics"] = files["binary_metrics"].stamp
       /\ copy["multiclass_metrics"] = files["multiclass_metrics"].stamp
       /\ copy["confusion"] = files["confusion"].stamp
       /\ copy["run_manifest"] = files["run_manifest"].stamp
  <2>1. {"binary_metrics", "multiclass_metrics", "confusion", "run_manifest"}
        \subseteq ToSet(Phase4Sources)
    BY SourceNames DEF SourcesOf
  <2> QED BY <1>1, <1>13, <2>1 DEF Origin, Readable
<1>16. OfItsCopies("phase4_export", new)
  BY <1>4, <1>14, <1>15 DEF OfItsCopies, Phase4OfItsCopies
<1>17. ASSUME NEW p \in Producers, ExporterOf[p] = "phase4_export", NEW f \in SourcesOf[p]
       PROVE  files[f] # Absent /\ CopyFrom(p, new)[f] = Origin(files, f)
  <2>1. p = "train"
    BY <1>17 DEF Producers, ExporterOf
  <2>2. CopyFrom(p, new) = copy
    BY <2>1 DEF CopyFrom, ExporterOf, CopyOf
  <2> QED BY <1>13, <1>17, <2>1, <2>2 DEF SourcesOf
<1> QED BY <1>16, <1>17 DEF CopiesDone, new, W, R

LEMMA Phase6Copies ==
  ASSUME NEW files, SoundFiles(files), NEW n,
         Phase6Export(files, n).ok, Phase6Export(files, n).writes # << >>
  PROVE  CopiesDone("phase6_export", files, AfterWrites(files, Phase6Export(files, n).writes))
<1> DEFINE R == Phase6Export(files, n)
           W == R.writes
           new == AfterWrites(files, W)
           copied == CopySources(files, Phase6Sources, "p6_source")
           from(f) == [stamp |-> n, origin |-> {files[f].stamp}]
           scopes == {"normal_binary_summary", "anomaly_binary_summary"}
           a == Put("p6_generalization_binary",
                    [stamp |-> n, origin |-> {files[f].stamp : f \in scopes}])
           b == Put("p6_generalization_multiclass", from("anomaly_multiclass_summary"))
           c == Put("p6_ablation_binary", from("ablation_binary_summary"))
           d == Put("p6_ablation_multiclass", from("ablation_multiclass_summary"))
           e == Put("p6_readme", [stamp |-> n])
           all == <<a, b, c, d, e>>
           T == {a, b, c, d, e}
<1>1. /\ \A f \in Phase6Summaries : Readable(files, f)
      /\ AllCopied(files, Phase6Sources)
      /\ W = copied \o all
  BY Zenon DEF Phase6Export
<1>3. /\ a.file = "p6_generalization_binary" /\ b.file = "p6_generalization_multiclass"
      /\ c.file = "p6_ablation_binary" /\ d.file = "p6_ablation_multiclass"
      /\ e.file = "p6_readme"
  BY DEF Put
<1>4. /\ a.content.origin = {files["normal_binary_summary"].stamp,
                             files["anomaly_binary_summary"].stamp}
      /\ b.content.origin = {files["anomaly_multiclass_summary"].stamp}
      /\ c.content.origin = {files["ablation_binary_summary"].stamp}
      /\ d.content.origin = {files["ablation_multiclass_summary"].stamp}
  BY DEF Put
<1> HIDE DEF a, b, c, d, e, R
<1>5. IsSeq(all) /\ ToSet(all) = T
  BY Tuples
<1>6. Phase6Sources \in Seq({Phase6Sources[i] : i \in 1 .. 9}) /\ Phase6Sources # << >>
  BY DEF Phase6Sources
<1>10. "p6_source" \in DOMAIN files
  BY ExportNames DEF Exporters, WrittenBy, SoundFiles
<1>11. \A t \in T, u \in T : t.file = u.file => t = u
  BY <1>3
<1>12. \A t \in T : t.file \in DOMAIN files \ {"p6_source"}
  <2>1. WrittenBy["phase6_export"] \subseteq DOMAIN files
    BY ExportNames DEF Exporters, SoundFiles
  <2> QED BY <1>3, <2>1 DEF WrittenBy
<1> HIDE DEF T, all, copied
<1>13. /\ \A f \in ToSet(Phase6Sources) :
             files[f] # Absent /\ new["p6_source"][f] = Origin(files, f)
       /\ \A t \in T : new[t.file] = t.content
  <2>1. EachOnce(files, "p6_source", all)
    BY <1>5, <1>11, <1>12 DEF EachOnce
  <2>2. PICK S : Phase6Sources \in Seq(S)
    BY <1>6
  <2>3. ThereInTheEnd(files, Phase6Sources, "p6_source", all)
    BY <1>1, <1>6, <1>10, <2>1, <2>2, ExportAfter
  <2> QED BY <1>1, <1>5, <2>3 DEF copied, ThereInTheEnd
<1>14. /\ new["p6_generalization_binary"] = a.content
       /\ new["p6_generalization_multiclass"] = b.content
       /\ new["p6_ablation_binary"] = c.content /\ new["p6_ablation_multiclass"] = d.content
  BY <1>3, <1>13 DEF T
<1> DEFINE copy == new["p6_source"]
<1> HIDE DEF W, new
<1>15. \A f \in Phase6Summaries : copy[f] = files[f].stamp
  <2>1. Phase6Summaries \subseteq ToSet(Phase6Sources)
    BY DEF Phase6Summaries, Phase6Sources, ToSet
  <2> QED BY <1>1, <1>13, <2>1 DEF Origin, Readable
<1>16. OfItsCopies("phase6_export", new)
  BY <1>4, <1>14, <1>15 DEF OfItsCopies, Phase6OfItsCopies, Phase6Summaries
<1>17. ASSUME NEW p \in Producers, ExporterOf[p] = "phase6_export", NEW f \in SourcesOf[p]
       PROVE  files[f] # Absent /\ CopyFrom(p, new)[f] = Origin(files, f)
  <2>1. p = "generalization" \/ p = "ablation"
    BY <1>17 DEF Producers, ExporterOf
  <2>2. CopyFrom(p, new) = copy
    BY <2>1 DEF CopyFrom, ExporterOf, CopyOf
  <2>3. SourcesOf[p] \subseteq ToSet(Phase6Sources)
    BY <2>1, SourceNames DEF Phase6Sources, ToSet
  <2> QED BY <1>13, <1>17, <2>2, <2>3
<1> QED BY <1>16, <1>17 DEF CopiesDone, new, W, R

LEMMA ExporterWrites ==
  ASSUME NEW x \in Exporters, NEW files, SoundFiles(files), NEW score, NEW n,
         Output(x, files, score, n).ok, Output(x, files, score, n).writes # << >>
  PROVE  CopiesDone(x, files, AfterWrites(files, Output(x, files, score, n).writes))
<1>1. CASE x = "phase4_export"
  BY <1>1, Phase4Copies DEF Output
<1>2. CASE x = "phase6_export"
  BY <1>2, Phase6Copies DEF Output
<1> QED BY <1>1, <1>2 DEF Exporters

---------------------------------------------------------------------------
(* Exports between scripts that come to their end.                         *)

\* Sources of one launch make copies of one launch.
LEMMA CopyOfLaunch ==
  ASSUME NEW p \in Producers, NEW files, NEW new, CopiesDone(ExporterOf[p], files, new),
         NEW n \in Nat, FinishedOnce(p, files, n)
  PROVE  CopyFrom(p, new)[KeyOf[p]] \in 0 .. n /\ CopiedOfOne(p, new)
<1>1. \A f \in SourcesOf[p] : files[f] # Absent /\ CopyFrom(p, new)[f] = Origin(files, f)
  BY DEF CopiesDone
<1>2. KeyOf[p] \in SourcesOf[p]
  BY ExportNames
<1>3. PICK k \in 0 .. n : Finished(p, files, k)
  BY <1>1, <1>2 DEF FinishedOnce
<1>4. \A f \in SourcesOf[p] : CopyFrom(p, new)[f] = k
  BY <1>1, <1>3 DEF Finished, Origin
<1> QED BY <1>2, <1>4 DEF CopiedOfOne, OfOneRun

\* Without that, the copy of the key is still of a launch, or of a file that was cut.
LEMMA KeyOfCopy ==
  ASSUME NEW p \in Producers, NEW files, NEW new, CopiesDone(ExporterOf[p], files, new),
         NEW n \in Nat, StampOrNone(files[KeyOf[p]], n)
  PROVE  CopyFrom(p, new)[KeyOf[p]] \in 0 .. n
<1>1. KeyOf[p] \in SourcesOf[p]
  BY ExportNames
<1>2. files[KeyOf[p]] # Absent /\ CopyFrom(p, new)[KeyOf[p]] = Origin(files, KeyOf[p])
  BY <1>1 DEF CopiesDone
<1>3. 0 \in 0 .. n
  OBVIOUS
<1> QED BY <1>2, <1>3 DEF StampOrNone, Origin

LEMMA FinishedLater ==
  ASSUME NEW p, NEW files, NEW n \in Nat, FinishedOnce(p, files, n)
  PROVE  FinishedOnce(p, files, n + 1)
<1>1. \A k \in 0 .. n : k \in 0 .. n + 1
  OBVIOUS
<1> QED BY <1>1 DEF FinishedOnce

OnlyIts(p, files, W) ==
    \A f \in FileNames : f \notin WrittenBy[p] \/ W = << >> => AfterWrites(files, W)[f] = files[f]

LEMMA OnlyItsFiles ==
  ASSUME NEW p, NEW files, SoundFiles(files), NEW W, IsSeq(W), SoundWrites(p, ToSet(W))
  PROVE  OnlyIts(p, files, W)
<1>1. DOMAIN files = FileNames
  BY DEF SoundFiles
<1>2. \A w \in ToSet(W) : w.file \in WrittenBy[p]
  BY DEF SoundWrites
<1>3. W = << >> => ToSet(W) = {}
  BY Tuples
<1> QED BY <1>1, <1>2, <1>3, AfterWritesOf DEF OnlyIts

LEMMA ExportsAfter ==
  ASSUME NEW p \in Program, NEW files, SoundFiles(files), NEW n \in Nat, NEW score,
         NEW W, W = Output(p, files, score, n + 1).writes,
         NEW ok, ok = Output(p, files, score, n + 1).ok,
         IsSeq(W), SoundWrites(p, ToSet(W)), ok \/ W = << >>, ExportsOK(files, n)
  PROVE  ExportsOK(AfterWrites(files, W), n + 1)
<1> DEFINE new == AfterWrites(files, W)
           k == n + 1
<1>1. k \in Nat /\ \A i \in 0 .. n : i \in 0 .. k
  OBVIOUS
<1>2. \A f \in FileNames : f \notin WrittenBy[p] \/ W = << >> => new[f] = files[f]
  <2>1. OnlyIts(p, files, W)
    BY OnlyItsFiles
  <2> QED BY <2>1 DEF OnlyIts
<1>3. ASSUME NEW q \in Producers PROVE FinishedOnce(q, new, k)
  <2>1. FinishedOnce(q, files, k)
    BY FinishedLater DEF ExportsOK
  <2>2. CASE q # p \/ W = << >>
    <3>1. \A f \in SourcesOf[q] : new[f] = files[f]
      BY <1>2, <2>2, ExportNames
    <3> HIDE DEF new, k
    <3> QED BY <2>1, <3>1, ProducerSame
  <2>3. CASE q = p /\ W # << >>
    <3>1. Stamped(p, W, k) /\ AllOfThem(p, W)
      BY <2>3, ProducerWrites
    <3>2. Finished(p, new, k)
      <4> HIDE DEF k
      <4> QED BY <2>3, <3>1, FinishedAfter
    <3>3. k \in 0 .. k
      BY <1>1
    <3> QED BY <2>3, <3>2, <3>3 DEF FinishedOnce
  <2> QED BY <2>2, <2>3
<1>4. ASSUME NEW x \in Exporters, Exported(x, new)
      PROVE  /\ OfItsCopies(x, new)
             /\ \A q \in Producers : ExporterOf[q] = x
                   => CopyFrom(q, new)[KeyOf[q]] \in 0 .. k /\ CopiedOfOne(q, new)
  <2>1. CASE x # p \/ W = << >>
    <3>1. \A f \in WrittenBy[x] : new[f] = files[f]
      BY <1>2, <2>1, ExportNames
    <3> HIDE DEF new, k
    <3>2. /\ Exported(x, new) <=> Exported(x, files)
          /\ OfItsCopies(x, new) <=> OfItsCopies(x, files)
          /\ \A q \in Producers : ExporterOf[q] = x
                => /\ CopyFrom(q, new) = CopyFrom(q, files)
                   /\ CopiedOfOne(q, new) <=> CopiedOfOne(q, files)
      BY <3>1, ExporterSame
    <3> QED BY <1>1, <1>4, <3>2 DEF ExportsOK
  <2>2. CASE x = p /\ W # << >>
    <3>1. CopiesDone(x, files, new)
      BY <2>2, ExporterWrites
    <3>2. \A q \in Producers : ExporterOf[q] = x
             => CopyFrom(q, new)[KeyOf[q]] \in 0 .. n /\ CopiedOfOne(q, new)
      <4> HIDE DEF new
      <4> QED BY <3>1, CopyOfLaunch DEF ExportsOK
    <3> HIDE DEF new, k
    <3> QED BY <1>1, <3>1, <3>2 DEF CopiesDone
  <2> QED BY <2>1, <2>2
<1> HIDE DEF new, k
<1>5. ExportsOK(new, k)
  BY <1>3, <1>4, ExportNames DEF ExportsOK
<1> QED BY <1>5 DEF new, k

LEMMA NoExports == ExportsOK(NoFiles, 0)
<1>1. \A f \in PlainFiles : NoFiles[f] = Absent
  BY DEF NoFiles
<1>2. \A p \in Producers : SourcesOf[p] \subseteq PlainFiles
  <2>1. SourcesOf["train"] \subseteq PlainFiles
    BY SourceNames DEF PlainFiles
  <2>2. SourcesOf["generalization"] \subseteq ToSet(Phase6Sources)
        /\ SourcesOf["ablation"] \subseteq ToSet(Phase6Sources)
    BY SourceNames DEF Phase6Sources, ToSet
  <2> QED BY <2>1, <2>2 DEF Producers, PlainFiles
<1>3. \A x \in Exporters : ~Exported(x, NoFiles)
  <2>1. {"p4_readme", "p6_readme"} \subseteq PlainFiles
    BY DEF PlainFiles
  <2> QED BY <1>1, <2>1 DEF Exporters, Exported, ReadmeOf
<1>4. \A p \in Producers : FinishedOnce(p, NoFiles, 0) /\ ExporterOf[p] \in Exporters
  BY <1>1, <1>2, ExportNames DEF FinishedOnce
<1> QED BY <1>3, <1>4 DEF ExportsOK

---------------------------------------------------------------------------
(* The scripts in a row, none of them stopped.                             *)

\* And when no script was stopped.
FilesOK(files, n) ==
    /\ FilesSound(files, n) /\ UpTo(files, n)
    /\ SplitOK(files) /\ ReportOK(files, n) /\ ExportsOK(files, n)

\* What it publishes, and what a split leaves.
LEMMA OutputPlans ==
  ASSUME InputsTyped, NEW p \in Program, NEW files, NEW n \in Nat, NEW score,
         FilesSound(files, n), ScoreTyped(p, score)
  PROVE  LET W == Output(p, files, score, n + 1).writes
         IN  /\ \A m \in Manifests : PubPlan(m, p, files, W, n + 1)
             /\ p = "split" /\ W # << >> => SplitDone(AfterWrites(files, W))
<1> DEFINE k == n + 1
           W == Output(p, files, score, k).writes
<1>1. k \in Nat
  OBVIOUS
<1>2. IsSeq(W) /\ SoundWrites(p, ToSet(W))
  BY OutputSound
<1> HIDE DEF k
<1>3. ASSUME NEW m \in Manifests PROVE PubPlan(m, p, files, W, k)
  <2>1. CASE WrittenBy[p] \cap (FilesOf[m] \cup {m}) = {}
    <3> HIDE DEF W
    <3> QED BY <1>2, <2>1, OtherPlan
  <2>2. CASE WrittenBy[p] \cap (FilesOf[m] \cup {m}) # {}
    <3>1. \/ p = "build" /\ m \in {"dataset_manifest", "splits"}
          \/ p = "split" /\ m \in {"dataset_manifest", "splits"}
          \/ p = "report" /\ m = "dataset_manifest"
          \/ p = "ablation" /\ m = "ablation_manifest"
          \/ p = "generalization" /\ m = "generalization_manifest"
      <4>1. CASE m = "dataset_manifest"
        BY <2>2, <4>1 DEF Program, WrittenBy, FilesOf
      <4>2. CASE m = "splits"
        BY <2>2, <4>2 DEF Program, WrittenBy, FilesOf
      <4>3. CASE m = "ablation_manifest"
        BY <2>2, <4>3 DEF Program, WrittenBy, FilesOf
      <4>4. CASE m = "generalization_manifest"
        BY <2>2, <4>4 DEF Program, WrittenBy, FilesOf
      <4> QED BY <4>1, <4>2, <4>3, <4>4 DEF Manifests
    <3>2. CASE p = "build" /\ m \in {"dataset_manifest", "splits"}
      <4>1. W = Build(artifacts, selection, k).writes
        BY <3>2 DEF Output
      <4> QED BY <1>1, <3>2, <4>1, BuildPlans
    <3>3. CASE p = "split" /\ m \in {"dataset_manifest", "splits"}
      <4>1. W = Split(files, k).writes
        BY <3>3 DEF Output
      <4> QED BY <1>1, <3>3, <4>1, SplitPlans DEF FilesSound
    <3>4. CASE p = "report" /\ m = "dataset_manifest"
      <4>1. W = Report(files, k).writes
        BY <3>4 DEF Output
      <4> QED BY <1>1, <3>4, <4>1, ReportPlan
    <3>5. CASE p = "ablation" /\ m = "ablation_manifest"
      <4>1. W = Ablation(files, k).writes
        BY <3>5 DEF Output
      <4> QED BY <1>1, <3>5, <4>1, AblationPlan
    <3>6. CASE p = "generalization" /\ m = "generalization_manifest"
      <4>1. W = Generalization(files, k).writes
        BY <3>6 DEF Output
      <4> QED BY <1>1, <3>6, <4>1, GeneralizationPlan
    <3> HIDE DEF W
    <3> QED BY <3>1, <3>2, <3>3, <3>4, <3>5, <3>6
  <2> QED BY <2>1, <2>2
<1>4. ASSUME p = "split", W # << >> PROVE SplitDone(AfterWrites(files, W))
  <2>1. W = Split(files, k).writes
    BY <1>4 DEF Output
  <2> HIDE DEF W
  <2> QED BY <1>1, <1>4, <2>1, SplitOutputDone DEF FilesSound
<1> QED BY <1>3, <1>4 DEF k


LEMMA AfterWritesOK ==
  ASSUME NEW files, NEW n \in Nat, NEW p \in Program, NEW W,
         SoundFiles(files), RawPaired(files), UpTo(files, n), SplitOK(files),
         IsSeq(W), SoundWrites(p, ToSet(W)), OneModel(ModelsKnown(files, ToSet(W)), n),
         \A m \in Manifests : PubPlan(m, p, files, W, n), OutputClaims(files, W, n),
         ExportsOK(AfterWrites(files, W), n),
         p = "split" /\ W # << >> => SplitDone(AfterWrites(files, W))
  PROVE  FilesOK(AfterWrites(files, W), n)
<1> DEFINE new == AfterWrites(files, W)
<1>1. DOMAIN files = FileNames
  BY DEF SoundFiles
<1>2. /\ new = [f \in FileNames |-> new[f]]
      /\ \A f \in FileNames :
            \/ new[f] = files[f]
            \/ \E w \in ToSet(W) : w.file = f /\ w.file \in WrittenBy[p] /\ new[f] = w.content
  BY <1>1, AfterWritesOf DEF SoundWrites
<1>3. /\ RawFiles \subseteq FileNames /\ ModelFiles \subseteq FileNames
      /\ WrittenBy[p] \cap RawFiles = {}
  BY WrittenFiles
<1>4. p = "split" /\ W # << >> => SplitDone(new)
  OBVIOUS
<1>5. W = << >> => new = files
  <2>1. CASE W = << >>
    <3>1. ToSet(W) = {}
      BY <2>1, Tuples
    <3>2. files = [f \in FileNames |-> files[f]]
      BY DEF SoundFiles
    <3> HIDE DEF new
    <3> QED BY <1>2, <3>1, <3>2
  <2> QED BY <2>1
<1> HIDE DEF new
<1>6. SoundFiles(new)
  BY <1>2 DEF SoundFiles, SoundWrites
<1>7. \A f \in RawFiles : new[f] = files[f]
  BY <1>2, <1>3
<1>8. RawPaired(new)
  BY <1>7 DEF RawPaired, RawFiles
<1>9. ModelsKnown(new, {}) \subseteq ModelsKnown(files, ToSet(W))
  <2>1. \A f \in ModelFiles : new[f] \subseteq ModelsKnown(files, ToSet(W))
    BY <1>2, <1>3 DEF ModelsKnown, ModelFiles
  <2> QED BY <2>1 DEF ModelsKnown, ModelFiles
<1>10. OneModel(ModelsKnown(new, {}), n)
  BY <1>9 DEF OneModel
<1>11. UpTo(new, n)
  <2> SUFFICES ASSUME NEW m \in Manifests PROVE Published(m, new) \in 0 .. n
    BY DEF UpTo
  <2>1. Published(m, files) \in 0 .. n /\ n \in 0 .. n
    BY DEF UpTo
  <2>2. m \in FileNames
    BY WrittenFiles DEF Manifests, Program, WrittenBy
  <2>3. CASE new[m] = files[m]
    BY <2>1, <2>3 DEF Published, Readable
  <2>4. CASE \E w \in ToSet(W) : w.file = m /\ new[m] = w.content
    <3>1. PICK i \in 1 .. Len(W) : W[i].file = m /\ new[m] = W[i].content
      BY <2>4 DEF ToSet, IsSeq
    <3>2. /\ W[i].content \notin {Absent, Unreadable}
          /\ W[i].content[Field[m]] \in {n, Published(m, files)}
      BY <3>1 DEF PubPlan
    <3> QED BY <2>1, <3>1, <3>2 DEF Published, Readable
  <2> QED BY <1>2, <2>2, <2>3, <2>4
<1>12. SplitOK(new)
  <2>1. CASE p = "split" /\ W # << >>
    BY <1>4, <2>1 DEF SplitOK
  <2>2. CASE W = << >>
    BY <1>5, <2>2
  <2>3. CASE p # "split"
    <3>1. \A f \in SplitFiles \cup {"splits"} : new[f] = files[f]
      BY <1>2, <2>3, PartFiles
    <3>2. \A s \in Splits : PartNames[s] \in SplitFiles
      BY DEF SplitFiles
    <3> QED BY <3>1, <3>2 DEF SplitOK, SplitDone
  <2> QED BY <2>1, <2>2, <2>3
<1>13. ReportOK(new, n)
  BY ReportsAfter DEF new
<1>14. ExportsOK(new, n)
  BY DEF new
<1> QED BY <1>6, <1>8, <1>10, <1>11, <1>12, <1>13, <1>14 DEF FilesOK, FilesSound, new

LEMMA NoFilesOK == FilesOK(NoFiles, 0)
<1>1. /\ NoFiles = [f \in FileNames |-> NoFiles[f]]
      /\ \A f \in PlainFiles : NoFiles[f] = Absent
      /\ \A f \in DOMAIN Collections \ PlainFiles : NoFiles[f] = Collections[f]
  BY DEF NoFiles, FileNames
<1>2. {"binary_models", "multiclass_models", "bench_summary", "cpu_summary"}
      \subseteq DOMAIN Collections \ PlainFiles
  <2>1. \A f \in ToSet(Phase6Sources) : f \notin {"binary_models", "multiclass_models",
                                                  "bench_summary", "cpu_summary"}
    BY DEF ToSet, Phase6Sources
  <2> QED BY <2>1 DEF Collections, PlainFiles, WindowFiles, Phase6Summaries
<1>3. /\ NoFiles["binary_models"] = {} /\ NoFiles["multiclass_models"] = {}
      /\ NoFiles["bench_summary"] = [s \in Scenario |-> 0]
      /\ NoFiles["cpu_summary"] = [s \in Scenario |-> 0]
  <2>1. /\ Collections["binary_models"] = {} /\ Collections["multiclass_models"] = {}
        /\ Collections["bench_summary"] = [s \in Scenario |-> 0]
        /\ Collections["cpu_summary"] = [s \in Scenario |-> 0]
    BY DEF Collections
  <2> QED BY <1>1, <1>2, <2>1
<1>4. SoundFiles(NoFiles)
  BY <1>1 DEF SoundFiles, Sound
<1>5. RawPaired(NoFiles)
  BY <1>3 DEF RawPaired
<1>6. ModelsKnown(NoFiles, {}) = {}
  BY <1>3 DEF ModelsKnown
<1>7. UpTo(NoFiles, 0) /\ SplitOK(NoFiles)
  <2>1. Manifests \cup SplitFiles \cup {"splits"} \subseteq PlainFiles
    <3>1. {"ablation_manifest", "generalization_manifest"} \subseteq ToSet(Phase6Sources)
      BY DEF Phase6Sources, ToSet
    <3>2. {"windows_train", "windows_val", "windows_test"} \subseteq WindowFiles
      BY DEF WindowFiles
    <3>3. ToSet(Phase6Sources) \cup WindowFiles \cup {"dataset_manifest", "splits"} \subseteq PlainFiles
      BY DEF PlainFiles
    <3> QED BY <3>1, <3>2, <3>3, PartFiles DEF Manifests
  <2>2. \A f \in Manifests \cup SplitFiles \cup {"splits"} : NoFiles[f] = Absent
    BY <1>1, <2>1
  <2> QED BY <2>2 DEF UpTo, Published, Readable, SplitOK
<1> QED BY <1>4, <1>5, <1>6, <1>7, NoReports, NoExports DEF FilesOK, FilesSound, OneModel

LEMMA AfterScriptMember ==
  ASSUME NEW before, NEW p, NEW n, NEW scores, NEW g \in AfterScript(before, p, n, scores)
  PROVE  \E old \in before, score \in scores :
            /\ g = AfterWrites(old, Output(p, old, score, n).writes)
            /\ Output(p, old, score, n).ok \/ Output(p, old, score, n).writes = << >>
BY DEF AfterScript

\* The recursive definition of AfterScripts defines what it says, so whatever
\* holds before the first script and after each of them holds at the end.
LEMMA AfterScriptsSteps ==
  ASSUME NEW scripts, Len(scripts) \in Nat, NEW scores
  PROVE  \E after :
            /\ after[0] = {NoFiles}
            /\ \A n \in 1 .. Len(scripts) :
                  after[n] = AfterScript(after[n - 1], scripts[n], n, scores)
            /\ AfterScripts(scripts, scores) = after[Len(scripts)]
<1> DEFINE L == Len(scripts)
           Def(g, n) == IF n = 0 THEN {NoFiles}
                        ELSE AfterScript(g[n - 1], scripts[n], n, scores)
           Is(g, n) == g = [k \in 0 .. n |-> Def(g, k)]
           Fails == {n \in 0 .. L : ~\E g : Is(g, n)}
<1>1. Fails = {}
  <2> SUFFICES ASSUME Fails # {} PROVE FALSE
    OBVIOUS
  <2>1. PICK n \in Fails : \A m \in Fails : n <= m
    <3>1. Fails \in SUBSET Nat
      OBVIOUS
    <3> HIDE DEF Fails
    <3> QED BY <3>1, LeastNumber
  <2>2. n \in 0 .. L /\ ~\E g : Is(g, n)
    BY <2>1
  <2>3. CASE n = 0
    <3> DEFINE g == [k \in 0 .. 0 |-> {NoFiles}]
    <3>1. Is(g, 0)
      OBVIOUS
    <3> QED BY <2>2, <2>3, <3>1
  <2>4. CASE n # 0
    <3>1. n - 1 \in 0 .. L /\ n - 1 \notin Fails
      <4> HIDE DEF Fails
      <4> QED BY <2>1, <2>2, <2>4
    <3>2. PICK g : Is(g, n - 1)
      BY <3>1
    <3> DEFINE h == [k \in 0 .. n |-> IF k = n THEN Def(g, n) ELSE g[k]]
    <3>3. \A k \in 0 .. n : h[k] = Def(h, k)
      <4>1. \A k \in 0 .. n - 1 : g[k] = Def(g, k)
        <5> HIDE DEF Def
        <5> QED BY <3>2
      <4>2. \A k \in 0 .. n - 1 : h[k] = g[k] /\ k # n
        BY <2>2
      <4>3. ASSUME NEW k \in 0 .. n PROVE Def(h, k) = Def(g, k)
        <5>1. CASE k = 0
          BY <5>1
        <5>2. CASE k # 0
          <6>1. k - 1 \in 0 .. n - 1
            BY <2>2, <5>2
          <6>2. h[k - 1] = g[k - 1]
            BY <4>2, <6>1
          <6> HIDE DEF h
          <6> QED BY <5>2, <6>2
        <5> QED BY <5>1, <5>2
      <4>4. h[n] = Def(g, n) /\ n \in 0 .. n
        BY <2>2
      <4> HIDE DEF Def, h
      <4>5. \A k \in 0 .. n : k = n \/ k \in 0 .. n - 1
        BY <2>2
      <4> QED BY <4>1, <4>2, <4>3, <4>4, <4>5
    <3>4. Is(h, n)
      <4>1. h = [k \in 0 .. n |-> h[k]]
        OBVIOUS
      <4> HIDE DEF h, Def
      <4> QED BY <3>3, <4>1
    <3> QED BY <2>2, <3>4
  <2> QED BY <2>3, <2>4
<1> DEFINE after == CHOOSE g : Is(g, L)
<1>2. Is(after, L)
  <2>1. L \in 0 .. L
    OBVIOUS
  <2>2. \E g : Is(g, L)
    <3> HIDE DEF Is, L
    <3> QED BY <1>1, <2>1
  <2> HIDE DEF Is
  <2> QED BY <2>2
<1>3. AfterScripts(scripts, scores) = after[L]
  BY DEF AfterScripts
<1> HIDE DEF after
<1>4. \A k \in 0 .. L : after[k] = Def(after, k)
  <2> HIDE DEF Def
  <2> QED BY <1>2
<1>5. after[0] = {NoFiles}
  BY <1>4
<1>6. ASSUME NEW n \in 1 .. L PROVE after[n] = AfterScript(after[n - 1], scripts[n], n, scores)
  <2>1. n \in 0 .. L /\ n # 0
    OBVIOUS
  <2> QED BY <1>4, <2>1
<1> QED BY <1>3, <1>5, <1>6

LEMMA AfterScriptsOK ==
  ASSUME InputsTyped, NEW scripts \in Seq(Program), NEW files,
         NEW scores \in SUBSET [binary : [1 .. 6 -> Nat], multiclass : [1 .. 5 -> Nat]],
         files \in AfterScripts(scripts, scores)
  PROVE  FilesOK(files, Len(scripts))
<1>1. Len(scripts) \in Nat
  OBVIOUS
<1>2. PICK after :
        /\ after[0] = {NoFiles}
        /\ \A n \in 1 .. Len(scripts) :
              after[n] = AfterScript(after[n - 1], scripts[n], n, scores)
        /\ AfterScripts(scripts, scores) = after[Len(scripts)]
  BY <1>1, AfterScriptsSteps
<1> DEFINE Fails == {n \in 0 .. Len(scripts) : ~\A g \in after[n] : FilesOK(g, n)}
<1>3. Fails = {}
  <2> SUFFICES ASSUME Fails # {} PROVE FALSE
    OBVIOUS
  <2>1. PICK n \in Fails : \A m \in Fails : n <= m
    <3>1. Fails \in SUBSET Nat
      OBVIOUS
    <3> HIDE DEF Fails
    <3> QED BY <3>1, LeastNumber
  <2>2. n \in 0 .. Len(scripts) /\ ~\A g \in after[n] : FilesOK(g, n)
    BY <2>1
  <2>3. n # 0
    BY <1>2, <2>2, NoFilesOK
  <2>4. n - 1 \in 0 .. Len(scripts) /\ n - 1 \notin Fails
    <3> HIDE DEF Fails
    <3> QED BY <2>1, <2>2, <2>3
  <2>5. \A g \in after[n - 1] : FilesOK(g, n - 1)
    BY <2>4
  <2>6. PICK g \in after[n] : ~FilesOK(g, n)
    BY <2>2
  <2>7. n \in 1 .. Len(scripts) /\ scripts[n] \in Program
    BY <2>2, <2>3
  <2>8. PICK old \in after[n - 1], score \in scores :
          /\ g = AfterWrites(old, Output(scripts[n], old, score, n).writes)
          /\ \/ Output(scripts[n], old, score, n).ok
             \/ Output(scripts[n], old, score, n).writes = << >>
    <3>1. g \in AfterScript(after[n - 1], scripts[n], n, scores)
      BY <1>2, <2>6, <2>7
    <3> DEFINE before == after[n - 1]
               p == scripts[n]
    <3> HIDE DEF Fails, before, p
    <3>2. g \in AfterScript(before, p, n, scores)
      BY <3>1 DEF before, p
    <3>3. \E old \in before, score \in scores :
             /\ g = AfterWrites(old, Output(p, old, score, n).writes)
             /\ Output(p, old, score, n).ok \/ Output(p, old, score, n).writes = << >>
      BY <3>2, AfterScriptMember
    <3> QED BY <3>3 DEF before, p
  <2> DEFINE W == Output(scripts[n], old, score, n).writes
  <2>9. FilesOK(old, n - 1)
    BY <2>5
  <2>10. n - 1 \in Nat /\ (n - 1) + 1 = n /\ ScoreTyped(scripts[n], score)
    <3>1. n \in Nat /\ n # 0
      BY <1>1, <2>7
    <3>2. n - 1 \in Nat /\ (n - 1) + 1 = n
      BY <3>1
    <3> QED BY <3>2 DEF ScoreTyped
  <2>11. /\ IsSeq(W) /\ SoundWrites(scripts[n], ToSet(W))
         /\ OneModel(ModelsKnown(old, ToSet(W)), n)
         /\ \A m \in Manifests : PubPlan(m, scripts[n], old, W, n)
         /\ scripts[n] = "split" /\ W # << >> => SplitDone(AfterWrites(old, W))
         /\ OutputClaims(old, W, n)
         /\ ExportsOK(AfterWrites(old, W), n)
    <3>1. \A k : k = (n - 1) + 1 =>
            LET V == Output(scripts[n], old, score, k).writes
            IN  /\ IsSeq(V) /\ SoundWrites(scripts[n], ToSet(V))
                /\ OneModel(ModelsKnown(old, ToSet(V)), k)
                /\ \A m \in Manifests : PubPlan(m, scripts[n], old, V, k)
                /\ scripts[n] = "split" /\ V # << >> => SplitDone(AfterWrites(old, V))
                /\ OutputClaims(old, V, k)
      BY <2>7, <2>9, <2>10, OutputSound, OutputPlans, OutputReports DEF FilesOK
    <3> DEFINE V == Output(scripts[n], old, score, (n - 1) + 1).writes
               ok == Output(scripts[n], old, score, (n - 1) + 1).ok
    <3>2. /\ IsSeq(V) /\ SoundWrites(scripts[n], ToSet(V)) /\ V = W
          /\ ok \/ V = << >>
      BY <2>8, <2>10, <3>1
    <3>3. SoundFiles(old) /\ ExportsOK(old, n - 1)
      BY <2>9 DEF FilesOK, FilesSound
    <3>4. ExportsOK(AfterWrites(old, V), (n - 1) + 1)
      BY <2>7, <2>10, <3>2, <3>3, ExportsAfter
    <3> QED BY <2>10, <3>1, <3>2, <3>4
  <2>12. FilesOK(AfterWrites(old, W), n)
    <3> HIDE DEF W
    <3>1. UpTo(old, n) /\ n \in Nat
      <4>1. n \in Nat /\ \A k \in 0 .. n - 1 : k \in 0 .. n
        BY <1>1, <2>7
      <4> QED BY <2>9, <4>1 DEF FilesOK, FilesSound, UpTo
    <3>2. SoundFiles(old) /\ RawPaired(old) /\ SplitOK(old)
      BY <2>9 DEF FilesOK, FilesSound
    <3> QED BY <2>7, <2>11, <3>1, <3>2, AfterWritesOK
  <2> QED BY <2>6, <2>8, <2>12
<1> QED BY <1>2, <1>3

---------------------------------------------------------------------------
(* Every step keeps the files sound.                                       *)

LEMMA IdleLeft == Idle.left = << >> /\ IsSeq(<< >>) /\ ToSet(<< >>) = {}
BY Tuples DEF Idle

\* The files that a session starts with.
LEMMA FirstFiles ==
  ASSUME Init
  PROVE  FilesOK(fs, launches) /\ launches \in Nat /\ InputsTyped /\ PlanTyped
<1>1. PICK s \in Session :
        /\ plan = [runs |-> s.runs, matrices |-> s.matrices,
                   selections |-> s.selections, scores |-> s.scores]
        /\ artifacts \in s.worlds /\ selection \in s.selections
        /\ fs \in AfterScripts(s.done, s.scores)
        /\ launches = Len(s.done)
  BY DEF Init
<1>2. /\ s.done \in Seq(Program)
      /\ s.matrices \in Seq(Seq(Scenario) \ {<< >>})
      /\ s.scores \in SUBSET [binary : [1 .. 6 -> Nat], multiclass : [1 .. 5 -> Nat]]
  BY PipelineAssumption
<1>3. InputsTyped
  <2>1. \A c \in s.selections : Inputs(artifacts, c)
    BY <1>1, PipelineAssumption DEF Inputs
  <2> QED BY <1>1, <2>1 DEF InputsTyped
<1>4. FilesOK(fs, launches) /\ launches \in Nat
  BY <1>1, <1>2, <1>3, AfterScriptsOK
<1> QED BY <1>1, <1>2, <1>3, <1>4 DEF PlanTyped

LEMMA FilesInit == Init => FilesInv
<1> SUFFICES ASSUME Init PROVE FilesInv
  OBVIOUS
<1>1. FilesOK(fs, launches) /\ launches \in Nat /\ InputsTyped /\ PlanTyped
  BY FirstFiles
<1>2. job = Idle /\ matrix = NoMatrix
  BY DEF Init
<1>3. /\ job.left = << >> /\ IsSeq(job.left) /\ ToSet(job.left) = {}
      /\ job = [prog |-> job.prog, left |-> job.left, ok |-> job.ok]
  BY <1>2, IdleLeft DEF Idle
<1>4. MatrixPlace
  BY <1>2 DEF MatrixPlace, NoMatrix
<1> QED BY <1>1, <1>2, <1>3, <1>4 DEF FilesInv, FilesOK, FilesSound, SoundWrites

\* Between two scripts nothing is about to be written.
LEMMA BetweenScripts ==
  ASSUME FilesInv, job = Idle
  PROVE  FilesSound(fs, launches)
BY IdleLeft DEF FilesInv, FilesSound

\* A launch of a script.
LEMMA LaunchKeeps ==
  ASSUME FilesInv, NEW p \in Program, NEW score, ScoreTyped(p, score), NEW ok,
         Launch(p, Output(p, fs, score, launches + 1).writes, ok)
  PROVE  /\ launches' \in Nat /\ IsSeq(job'.left)
         /\ job' # Idle /\ job'.left # << >> /\ job'.prog = p
         /\ job' = [prog |-> job'.prog, left |-> job'.left, ok |-> job'.ok]
         /\ SoundFiles(fs') /\ SoundWrites(job'.prog, ToSet(job'.left)) /\ RawPaired(fs')
         /\ OneModel(ModelsKnown(fs', ToSet(job'.left)), launches')
<1> DEFINE W == Output(p, fs, score, launches + 1).writes
<1>1. FilesSound(fs, launches) /\ launches \in Nat /\ InputsTyped
  BY BetweenScripts DEF Launch, FilesInv
<1>2. IsSeq(W) /\ SoundWrites(p, ToSet(W)) /\ OneModel(ModelsKnown(fs, ToSet(W)), launches + 1)
  BY <1>1, OutputSound
<1>3. Launch(p, W, ok)
  OBVIOUS
<1> HIDE DEF W
<1>4. /\ job' = [prog |-> job'.prog, left |-> job'.left, ok |-> job'.ok]
      /\ job'.prog = p /\ job'.left = W /\ W # << >> /\ fs' = fs /\ launches' = launches + 1
  BY <1>3 DEF Launch
<1>5. job' # Idle
  BY <1>4, IdleLeft
<1> QED BY <1>1, <1>2, <1>4, <1>5 DEF FilesSound

LEMMA StartKeeps ==
  ASSUME FilesInv, NEW p \in Program, Start(p)
  PROVE  FilesInv'
<1>1. PICK score \in (IF p = "train" THEN plan.scores ELSE {<< >>}) :
        Launch(p, Output(p, fs, score, launches + 1).writes, Output(p, fs, score, launches + 1).ok)
  BY Zenon DEF Start
<1>2. ScoreTyped(p, score)
  BY <1>1 DEF FilesInv, PlanTyped, ScoreTyped
<1>3. /\ launches' \in Nat /\ IsSeq(job'.left)
      /\ job' # Idle /\ job'.left # << >> /\ job'.prog = p
      /\ job' = [prog |-> job'.prog, left |-> job'.left, ok |-> job'.ok]
      /\ SoundFiles(fs') /\ SoundWrites(job'.prog, ToSet(job'.left)) /\ RawPaired(fs')
      /\ OneModel(ModelsKnown(fs', ToSet(job'.left)), launches')
  BY <1>1, <1>2, LaunchKeeps
<1>4. matrix = NoMatrix /\ matrix' = matrix
  BY DEF Start
<1>5. PlanTyped'
  <2>1. plan' = [plan EXCEPT !.runs[p] = @ - 1]
    BY DEF Start
  <2>2. plan' = [runs |-> plan'.runs, matrices |-> plan.matrices,
                 selections |-> plan.selections, scores |-> plan.scores]
    BY <2>1 DEF FilesInv, PlanTyped
  <2> QED BY <2>2 DEF FilesInv, PlanTyped
<1>6. MatrixPlace'
  BY <1>4 DEF MatrixPlace, NoMatrix
<1>7. InputsTyped'
  <2>1. plan' = [plan EXCEPT !.runs[p] = @ - 1] /\ artifacts' = artifacts /\ selection' = selection
    BY DEF Start
  <2>2. plan'.selections = plan.selections
    BY <2>1 DEF FilesInv, PlanTyped
  <2> QED BY <2>1, <2>2 DEF FilesInv, InputsTyped, Inputs
<1> QED BY <1>3, <1>5, <1>6, <1>7 DEF FilesInv

\* The start and the raw files of a matrix run. No script runs beside it.
LEMMA MatrixKeeps ==
  ASSUME FilesInv,
         \/ RunMatrix
         \/ (RemoveRaw \/ StartBench \/ WriteBenchSummary \/ WriteCpuSummary \/ FailExperiment)
            /\ UNCHANGED <<artifacts, selection, plan>>
  PROVE  FilesInv'
<1>0. /\ launches \in Nat /\ IsSeq(job.left)
      /\ job # Idle => job.left # << >>
      /\ job = Idle => job.left = << >>
      /\ SoundFiles(fs) /\ SoundWrites(job.prog, ToSet(job.left)) /\ RawPaired(fs)
      /\ OneModel(ModelsKnown(fs, ToSet(job.left)), launches)
      /\ PlanTyped /\ InputsTyped /\ MatrixPlace
      /\ job # Idle => job.prog \in Program
      /\ job = [prog |-> job.prog, left |-> job.left, ok |-> job.ok]
  BY DEF FilesInv
<1>1. /\ matrix = [at |-> matrix.at, todo |-> matrix.todo]
      /\ matrix.at \in {"idle", "remove", "prepare", "bench", "cpu", "export"}
      /\ matrix.todo \in Seq(Scenario)
      /\ matrix # NoMatrix => job = Idle
      /\ matrix.at \in {"remove", "prepare", "bench", "cpu"} => matrix.todo # << >>
      /\ matrix.at \in {"prepare", "bench"} => fs["cpu_summary"][Head(matrix.todo)] = 0
      /\ matrix.at = "cpu" => fs["bench_summary"][Head(matrix.todo)] = launches
  BY <1>0 DEF MatrixPlace
<1> DEFINE now == Head(matrix.todo)
<1>2. matrix.todo # << >> => /\ now \in Scenario
                             /\ Tail(matrix.todo) \in Seq(Scenario)
                             /\ Len(matrix.todo) \in Nat
                             /\ Len(Tail(matrix.todo)) = Len(matrix.todo) - 1
  BY <1>1
<1>3. ASSUME NEW f \in RawFiles, NEW stamp \in Nat, NEW s \in Scenario,
             fs' = [fs EXCEPT ![f] = [fs[f] EXCEPT ![s] = stamp]],
             \A g \in RawFiles \ {f} : stamp = 0 \/ fs[g][s] \in {0, stamp}
      PROVE  /\ SoundFiles(fs') /\ RawPaired(fs')
             /\ ModelsKnown(fs', ToSet(job.left)) = ModelsKnown(fs, ToSet(job.left))
             /\ fs'[f][s] = stamp
             /\ \A g \in RawFiles \ {f} : fs'[g] = fs[g]
  <2>1. /\ RawFiles \subseteq FileNames /\ RawFiles \cap PlainFiles = {}
        /\ ModelFiles \subseteq FileNames /\ RawFiles \cap ModelFiles = {}
    <3>1. \A g \in ToSet(Phase6Sources) : g \notin {"bench_summary", "cpu_summary"}
      BY DEF ToSet, Phase6Sources
    <3> QED BY <3>1
        DEF RawFiles, ModelFiles, FileNames, Collections, PlainFiles, WindowFiles, Phase6Summaries
  <2>2. fs = [g \in FileNames |-> fs[g]] /\ \A g \in FileNames : Sound(g, fs[g])
    BY <1>0 DEF SoundFiles
  <2>3. /\ fs' = [g \in FileNames |-> fs'[g]]
        /\ \A g \in FileNames : g # f => fs'[g] = fs[g]
        /\ fs'[f] = [fs[f] EXCEPT ![s] = stamp]
    BY <1>3, <2>1, <2>2
  <2>4. SoundFiles(fs')
    BY <2>1, <2>2, <2>3 DEF SoundFiles, Sound
  <2>5. ModelsKnown(fs', ToSet(job.left)) = ModelsKnown(fs, ToSet(job.left))
    BY <2>1, <2>3 DEF ModelsKnown, ModelFiles
  <2>6. \A g \in RawFiles : fs[g] \in [Scenario -> Nat]
    BY <1>0 DEF RawPaired, RawFiles
  <2>7. fs'[f][s] = stamp /\ \A t \in Scenario : t # s => fs'[f][t] = fs[f][t]
    BY <2>3, <2>6
  <2>8. \A g \in RawFiles : fs'[g] \in [Scenario -> Nat]
    BY <1>3, <2>1, <2>3, <2>6
  <2>9. \A g \in RawFiles \ {f} : fs'[g] = fs[g]
    BY <2>1, <2>3
  <2>10. RawPaired(fs')
    BY <1>0, <1>3, <2>7, <2>8, <2>9 DEF RawPaired, RawFiles
  <2> QED BY <2>4, <2>5, <2>7, <2>9, <2>10
<1>10. InputsTyped'
  <2>1. artifacts' = artifacts /\ selection' = selection
        /\ (plan' = plan \/ plan' = [plan EXCEPT !.matrices = Tail(@)])
    BY DEF RunMatrix
  <2>2. plan'.selections = plan.selections
    BY <1>0, <2>1 DEF PlanTyped
  <2> QED BY <1>0, <2>1, <2>2 DEF InputsTyped, Inputs
<1>4. CASE RunMatrix
  <2>1. /\ plan.matrices # << >>
        /\ plan' = [plan EXCEPT !.matrices = Tail(@)]
        /\ job = Idle /\ matrix = NoMatrix
        /\ matrix' = [at |-> "remove", todo |-> Head(plan.matrices)]
        /\ launches' = launches + 1
        /\ UNCHANGED <<fs, job>>
    BY <1>4 DEF RunMatrix, StartMatrix
  <2>2. /\ Tail(plan.matrices) \in Seq(Seq(Scenario) \ {<< >>})
        /\ Head(plan.matrices) \in Seq(Scenario) \ {<< >>}
    BY <1>0, <2>1 DEF PlanTyped
  <2>3. PlanTyped'
    <3>1. plan' = [runs |-> plan.runs, matrices |-> Tail(plan.matrices),
                   selections |-> plan.selections, scores |-> plan.scores]
      BY <1>0, <2>1 DEF PlanTyped
    <3> QED BY <1>0, <2>2, <3>1 DEF PlanTyped
  <2>4. MatrixPlace'
    BY <2>1, <2>2 DEF MatrixPlace, NoMatrix
  <2>5. OneModel(ModelsKnown(fs, ToSet(job.left)), launches + 1)
    BY <1>0, OneModelLater
  <2> QED BY <1>0, <1>10, <2>1, <2>3, <2>4, <2>5 DEF FilesInv
<1>5. CASE RemoveRaw /\ UNCHANGED <<artifacts, selection, plan>>
  <2>1. /\ matrix.at = "remove"
        /\ fs' = [fs EXCEPT !["bench_summary"][now] = 0, !["cpu_summary"][now] = 0]
        /\ matrix' = [matrix EXCEPT !.at = "prepare"]
        /\ UNCHANGED <<job, launches, plan>>
    BY <1>5 DEF RemoveRaw
  <2>2. now \in Scenario
    BY <1>1, <1>2, <2>1
  <2>3. /\ RawFiles \subseteq FileNames /\ RawFiles \cap PlainFiles = {}
        /\ ModelFiles \subseteq FileNames /\ RawFiles \cap ModelFiles = {}
    <3>1. \A g \in ToSet(Phase6Sources) : g \notin {"bench_summary", "cpu_summary"}
      BY DEF ToSet, Phase6Sources
    <3> QED BY <3>1
        DEF RawFiles, ModelFiles, FileNames, Collections, PlainFiles, WindowFiles, Phase6Summaries
  <2>4. fs = [g \in FileNames |-> fs[g]] /\ \A g \in FileNames : Sound(g, fs[g])
    BY <1>0 DEF SoundFiles
  <2>5. /\ fs' = [g \in FileNames |-> fs'[g]]
        /\ \A g \in FileNames \ RawFiles : fs'[g] = fs[g]
        /\ fs'["bench_summary"] = [fs["bench_summary"] EXCEPT ![now] = 0]
        /\ fs'["cpu_summary"] = [fs["cpu_summary"] EXCEPT ![now] = 0]
    <3> HIDE DEF now
    <3> QED BY <2>1, <2>3, <2>4 DEF RawFiles
  <2>6. SoundFiles(fs')
    BY <2>3, <2>4, <2>5 DEF SoundFiles, Sound
  <2>7. ModelsKnown(fs', ToSet(job.left)) = ModelsKnown(fs, ToSet(job.left))
    BY <2>3, <2>5 DEF ModelsKnown, ModelFiles
  <2>8. RawPaired(fs') /\ fs'["cpu_summary"][now] = 0
    <3> HIDE DEF now
    <3> QED BY <1>0, <2>2, <2>5 DEF RawPaired
  <2>9. MatrixPlace'
    BY <1>1, <2>1, <2>8 DEF MatrixPlace, NoMatrix
  <2> QED BY <1>0, <1>10, <2>1, <2>6, <2>7, <2>8, <2>9 DEF FilesInv, PlanTyped
<1>6. CASE StartBench /\ UNCHANGED <<artifacts, selection, plan>>
  <2>1. /\ matrix.at = "prepare" /\ matrix' = [matrix EXCEPT !.at = "bench"]
        /\ UNCHANGED <<fs, job, launches, plan>>
    BY <1>6 DEF StartBench, batchVars
  <2>2. MatrixPlace'
    BY <1>1, <2>1 DEF MatrixPlace, NoMatrix
  <2> QED BY <1>0, <1>10, <2>1, <2>2 DEF FilesInv, PlanTyped
<1>7. CASE WriteBenchSummary /\ UNCHANGED <<artifacts, selection, plan>>
  <2>1. /\ matrix.at = "bench" /\ matrix' = [matrix EXCEPT !.at = "cpu"]
        /\ fs' = [fs EXCEPT !["bench_summary"] = [fs["bench_summary"] EXCEPT ![now] = launches]]
        /\ UNCHANGED <<job, launches, plan>>
    BY <1>7 DEF WriteBenchSummary, RawFile
  <2>2. now \in Scenario /\ fs["cpu_summary"][now] = 0
    BY <1>1, <1>2, <2>1
  <2>3. /\ SoundFiles(fs') /\ RawPaired(fs')
        /\ ModelsKnown(fs', ToSet(job.left)) = ModelsKnown(fs, ToSet(job.left))
        /\ fs'["bench_summary"][now] = launches
    <3> HIDE DEF now
    <3> QED BY <1>0, <1>3, <2>1, <2>2 DEF RawFiles
  <2>4. MatrixPlace'
    BY <1>1, <2>1, <2>3 DEF MatrixPlace, NoMatrix
  <2> QED BY <1>0, <1>10, <2>1, <2>3, <2>4 DEF FilesInv, PlanTyped
<1>8. CASE WriteCpuSummary /\ UNCHANGED <<artifacts, selection, plan>>
  <2>1. /\ matrix.at = "cpu"
        /\ matrix' = [matrix EXCEPT !.at = IF Len(matrix.todo) > 1 THEN "remove" ELSE "export",
                                    !.todo = Tail(@)]
        /\ fs' = [fs EXCEPT !["cpu_summary"] = [fs["cpu_summary"] EXCEPT ![now] = launches]]
        /\ UNCHANGED <<job, launches, plan>>
    BY <1>8 DEF WriteCpuSummary, RawFile
  <2>2. now \in Scenario /\ fs["bench_summary"][now] = launches
    BY <1>1, <1>2, <2>1
  <2>3. /\ SoundFiles(fs') /\ RawPaired(fs')
        /\ ModelsKnown(fs', ToSet(job.left)) = ModelsKnown(fs, ToSet(job.left))
    <3> HIDE DEF now
    <3> QED BY <1>0, <1>3, <2>1, <2>2 DEF RawFiles
  <2>4. MatrixPlace'
    <3>1. /\ matrix'.todo = Tail(matrix.todo)
          /\ matrix'.at = IF Len(matrix.todo) > 1 THEN "remove" ELSE "export"
          /\ matrix' = [at |-> matrix'.at, todo |-> matrix'.todo]
      BY <1>1, <2>1
    <3>2. Len(matrix.todo) > 1 => Tail(matrix.todo) # << >>
      <4> DEFINE rest == Tail(matrix.todo)
                 n == Len(matrix.todo)
      <4>1. n \in Nat /\ Len(rest) = n - 1
        BY <1>1, <1>2, <2>1
      <4> HIDE DEF rest, n
      <4>2. n > 1 => rest # << >>
        BY <4>1
      <4> QED BY <4>2 DEF rest, n
    <3>3. matrix # NoMatrix
      BY <2>1 DEF NoMatrix
    <3> QED BY <1>1, <1>2, <2>1, <3>1, <3>2, <3>3 DEF MatrixPlace
  <2> QED BY <1>0, <1>10, <2>1, <2>3, <2>4 DEF FilesInv, PlanTyped
<1>9. CASE FailExperiment /\ UNCHANGED <<artifacts, selection, plan>>
  <2>1. matrix' = NoMatrix /\ UNCHANGED <<fs, job, launches, plan>>
    BY <1>9 DEF FailExperiment
  <2>2. MatrixPlace'
    BY <2>1 DEF MatrixPlace, NoMatrix
  <2> QED BY <1>0, <1>10, <2>1, <2>2 DEF FilesInv, PlanTyped
<1> QED BY <1>4, <1>5, <1>6, <1>7, <1>8, <1>9

\* The export at the end of a matrix run.
LEMMA ExportKeeps ==
  ASSUME FilesInv, ExportMatrix, UNCHANGED <<artifacts, selection, plan>>
  PROVE  FilesInv'
<1> DEFINE W == Output("phase5_export", fs, << >>, launches + 1).writes
<1>1. matrix' = NoMatrix
  BY DEF ExportMatrix
<1>2. MatrixPlace'
  BY <1>1 DEF MatrixPlace, NoMatrix
<1>3. PlanTyped'
  BY DEF FilesInv, PlanTyped
<1>7. InputsTyped'
  BY DEF FilesInv, InputsTyped, Inputs
<1>4. W = Phase5Export(fs, launches + 1).writes
  BY DEF Output
<1>5. CASE \E ok : Launch("phase5_export", Output("phase5_export", fs, << >>, launches + 1).writes, ok)
  <2>1. /\ launches' \in Nat /\ IsSeq(job'.left)
        /\ job' # Idle /\ job'.left # << >> /\ job'.prog \in Program
        /\ job' = [prog |-> job'.prog, left |-> job'.left, ok |-> job'.ok]
        /\ SoundFiles(fs') /\ SoundWrites(job'.prog, ToSet(job'.left)) /\ RawPaired(fs')
        /\ OneModel(ModelsKnown(fs', ToSet(job'.left)), launches')
    <3>1. "phase5_export" \in Program /\ ScoreTyped("phase5_export", << >>)
      BY DEF Program, ScoreTyped
    <3> QED BY <1>5, <3>1, LaunchKeeps
  <2> QED BY <1>2, <1>3, <1>7, <2>1 DEF FilesInv
<1>6. CASE UNCHANGED batchVars
  BY <1>2, <1>3, <1>6, <1>7 DEF FilesInv, batchVars
<1> QED BY <1>4, <1>5, <1>6 DEF ExportMatrix


\* What is left of a file that was cut in its windows or its rows.
LEMMA TornWindows ==
  ASSUME NEW f \in WindowFiles, NEW old, NEW new, NEW cut \in Torn(f, old, new),
         Sound(f, new)
  PROVE  \/ cut = old
         \/ cut = new /\ new \in {Absent, Unreadable}
         \/ /\ new \notin {Absent, Unreadable} /\ cut \notin {Absent, Unreadable}
            /\ cut \in (IF f = "windows_all" THEN AllWindows ELSE PartWindows)
            /\ cut.split = new.split /\ ~cut.whole
            /\ f = "windows_all" => cut.build = new.build
            /\ ToSet(cut.rows) \subseteq ToSet(new.rows)
<1>1. cut = old \/ \E n \in 0 .. Len(new.rows) - 1 :
                      cut = [new EXCEPT !.rows = SubSeq(@, 1, n), !.whole = FALSE]
  <2> DEFINE A == {[new EXCEPT !.rows = SubSeq(@, 1, n), !.whole = FALSE] : n \in 0 .. Len(new.rows) - 1}
  <2>1. f \in WindowFiles /\ f # "raw_index" /\ f \notin ModelFiles /\ f \notin CopyDirectories
    BY DEF WindowFiles, ModelFiles, CopyDirectories
  <2>2. PICK B, C, D : cut \in {old} \union
                        CASE f \in WindowFiles -> A
                          [] f = "raw_index" -> B
                          [] f \in ModelFiles -> {}
                          [] f \in CopyDirectories -> C
                          [] OTHER -> D
    BY Zenon DEF Torn
  <2> DEFINE more == CASE f \in WindowFiles -> A
                       [] f = "raw_index" -> B
                       [] f \in ModelFiles -> {}
                       [] f \in CopyDirectories -> C
                       [] OTHER -> D
  <2>3. more = A
    <3> HIDE DEF A
    <3> QED BY <2>1, Zenon
  <2>4. cut = old \/ cut \in A
    <3> HIDE DEF A
    <3> QED BY <2>2, <2>3
  <2> QED BY <2>4
<1>2. SUFFICES ASSUME NEW n \in 0 .. Len(new.rows) - 1,
                      cut = [new EXCEPT !.rows = SubSeq(@, 1, n), !.whole = FALSE]
               PROVE  \/ cut = new /\ new \in {Absent, Unreadable}
                      \/ /\ new \notin {Absent, Unreadable} /\ cut \notin {Absent, Unreadable}
                         /\ cut \in (IF f = "windows_all" THEN AllWindows ELSE PartWindows)
                         /\ cut.split = new.split /\ ~cut.whole
                         /\ f = "windows_all" => cut.build = new.build
                         /\ ToSet(cut.rows) \subseteq ToSet(new.rows)
  BY <1>1
<1> DEFINE rest == SubSeq(new.rows, 1, n)
<1>3. cut = [new EXCEPT !.rows = rest, !.whole = FALSE]
  BY <1>2
<1>4. CASE new \in {Absent, Unreadable}
  <2>1. DOMAIN new = {"state"} /\ new = [x \in {"state"} |-> new[x]]
    BY <1>4 DEF Absent, Unreadable
  <2>2. cut = [x \in {"state"} |-> IF x = "whole" THEN FALSE ELSE IF x = "rows" THEN rest ELSE new[x]]
    <3> HIDE DEF rest
    <3> QED BY <1>3, <2>1
  <2> HIDE DEF rest
  <2>3. cut = new
    BY <2>1, <2>2
  <2> QED BY <1>4, <2>3
<1>5. CASE new \notin {Absent, Unreadable}
  <2>0. new.rows \in Seq(WindowRow)
        => rest \in Seq(WindowRow) /\ ToSet(rest) \subseteq ToSet(new.rows)
    <3> SUFFICES ASSUME new.rows \in Seq(WindowRow)
                 PROVE  rest \in Seq(WindowRow) /\ ToSet(rest) \subseteq ToSet(new.rows)
      OBVIOUS
    <3> DEFINE s == new.rows
               t == SubSeq(s, 1, n)
    <3>1. s \in Seq(WindowRow) /\ n \in 0 .. Len(s) - 1 /\ Len(s) \in Nat
      OBVIOUS
    <3> HIDE DEF s
    <3>2. t \in Seq(WindowRow) /\ Len(t) = n /\ \A i \in 1 .. n : t[i] = s[i]
      BY <3>1
    <3>3. DOMAIN t = 1 .. n /\ DOMAIN s = 1 .. Len(s) /\ 1 .. n \subseteq 1 .. Len(s)
      BY <3>1, <3>2
    <3> HIDE DEF t
    <3>4. ToSet(t) \subseteq ToSet(s)
      BY <3>2, <3>3 DEF ToSet
    <3> QED BY <3>2, <3>4 DEF s, t
  <2> HIDE DEF rest
  <2>1. CASE f = "windows_all"
    <3>1. new \in AllWindows
      BY <1>5, <2>1, CheckedFiles DEF Sound, Checked
    <3>2. DOMAIN new = {"build", "split", "whole", "rows"}
      BY <3>1 DEF AllWindows
    <3>3. cut = [x \in {"build", "split", "whole", "rows"} |->
                   IF x = "whole" THEN FALSE ELSE IF x = "rows" THEN rest ELSE new[x]]
      BY <1>3, <3>2
    <3>4. cut = [build |-> new.build, split |-> new.split, whole |-> FALSE, rows |-> rest]
      BY <3>3
    <3> QED BY <1>5, <2>0, <2>1, <3>1, <3>4 DEF AllWindows, Absent, Unreadable
  <2>2. CASE f # "windows_all"
    <3>1. new \in PartWindows
      BY <1>5, <2>2, CheckedFiles DEF Sound, Checked, WindowFiles
    <3>2. DOMAIN new = {"split", "whole", "rows"}
      BY <3>1 DEF PartWindows
    <3>3. cut = [x \in {"split", "whole", "rows"} |->
                   IF x = "whole" THEN FALSE ELSE IF x = "rows" THEN rest ELSE new[x]]
      BY <1>3, <3>2
    <3>4. cut = [split |-> new.split, whole |-> FALSE, rows |-> rest]
      BY <3>3
    <3> QED BY <1>5, <2>0, <2>2, <3>1, <3>4 DEF PartWindows, Absent, Unreadable
  <2> QED BY <2>1, <2>2
<1> QED BY <1>4, <1>5

LEMMA TornIndex ==
  ASSUME NEW old, NEW new, NEW cut \in Torn("raw_index", old, new), Sound("raw_index", new)
  PROVE  \/ cut = old
         \/ cut = new /\ new \in {Absent, Unreadable}
         \/ /\ new \notin {Absent, Unreadable} /\ cut \notin {Absent, Unreadable}
            /\ cut = [build |-> new.build, rows |-> cut.rows]
            /\ \E k : cut.rows = [e \in {d \in DOMAIN new.rows : d < k} |-> new.rows[e]]
<1>1. cut = old \/ \E k \in DOMAIN new.rows :
                      cut = [new EXCEPT !.rows = [e \in {d \in DOMAIN @ : d < k} |-> @[e]]]
  <2> DEFINE f == "raw_index"
             B == {[new EXCEPT !.rows = [e \in {d \in DOMAIN @ : d < k} |-> @[e]]] : k \in DOMAIN new.rows}
  <2>1. f \notin WindowFiles /\ f = "raw_index" /\ f \notin ModelFiles /\ f \notin CopyDirectories
    BY DEF WindowFiles, ModelFiles, CopyDirectories
  <2>2. PICK A, C, D : cut \in {old} \union
                        CASE f \in WindowFiles -> A
                          [] f = "raw_index" -> B
                          [] f \in ModelFiles -> {}
                          [] f \in CopyDirectories -> C
                          [] OTHER -> D
    BY Zenon DEF Torn
  <2> DEFINE more == CASE f \in WindowFiles -> A
                       [] f = "raw_index" -> B
                       [] f \in ModelFiles -> {}
                       [] f \in CopyDirectories -> C
                       [] OTHER -> D
  <2>3. more = B
    <3> HIDE DEF B, f
    <3> QED BY <2>1, Zenon
  <2>4. cut = old \/ cut \in B
    <3> HIDE DEF B
    <3> QED BY <2>2, <2>3
  <2> QED BY <2>4
<1>2. SUFFICES ASSUME NEW k,
                      cut = [new EXCEPT !.rows = [e \in {d \in DOMAIN @ : d < k} |-> @[e]]]
               PROVE  \/ cut = new /\ new \in {Absent, Unreadable}
                      \/ /\ new \notin {Absent, Unreadable} /\ cut \notin {Absent, Unreadable}
                         /\ cut = [build |-> new.build, rows |-> cut.rows]
                         /\ cut.rows = [e \in {d \in DOMAIN new.rows : d < k} |-> new.rows[e]]
  BY <1>1
<1> DEFINE rest == [e \in {d \in DOMAIN new.rows : d < k} |-> new.rows[e]]
<1>3. cut = [new EXCEPT !.rows = rest]
  BY <1>2
<1> HIDE DEF rest
<1>4. CASE new \in {Absent, Unreadable}
  <2>1. DOMAIN new = {"state"} /\ new = [x \in {"state"} |-> new[x]]
    BY <1>4 DEF Absent, Unreadable
  <2>2. cut = new
    BY <1>3, <2>1
  <2> QED BY <1>4, <2>2
<1>5. CASE new \notin {Absent, Unreadable}
  <2>1. new = [build |-> new.build, rows |-> new.rows]
    BY <1>5, CheckedFiles DEF Sound, Checked
  <2>2. cut = [build |-> new.build, rows |-> rest]
    BY <1>3, <2>1
  <2> QED BY <1>5, <2>2 DEF Absent, Unreadable, rest
<1> QED BY <1>4, <1>5

\* It is sound when the old and the new content are, and no model is cut.
LEMMA TornSound ==
  ASSUME NEW f, NEW old, NEW new, NEW cut \in Torn(f, old, new),
         Sound(f, old), Sound(f, new)
  PROVE  Sound(f, cut) /\ (f \in ModelFiles => cut = old)
<1>1. CASE f \in WindowFiles
  <2>1. cut \in AllWindows \cup PartWindows \/ cut = old \/ cut = new
    BY <1>1, TornWindows
  <2> QED BY <1>1, TornWindows DEF Sound, WindowFiles, ModelFiles
<1>2. CASE f = "raw_index"
  BY <1>2, TornIndex DEF Sound, ModelFiles
<1>3. CASE f \in CopyDirectories
  <2>1. f \notin Checked /\ f \notin ModelFiles
    BY <1>3 DEF CopyDirectories, Checked, ModelFiles
  <2> QED BY <2>1 DEF Sound, Checked
<1>4. CASE f \in ModelFiles
  <2>1. f \notin WindowFiles /\ f # "raw_index" /\ f \notin CopyDirectories
    BY <1>4 DEF ModelFiles, WindowFiles, CopyDirectories
  <2>2. PICK A, B, C, D : cut \in {old} \union
                           CASE f \in WindowFiles -> A
                             [] f = "raw_index" -> B
                             [] f \in ModelFiles -> {}
                             [] f \in CopyDirectories -> C
                             [] OTHER -> D
    BY Zenon DEF Torn
  <2> DEFINE more == CASE f \in WindowFiles -> A
                       [] f = "raw_index" -> B
                       [] f \in ModelFiles -> {}
                       [] f \in CopyDirectories -> C
                       [] OTHER -> D
  <2>3. more = {}
    BY <1>4, <2>1, Zenon
  <2>4. cut = old
    BY <2>2, <2>3
  <2> QED BY <1>4, <2>1, <2>4
<1>5. CASE f \notin WindowFiles \cup CopyDirectories \cup {"raw_index"} \cup ModelFiles
  <2>1. cut = old \/ cut = Unreadable
    BY <1>5 DEF Torn
  <2> QED BY <1>5, <2>1 DEF Sound
<1> QED BY <1>1, <1>2, <1>3, <1>4, <1>5


\* The next file is written, or the script is killed in it.
LEMMA FileStepKeeps ==
  ASSUME FilesInv, FileStep
  PROVE  FilesInv'
<1> DEFINE next == Head(job.left)
<1>0. /\ launches \in Nat /\ IsSeq(job.left)
      /\ job # Idle => job.left # << >>
      /\ SoundFiles(fs) /\ SoundWrites(job.prog, ToSet(job.left)) /\ RawPaired(fs)
      /\ OneModel(ModelsKnown(fs, ToSet(job.left)), launches)
      /\ PlanTyped /\ InputsTyped /\ MatrixPlace
      /\ job # Idle => job.prog \in Program
      /\ job = [prog |-> job.prog, left |-> job.left, ok |-> job.ok]
  BY DEF FilesInv
<1>1. /\ job # Idle /\ launches' = launches /\ plan' = plan /\ matrix' = matrix
      /\ artifacts' = artifacts /\ selection' = selection
  BY DEF FileStep, WriteFile, Kill
<1>2. next \in ToSet(job.left) /\ next.file \in FileNames \ RawFiles /\ Sound(next.file, next.content)
  BY <1>0, <1>1, TailOf, WrittenFiles DEF SoundWrites
<1>3. PICK new : /\ fs' = [fs EXCEPT ![next.file] = new]
                 /\ Sound(next.file, new)
                 /\ next.file \in ModelFiles => new \in {fs[next.file], next.content}
  <2>1. CASE WriteFile
    BY <1>2, <2>1 DEF WriteFile
  <2>2. CASE Kill
    <3>1. PICK cut \in Torn(next.file, fs[next.file], next.content) :
             fs' = [fs EXCEPT ![next.file] = cut]
      BY <2>2 DEF Kill
    <3>2. Sound(next.file, fs[next.file])
      BY <1>0, <1>2 DEF SoundFiles
    <3> HIDE DEF next
    <3>3. Sound(next.file, cut) /\ (next.file \in ModelFiles => cut = fs[next.file])
      BY <1>2, <3>1, <3>2, TornSound
    <3> QED BY <3>1, <3>3
  <2> QED BY <2>1, <2>2 DEF FileStep
<1>4. /\ IsSeq(job'.left) /\ ToSet(job'.left) \subseteq ToSet(job.left)
      /\ job' = [prog |-> job'.prog, left |-> job'.left, ok |-> job'.ok]
      /\ (job' # Idle => job'.left # << >> /\ job'.prog = job.prog)
      /\ (job' = Idle => job'.left = << >>)
  <2>1. CASE job' = Idle
    BY <2>1, IdleLeft DEF Idle
  <2>2. CASE job' # Idle
    <3>1. WriteFile /\ Len(job.left) > 1 /\ job' = [job EXCEPT !.left = Tail(@)]
      BY <2>2 DEF FileStep, WriteFile, Kill
    <3>2. job' = [prog |-> job.prog, left |-> Tail(job.left), ok |-> job.ok]
      BY <1>0, <3>1
    <3>3. Tail(job.left) # << >>
      <4> DEFINE rest == Tail(job.left)
                 n == Len(job.left)
      <4>1. n \in Nat /\ Len(rest) = n - 1 /\ n > 1
        BY <1>0, <1>1, <3>1, TailOf
      <4> HIDE DEF rest, n
      <4>2. rest # << >>
        BY <4>1
      <4> QED BY <4>2 DEF rest
    <3> QED BY <1>0, <1>1, <2>2, <3>2, <3>3, TailOf
  <2> QED BY <2>1, <2>2
<1> HIDE DEF next
<1>5. fs = [f \in FileNames |-> fs[f]] /\ \A f \in FileNames : Sound(f, fs[f])
  BY <1>0 DEF SoundFiles
<1>6. /\ fs' = [f \in FileNames |-> fs'[f]]
      /\ fs'[next.file] = new
      /\ \A f \in FileNames : f # next.file => fs'[f] = fs[f]
  BY <1>2, <1>3, <1>5
<1>7. SoundFiles(fs')
  BY <1>3, <1>5, <1>6 DEF SoundFiles
<1>8. RawFiles \subseteq FileNames /\ ModelFiles \subseteq FileNames
  BY WrittenFiles
<1>9. \A f \in RawFiles : fs'[f] = fs[f]
  BY <1>2, <1>6, <1>8
<1>10. RawPaired(fs')
  BY <1>0, <1>9 DEF RawPaired, RawFiles
<1>11. ModelsKnown(fs', ToSet(job'.left)) \subseteq ModelsKnown(fs, ToSet(job.left))
  <2>1. \A f \in ModelFiles : fs'[f] \subseteq ModelsKnown(fs, ToSet(job.left))
    <3> SUFFICES ASSUME NEW f \in ModelFiles PROVE fs'[f] \subseteq ModelsKnown(fs, ToSet(job.left))
      OBVIOUS
    <3>1. fs[f] \subseteq ModelsKnown(fs, ToSet(job.left))
      BY DEF ModelsKnown, ModelFiles
    <3>2. f = next.file => next.content \subseteq ModelsKnown(fs, ToSet(job.left))
      BY <1>2 DEF ModelsKnown
    <3> QED BY <1>3, <1>6, <1>8, <3>1, <3>2
  <2> QED BY <1>4, <2>1 DEF ModelsKnown, ModelFiles
<1>12. OneModel(ModelsKnown(fs', ToSet(job'.left)), launches)
  BY <1>0, <1>11 DEF OneModel
<1>13. SoundWrites(job'.prog, ToSet(job'.left))
  <2>1. CASE job' = Idle
    BY <1>4, <2>1, IdleLeft DEF SoundWrites
  <2>2. CASE job' # Idle
    BY <1>0, <1>4, <2>2 DEF SoundWrites
  <2> QED BY <2>1, <2>2
<1>16. InputsTyped'
  BY <1>0, <1>1 DEF InputsTyped, Inputs
<1>14. PlanTyped'
  BY <1>0, <1>1 DEF PlanTyped
<1>15. MatrixPlace'
  <2>1. matrix = NoMatrix
    BY <1>0, <1>1 DEF MatrixPlace
  <2> QED BY <1>1, <2>1 DEF MatrixPlace, NoMatrix
<1> QED BY <1>0, <1>1, <1>4, <1>7, <1>10, <1>12, <1>13, <1>14, <1>15, <1>16 DEF FilesInv

LEMMA FilesStep == FilesInv /\ [Next]_pipelineVars => FilesInv'
<1> SUFFICES ASSUME FilesInv, [Next]_pipelineVars PROVE FilesInv'
  OBVIOUS
<1>1. CASE UNCHANGED pipelineVars
  BY <1>1 DEF FilesInv, PlanTyped, InputsTyped, Inputs, MatrixPlace, pipelineVars, batchVars
<1>2. ASSUME NEW p \in Program, Start(p) PROVE FilesInv'
  BY <1>2, StartKeeps
<1>3. CASE RunMatrix
  BY <1>3, MatrixKeeps
<1>4. CASE EditSelection
  <2>1. /\ selection' \in plan.selections /\ UNCHANGED <<batchVars, matrix, artifacts, plan>>
    BY <1>4 DEF EditSelection
  <2>2. InputsTyped'
    BY <2>1 DEF FilesInv, InputsTyped, Inputs
  <2> QED BY <2>1, <2>2 DEF FilesInv, PlanTyped, MatrixPlace, batchVars
<1>5. CASE FileStep
  BY <1>5, FileStepKeeps
<1>6. CASE MatrixStep /\ UNCHANGED <<artifacts, selection, plan>>
  <2>1. ExportMatrix \/ RemoveRaw \/ StartBench \/ WriteBenchSummary \/ WriteCpuSummary \/ FailExperiment
    BY <1>6 DEF MatrixStep
  <2>2. UNCHANGED <<artifacts, selection, plan>>
    BY <1>6
  <2> QED BY <2>1, <2>2, ExportKeeps, MatrixKeeps
<1>7. CASE BenchRuns /\ UNCHANGED <<artifacts, selection, plan>>
  BY <1>7 DEF BenchRuns, FilesInv, PlanTyped, InputsTyped, Inputs, MatrixPlace, batchVars
<1> QED
  BY <1>1, <1>2, <1>3, <1>4, <1>5, <1>6, <1>7
  DEF Next, RunBuild, RunSplit, RunReport, RunTrain, RunPhase4Export, RunAblation,
      RunGeneralization, RunPhase6Export, RunPhase5Export, Program

LEMMA FilesInvHolds == Spec => []FilesInv
BY FilesInit, FilesStep, PTL DEF Spec

\* Each row of an exported overhead matrix has the throughput and the CPU time
\* of one and the same run of its scenario (phase5_run_matrix.sh:22).
THEOREM OverheadPairedHolds == Spec => []OverheadPaired
<1>1. FilesInv => OverheadPaired
  <2>1. "p5_matrix" \in FileNames
    BY CheckedFiles DEF Checked, FileNames
  <2> QED BY <2>1, CheckedFiles DEF Checked, FilesInv, SoundFiles, Sound, OverheadPaired, Readable
<1> QED BY <1>1, FilesInvHolds, PTL

\* The two models of a generalization are those of one training
\* (phase6_run_generalization.py:306).
THEOREM ModelsPairedHolds == Spec => []ModelsPaired
<1>1. FilesInv => ModelsPaired
  <2>1. "generalization_manifest" \in FileNames
    BY CheckedFiles DEF Checked, FileNames
  <2> QED BY <2>1, CheckedFiles DEF Checked, FilesInv, SoundFiles, Sound, ModelsPaired, Readable
<1> QED BY <1>1, FilesInvHolds, PTL

\* The row that a table has for the family of the best model scores as that
\* model does, although the export picks it anew
\* (phase4_export_paper_assets.py:99).
THEOREM BestFamilyRowHolds == Spec => []BestFamilyRow
<1>1. FilesInv => BestFamilyRow
  <2>1. {"p4_binary_table", "p4_multiclass_table"} \subseteq FileNames
    BY CheckedFiles DEF Checked, FileNames
  <2>2. ASSUME NEW f \in {"p4_binary_table", "p4_multiclass_table"}, FilesInv, Readable(fs, f)
        PROVE  /\ f = "p4_binary_table" => ShownBest("binary", fs[f])
               /\ f = "p4_multiclass_table" => ShownBest("multiclass", fs[f])
    BY <2>1, <2>2, CheckedFiles DEF Checked, FilesInv, SoundFiles, Sound, Readable
  <2> QED BY <2>2 DEF BestFamilyRow, BestRow, ShownBest
<1> QED BY <1>1, FilesInvHolds, PTL


---------------------------------------------------------------------------
(* What the manifests promise, and what a split leaves.                    *)

\* Script p is launched.
Launched(p, score) ==
    /\ job = Idle /\ ScoreTyped(p, score)
    /\ launches' = launches + 1 /\ fs' = fs /\ dirty' = dirty
    /\ job' # Idle /\ job'.prog = p
    /\ job'.left = Output(p, fs, score, launches + 1).writes
    /\ job'.ok = Output(p, fs, score, launches + 1).ok
    /\ job'.left # << >> /\ kills' = kills

\* No script makes a step; the matrix script may start, or write a raw file.
NoScript ==
    /\ job' = job /\ dirty' = dirty
    /\ launches' = launches \/ (launches' = launches + 1 /\ job = Idle)
    /\ kills' = kills \/ kills' = kills + 1
    /\ \A f \in FileNames \ RawFiles : fs'[f] = fs[f]

LEMMA StepKinds ==
  ASSUME FilesInv, [Next]_pipelineVars
  PROVE  \/ \E p \in Program : \E score : Launched(p, score)
         \/ NoScript \/ WriteFile \/ Kill
<1>1. ASSUME NEW p \in Program, NEW score, ScoreTyped(p, score),
             Launch(p, Output(p, fs, score, launches + 1).writes,
                    Output(p, fs, score, launches + 1).ok)
      PROVE  Launched(p, score)
  <2> DEFINE W == Output(p, fs, score, launches + 1).writes
             ok == Output(p, fs, score, launches + 1).ok
  <2>1. Launch(p, W, ok)
    BY <1>1
  <2> HIDE DEF W, ok
  <2>2. /\ job = Idle /\ job'.prog = p /\ job'.left = W /\ job'.ok = ok /\ W # << >>
        /\ launches' = launches + 1 /\ fs' = fs /\ dirty' = dirty /\ kills' = kills
    BY <2>1 DEF Launch
  <2>3. job' # Idle
    BY <2>2, IdleLeft
  <2> QED BY <1>1, <2>2, <2>3 DEF Launched, W, ok
<1>2. ASSUME UNCHANGED batchVars PROVE NoScript
  BY <1>2 DEF batchVars, NoScript
<1>3. CASE UNCHANGED pipelineVars
  BY <1>2, <1>3 DEF pipelineVars, batchVars
<1>4. ASSUME NEW p \in Program, Start(p) PROVE \E score : Launched(p, score)
  <2>1. PICK score \in (IF p = "train" THEN plan.scores ELSE {<< >>}) :
          Launch(p, Output(p, fs, score, launches + 1).writes, Output(p, fs, score, launches + 1).ok)
    BY <1>4, Zenon DEF Start
  <2>2. ScoreTyped(p, score)
    BY <2>1 DEF FilesInv, PlanTyped, ScoreTyped
  <2> QED BY <1>1, <2>1, <2>2
<1>5. CASE RunMatrix
  BY <1>5 DEF RunMatrix, StartMatrix, NoScript
<1>6. CASE EditSelection
  BY <1>2, <1>6 DEF EditSelection, batchVars
<1>7. CASE FileStep
  BY <1>7 DEF FileStep
<1>8. CASE MatrixStep
  <2>1. fs = [f \in FileNames |-> fs[f]]
    BY DEF FilesInv, SoundFiles
  <2>2. CASE RemoveRaw
    <3> DEFINE s == Head(matrix.todo)
    <3>1. /\ fs' = [fs EXCEPT !["bench_summary"][s] = 0, !["cpu_summary"][s] = 0]
          /\ job' = job /\ dirty' = dirty /\ launches' = launches /\ kills' = kills
      BY <2>2 DEF RemoveRaw
    <3> HIDE DEF s
    <3> QED BY <2>1, <3>1 DEF NoScript, RawFiles
  <2>3. CASE WriteBenchSummary \/ WriteCpuSummary
    <3> DEFINE s == Head(matrix.todo)
    <3>1. /\ \/ fs' = [fs EXCEPT !["bench_summary"][s] = launches]
             \/ fs' = [fs EXCEPT !["cpu_summary"][s] = launches]
          /\ job' = job /\ dirty' = dirty /\ launches' = launches /\ kills' = kills
      BY <2>3 DEF WriteBenchSummary, WriteCpuSummary, RawFile
    <3> HIDE DEF s
    <3> QED BY <2>1, <3>1 DEF NoScript, RawFiles
  <2>4. CASE StartBench
    BY <1>2, <2>4 DEF StartBench, batchVars
  <2>5. CASE FailExperiment
    BY <2>5 DEF FailExperiment, NoScript
  <2>6. CASE ExportMatrix
    <3> DEFINE score == << >>
    <3>1. "phase5_export" \in Program /\ ScoreTyped("phase5_export", score)
      BY DEF Program, ScoreTyped
    <3>2. Output("phase5_export", fs, score, launches + 1) = Phase5Export(fs, launches + 1)
      BY DEF Output
    <3>3. \/ Launch("phase5_export", Phase5Export(fs, launches + 1).writes, Phase5Export(fs, launches + 1).ok)
          \/ UNCHANGED batchVars
      BY <2>6 DEF ExportMatrix
    <3> HIDE DEF score
    <3> QED BY <1>1, <1>2, <3>1, <3>2, <3>3
  <2> QED BY <1>8, <2>2, <2>3, <2>4, <2>5, <2>6 DEF MatrixStep
<1>9. CASE BenchRuns
  BY <1>2, <1>9 DEF BenchRuns, batchVars
<1> QED
  BY <1>3, <1>4, <1>5, <1>6, <1>7, <1>8, <1>9
  DEF Next, RunBuild, RunSplit, RunReport, RunTrain, RunPhase4Export, RunAblation,
      RunGeneralization, RunPhase6Export, RunPhase5Export, Program

\* A script that writes its next file, or is killed in it.
LEMMA JobStep ==
  ASSUME FilesInv, WriteFile \/ Kill
  PROVE  LET w == Head(job.left)
             T == Tail(job.left)
         IN  /\ job # Idle /\ job.prog \in Program /\ launches' = launches /\ launches \in Nat
             /\ IsSeq(job.left) /\ SoundWrites(job.prog, ToSet(job.left))
             /\ Len(job.left) \in Nat \ {0} /\ w = job.left[1] /\ IsSeq(T)
             /\ Len(T) = Len(job.left) - 1 /\ \A i \in 1 .. Len(T) : T[i] = job.left[i + 1]
             /\ w.file \in WrittenBy[job.prog] /\ w.file \in FileNames \ RawFiles
             /\ Sound(w.file, w.content) /\ Sound(w.file, fs[w.file])
             /\ DOMAIN fs = FileNames /\ DOMAIN fs' = FileNames
             /\ \A f \in FileNames : f # w.file => fs'[f] = fs[f]
             /\ WriteFile => /\ fs' = [fs EXCEPT ![w.file] = w.content]
                             /\ fs'[w.file] = w.content
                             /\ kills' = kills
                             /\ \/ /\ job' # Idle /\ job'.prog = job.prog /\ job'.left = T
                                   /\ job'.ok = job.ok
                                   /\ T # << >> /\ dirty' = dirty \cup {job.prog}
                                \/ /\ job' = Idle /\ T = << >> /\ Len(job.left) = 1
                                   /\ dirty' = IF job.ok THEN dirty \ {job.prog}
                                                         ELSE dirty \cup {job.prog}
             /\ Kill => /\ job' = Idle /\ dirty' = dirty \cup {job.prog} /\ kills' = kills + 1
                        /\ fs'[w.file] \in Torn(w.file, fs[w.file], w.content)
<1> DEFINE w == Head(job.left)
           T == Tail(job.left)
<1>1. job # Idle /\ launches' = launches
  BY DEF WriteFile, Kill
<1>2. /\ job.prog \in Program /\ launches \in Nat /\ job.left # << >>
      /\ IsSeq(job.left) /\ SoundWrites(job.prog, ToSet(job.left)) /\ SoundFiles(fs)
  BY <1>1 DEF FilesInv
<1>3. /\ Len(job.left) \in Nat \ {0} /\ w = job.left[1] /\ IsSeq(T) /\ w \in ToSet(job.left)
      /\ Len(T) = Len(job.left) - 1 /\ \A i \in 1 .. Len(job.left) - 1 : T[i] = job.left[i + 1]
  BY <1>2, TailOf
<1>4. /\ w.file \in WrittenBy[job.prog] /\ w.file \in FileNames \ RawFiles
      /\ Sound(w.file, w.content)
  BY <1>2, <1>3, WrittenFiles DEF SoundWrites
<1>5. fs = [f \in FileNames |-> fs[f]] /\ Sound(w.file, fs[w.file])
  BY <1>2, <1>4 DEF SoundFiles
<1> HIDE DEF w, T
<1>6. WriteFile => fs' = [fs EXCEPT ![w.file] = w.content]
  BY DEF WriteFile, w
<1>7. Kill => \E cut \in Torn(w.file, fs[w.file], w.content) : fs' = [fs EXCEPT ![w.file] = cut]
  BY DEF Kill, w
<1>8. /\ DOMAIN fs = FileNames /\ DOMAIN fs' = FileNames
      /\ \A f \in FileNames : f # w.file => fs'[f] = fs[f]
      /\ WriteFile => fs'[w.file] = w.content
      /\ Kill => fs'[w.file] \in Torn(w.file, fs[w.file], w.content)
  BY <1>4, <1>5, <1>6, <1>7
<1>9. ASSUME WriteFile
      PROVE  \/ /\ job' # Idle /\ job'.prog = job.prog /\ job'.left = T /\ job'.ok = job.ok
                /\ T # << >> /\ dirty' = dirty \cup {job.prog}
             \/ /\ job' = Idle /\ T = << >> /\ Len(job.left) = 1
                /\ dirty' = IF job.ok THEN dirty \ {job.prog} ELSE dirty \cup {job.prog}
  <2>1. CASE Len(job.left) > 1
    <3>1. job' = [job EXCEPT !.left = Tail(@)] /\ dirty' = dirty \cup {job.prog}
      BY <1>9, <2>1 DEF WriteFile
    <3>2. T # << >>
      <4>1. Len(T) # 0
        BY <1>3, <2>1
      <4> QED BY <4>1
    <3>3. job = [prog |-> job.prog, left |-> job.left, ok |-> job.ok]
      BY DEF FilesInv
    <3>4. job' = [prog |-> job.prog, left |-> T, ok |-> job.ok]
      BY <3>1, <3>3 DEF T
    <3>5. job' # Idle
      BY <3>2, <3>4, IdleLeft
    <3> QED BY <3>1, <3>2, <3>4, <3>5
  <2>2. CASE ~(Len(job.left) > 1)
    <3>1. job' = Idle /\ dirty' = IF job.ok THEN dirty \ {job.prog} ELSE dirty \cup {job.prog}
      BY <1>9, <2>2 DEF WriteFile
    <3>2. Len(job.left) = 1 /\ T = << >>
      <4>1. Len(job.left) = 1
        <5> DEFINE n == Len(job.left)
        <5>1. n \in Nat \ {0} /\ ~(n > 1)
          BY <1>3, <2>2
        <5> HIDE DEF n
        <5>2. n = 1
          BY <5>1
        <5> QED BY <5>2 DEF n
      <4>2. Len(T) = 0 /\ T \in Seq(ToSet(T))
        BY <1>3, <4>1 DEF IsSeq
      <4> QED BY <4>1, <4>2
    <3> QED BY <3>1, <3>2
  <2> QED BY <2>1, <2>2
<1>10. /\ Kill => job' = Idle /\ dirty' = dirty \cup {job.prog} /\ kills' = kills + 1
       /\ WriteFile => kills' = kills
  BY DEF Kill, WriteFile
<1> QED BY <1>1, <1>2, <1>3, <1>4, <1>5, <1>6, <1>8, <1>9, <1>10 DEF w, T

\* Between two scripts a manifest names a launch that was; a script that runs
\* has not yet named its own.
PubInv ==
    \A m \in Manifests :
        /\ Published(m, fs) \in 0 .. launches
        /\ job # Idle => /\ Published(m, fs) < launches
                         /\ PubPlan(m, job.prog, fs, job.left, launches)

LEMMA ManifestFiles ==
  \A m \in Manifests : /\ m \in FileNames \ RawFiles /\ FilesOf[m] \subseteq FileNames \ RawFiles
                       /\ m \notin FilesOf[m]
                       /\ m \notin WindowFiles \cup CopyDirectories \cup ModelFiles \cup {"raw_index"}
<1>1. /\ Manifests \cup UNION {FilesOf[m] : m \in Manifests} \subseteq UNION {WrittenBy[p] : p \in Program}
  BY DEF Manifests, FilesOf, WrittenBy, Program
<1>2. \A p \in Program : WrittenBy[p] \subseteq FileNames \ RawFiles
  BY WrittenFiles
<1>3. \A m \in Manifests : /\ m \notin FilesOf[m]
                           /\ m \notin WindowFiles \cup CopyDirectories \cup ModelFiles \cup {"raw_index"}
  BY DEF Manifests, FilesOf, WindowFiles, CopyDirectories, ModelFiles
<1> QED BY <1>1, <1>2, <1>3

\* The plan after its first file, unless that was the last.
LEMMA PlanStep ==
  ASSUME NEW m \in Manifests, NEW p, NEW files, NEW new, NEW W, NEW T, NEW n,
         Len(W) \in Nat \ {0}, Len(T) = Len(W) - 1, \A i \in 1 .. Len(T) : T[i] = W[i + 1],
         Len(T) # 0, PubPlan(m, p, files, W, n), new[W[1].file] = W[1].content,
         \A f \in FilesOf[m] \cup {m} : f # W[1].file => new[f] = files[f]
  PROVE  PubPlan(m, p, new, T, n) /\ Published(m, new) = Published(m, files)
<1> DEFINE k == Len(W)
           l == Len(T)
<1>1. k \in Nat \ {0} /\ l = k - 1 /\ l # 0 /\ \A i \in 1 .. l : i + 1 \in 1 .. k /\ T[i] = W[i + 1]
  OBVIOUS
<1>2. /\ \A i \in 1 .. k : W[i].file = m => i = k
      /\ \A i, j \in 1 .. k : W[i].file \in FilesOf[m] /\ W[i].file = W[j].file => i = j
      /\ \A i \in 1 .. k :
            W[i].file = m => /\ W[i].content \notin {Absent, Unreadable}
                             /\ W[i].content[Field[m]]
                                = IF p = WriterOf[m] THEN n ELSE Published(m, files)
      /\ \A i \in 1 .. k :
            W[i].file \in FilesOf[m]
            => IF p = WriterOf[m]
                 THEN OfLaunch(m, W[i].file, W[i].content, n)
                 ELSE \A r \in Nat \ {0} : OfLaunch(m, W[i].file, W[i].content, r)
                                           => OfLaunch(m, W[i].file, files[W[i].file], r)
      /\ p = WriterOf[m]
         => \A i \in 1 .. k :
               W[i].file = m
               => \A f \in FilesOf[m] : \/ OfLaunch(m, f, files[f], n)
                                        \/ \E j \in 1 .. k : W[j].file = f
  BY DEF PubPlan
<1> HIDE DEF k, l
<1>3. 1 \in 1 .. k /\ 1 # k
  BY <1>1
<1>4. W[1].file # m /\ new[m] = files[m]
  BY <1>2, <1>3
<1>5. Published(m, new) = Published(m, files)
  BY <1>4 DEF Published, Readable
<1>6. \A i \in 1 .. l : T[i].file \in FilesOf[m] => new[T[i].file] = files[T[i].file]
  <2> SUFFICES ASSUME NEW i \in 1 .. l, T[i].file \in FilesOf[m]
               PROVE  new[T[i].file] = files[T[i].file]
    OBVIOUS
  <2>1. i + 1 \in 1 .. k /\ T[i] = W[i + 1] /\ i + 1 # 1
    BY <1>1
  <2>2. W[i + 1].file # W[1].file
    BY <1>2, <1>3, <2>1
  <2> QED BY <2>1, <2>2
<1>7. \A i \in 1 .. l : T[i].file = m => i = l
  BY <1>1, <1>2
<1>8. \A i, j \in 1 .. l : T[i].file \in FilesOf[m] /\ T[i].file = T[j].file => i = j
  <2> SUFFICES ASSUME NEW i \in 1 .. l, NEW j \in 1 .. l,
                      T[i].file \in FilesOf[m], T[i].file = T[j].file
               PROVE  i = j
    OBVIOUS
  <2> DEFINE a == i + 1
             b == j + 1
  <2>1. a \in 1 .. k /\ b \in 1 .. k /\ T[i] = W[a] /\ T[j] = W[b]
    BY <1>1
  <2>2. a = b => i = j
    OBVIOUS
  <2> HIDE DEF a, b
  <2>3. a = b
    BY <1>2, <2>1
  <2> QED BY <2>2, <2>3
<1>9. \A i \in 1 .. l :
        T[i].file = m => /\ T[i].content \notin {Absent, Unreadable}
                         /\ T[i].content[Field[m]]
                            = IF p = WriterOf[m] THEN n ELSE Published(m, new)
  <2> TAKE i \in 1 .. l
  <2> DEFINE a == i + 1
  <2>1. a \in 1 .. k /\ T[i] = W[a]
    BY <1>1
  <2> HIDE DEF a
  <2>2. W[a].file = m => /\ W[a].content \notin {Absent, Unreadable}
                         /\ W[a].content[Field[m]]
                            = IF p = WriterOf[m] THEN n ELSE Published(m, files)
    BY <1>2, <2>1
  <2> QED BY <1>5, <2>1, <2>2
<1>10. \A i \in 1 .. l :
         T[i].file \in FilesOf[m]
         => IF p = WriterOf[m]
              THEN OfLaunch(m, T[i].file, T[i].content, n)
              ELSE \A r \in Nat \ {0} : OfLaunch(m, T[i].file, T[i].content, r)
                                        => OfLaunch(m, T[i].file, new[T[i].file], r)
  <2> SUFFICES ASSUME NEW i \in 1 .. l, T[i].file \in FilesOf[m]
               PROVE  IF p = WriterOf[m]
                        THEN OfLaunch(m, T[i].file, T[i].content, n)
                        ELSE \A r \in Nat \ {0} : OfLaunch(m, T[i].file, T[i].content, r)
                                                  => OfLaunch(m, T[i].file, new[T[i].file], r)
    OBVIOUS
  <2> DEFINE a == i + 1
  <2>1. a \in 1 .. k /\ T[i] = W[a]
    BY <1>1
  <2> HIDE DEF a
  <2>2. IF p = WriterOf[m]
          THEN OfLaunch(m, W[a].file, W[a].content, n)
          ELSE \A r \in Nat \ {0} : OfLaunch(m, W[a].file, W[a].content, r)
                                    => OfLaunch(m, W[a].file, files[W[a].file], r)
    BY <1>2, <2>1
  <2>3. new[T[i].file] = files[T[i].file]
    BY <1>6
  <2> QED BY <2>1, <2>2, <2>3
<1>11. ASSUME p = WriterOf[m], NEW i \in 1 .. l, T[i].file = m, NEW f \in FilesOf[m]
       PROVE  OfLaunch(m, f, new[f], n) \/ \E j \in 1 .. l : T[j].file = f
  <2>1. i + 1 \in 1 .. k /\ W[i + 1].file = m
    BY <1>1, <1>11
  <2>2. CASE W[1].file = f
    BY <1>2, <1>3, <1>11, <2>2
  <2>3. CASE W[1].file # f
    <3>1. OfLaunch(m, f, files[f], n) \/ \E j \in 1 .. k : W[j].file = f
      BY <1>2, <1>11, <2>1
    <3>2. \A j \in 1 .. k : W[j].file = f => j - 1 \in 1 .. l /\ T[j - 1] = W[j]
      <4> SUFFICES ASSUME NEW j \in 1 .. k, W[j].file = f PROVE j - 1 \in 1 .. l /\ T[j - 1] = W[j]
        OBVIOUS
      <4>1. j # 1
        BY <2>3
      <4>2. j - 1 \in 1 .. l /\ (j - 1) + 1 = j
        BY <1>1, <4>1
      <4> QED BY <1>1, <4>2
    <3> QED BY <2>3, <3>1, <3>2
  <2> QED BY <2>2, <2>3
<1>12. PubPlan(m, p, new, T, n)
  BY <1>7, <1>8, <1>9, <1>10, <1>11 DEF PubPlan, l
<1> QED BY <1>5, <1>12

\* What a kill leaves of a file was of a launch, or would have been.
LEMMA TornOther ==
  ASSUME NEW f, NEW old, NEW new, NEW cut \in Torn(f, old, new),
         f \notin WindowFiles \cup CopyDirectories \cup ModelFiles \cup {"raw_index"}
  PROVE  cut = old \/ cut = Unreadable
BY DEF Torn

LEMMA TornClaims ==
  ASSUME NEW m \in Manifests, NEW f \in FilesOf[m], NEW old, NEW new,
         NEW cut \in Torn(f, old, new), Sound(f, new), NEW k, OfLaunch(m, f, cut, k)
  PROVE  OfLaunch(m, f, old, k) \/ OfLaunch(m, f, new, k)
<1>1. CASE f \in WindowFiles
  <2>1. \/ cut = old
        \/ cut = new /\ new \in {Absent, Unreadable}
        \/ /\ new \notin {Absent, Unreadable}
           /\ cut.split = new.split /\ ~cut.whole
           /\ f = "windows_all" => cut.build = new.build
    BY <1>1, TornWindows
  <2>2. f \notin CutOf[m] => m = "splits" /\ f = "windows_all"
    BY <1>1 DEF CutOf, FilesOf, Manifests, WindowFiles
  <2>3. "splits" \in Manifests /\ Field["splits"] = "split"
        /\ "windows_all" \notin CutOf["splits"]
    BY DEF Manifests, Field, CutOf
  <2>4. CASE f \in CutOf[m]
    BY <2>1, <2>4 DEF OfLaunch
  <2>5. CASE f \notin CutOf[m]
    <3>1. f \notin CutOf["splits"] /\ m = "splits"
      BY <2>2, <2>5
    <3> QED BY <2>1, <2>3, <3>1 DEF OfLaunch
  <2> QED BY <2>4, <2>5
<1>2. CASE f = "raw_index"
  <2>1. \/ cut = old
        \/ cut = new /\ new \in {Absent, Unreadable}
        \/ /\ new \notin {Absent, Unreadable}
           /\ cut = [build |-> new.build, rows |-> cut.rows]
    BY <1>2, TornIndex
  <2>2. m = "dataset_manifest"
    BY <1>2 DEF FilesOf, Manifests
  <2>3. Field["dataset_manifest"] = "build" /\ "raw_index" \notin CutOf["dataset_manifest"]
    BY DEF Field, CutOf
  <2> QED BY <1>2, <2>1, <2>2, <2>3 DEF OfLaunch
<1>3. CASE f \notin WindowFiles \cup {"raw_index"}
  <2>1. f \notin CopyDirectories \cup ModelFiles
    BY DEF FilesOf, Manifests, CopyDirectories, ModelFiles
  <2>2. cut = old \/ cut = Unreadable
    BY <1>3, <2>1, TornOther
  <2> QED BY <2>2 DEF OfLaunch
<1> QED BY <1>1, <1>2, <1>3

\* What a step does to a directory and its manifest.
PubStep(m) ==
    \/ /\ launches' = launches + 1
       /\ Published(m, fs') = Published(m, fs) /\ (AllOf(m, fs') <=> AllOf(m, fs))
    \/ /\ launches' = launches
       /\ Published(m, fs') = Published(m, fs) /\ (AllOf(m, fs') => AllOf(m, fs))
    \/ /\ launches' = launches /\ Published(m, fs') = 0 /\ ~AllOf(m, fs')
    \/ /\ launches' = launches /\ launches # 0
       /\ Published(m, fs') = launches /\ AllOf(m, fs')

\* A step that leaves the manifest and its files as they are.
LEMMA SameFiles ==
  ASSUME NEW m \in Manifests, \A f \in FilesOf[m] \cup {m} : fs'[f] = fs[f]
  PROVE  Published(m, fs') = Published(m, fs) /\ (AllOf(m, fs') <=> AllOf(m, fs))
<1>1. Published(m, fs') = Published(m, fs)
  BY DEF Published, Readable
<1> QED BY <1>1 DEF AllOf

LEMMA JobPublishes ==
  ASSUME FilesInv, PubInv, WriteFile \/ Kill, NEW m \in Manifests
  PROVE  /\ PubStep(m)
         /\ Published(m, fs') \in 0 .. launches'
         /\ job' # Idle => /\ Published(m, fs') < launches'
                           /\ PubPlan(m, job'.prog, fs', job'.left, launches')
<1> DEFINE W == job.left
           T == Tail(job.left)
           w == Head(job.left)
           P == Published(m, fs)
           n == launches
           p == job.prog
           new == fs'[w.file]
<1>1. /\ job # Idle /\ n' = n /\ n \in Nat
      /\ Len(W) \in Nat \ {0} /\ w = W[1]
      /\ Len(T) = Len(W) - 1 /\ \A i \in 1 .. Len(T) : T[i] = W[i + 1]
      /\ Sound(w.file, w.content) /\ Sound(w.file, fs[w.file])
      /\ w.file \in FileNames
      /\ \A f \in FileNames : f # w.file => fs'[f] = fs[f]
      /\ WriteFile => /\ fs'[w.file] = w.content
                      /\ \/ job' # Idle /\ job'.prog = p /\ job'.left = T /\ T # << >>
                         \/ job' = Idle /\ Len(W) = 1
      /\ Kill => job' = Idle /\ fs'[w.file] \in Torn(w.file, fs[w.file], w.content)
  BY JobStep
<1>2. P \in 0 .. n /\ P < n /\ PubPlan(m, p, fs, W, n)
  BY <1>1 DEF PubInv
<1>3. /\ m \in FileNames /\ FilesOf[m] \subseteq FileNames /\ m \notin FilesOf[m]
      /\ m \notin WindowFiles \cup CopyDirectories \cup ModelFiles \cup {"raw_index"}
  BY ManifestFiles
<1>0. launches' = n /\ launches = n /\ Published(m, fs) = P /\ n' = n
  BY <1>1
<1> HIDE DEF W, T, w, P, n, p, new
<1>4. P \in Nat /\ P # n /\ n # 0 /\ 1 \in 1 .. Len(W)
  BY <1>1, <1>2
<1>5. /\ \A i \in 1 .. Len(W) : W[i].file = m => i = Len(W)
      /\ w.file = m => /\ w.content \notin {Absent, Unreadable}
                       /\ w.content[Field[m]] = IF p = WriterOf[m] THEN n ELSE P
      /\ w.file \in FilesOf[m]
         => IF p = WriterOf[m]
              THEN OfLaunch(m, w.file, w.content, n)
              ELSE \A k \in Nat \ {0} : OfLaunch(m, w.file, w.content, k)
                                        => OfLaunch(m, w.file, fs[w.file], k)
      /\ p = WriterOf[m] /\ w.file = m
         => \A f \in FilesOf[m] : \/ OfLaunch(m, f, fs[f], n)
                                  \/ \E j \in 1 .. Len(W) : W[j].file = f
  BY <1>1, <1>2, <1>4 DEF PubPlan, P
<1>6. ASSUME job' # Idle
      PROVE  Published(m, fs') = P /\ PubPlan(m, job'.prog, fs', job'.left, launches')
  <2>1. WriteFile /\ job'.prog = p /\ job'.left = T /\ T # << >> /\ fs'[W[1].file] = W[1].content
    BY <1>1, <1>6
  <2>2. Len(T) # 0
    <3>1. IsSeq(T)
      BY JobStep DEF T
    <3> QED BY <2>1, <3>1 DEF IsSeq
  <2>3. \A f \in FilesOf[m] \cup {m} : f # W[1].file => fs'[f] = fs[f]
    BY <1>1, <1>3
  <2>4. PubPlan(m, p, fs', T, n) /\ Published(m, fs') = Published(m, fs)
    <3>1. /\ Len(W) \in Nat \ {0} /\ Len(T) = Len(W) - 1
          /\ \A i \in 1 .. Len(T) : T[i] = W[i + 1]
          /\ PubPlan(m, p, fs, W, n)
      BY <1>1, <1>2
    <3>2. Len(T) = Len(W) - 1 /\ Len(T) # 0 /\ fs'[W[1].file] = W[1].content
      BY <2>1, <2>2, <3>1
    <3> QED BY <2>3, <3>1, <3>2, PlanStep, Zenon
  <2> QED BY <1>0, <2>1, <2>4
<1>7. ASSUME w.file \notin FilesOf[m] \cup {m} PROVE PubStep(m)
  <2>1. Published(m, fs') = P /\ (AllOf(m, fs') <=> AllOf(m, fs))
    BY <1>1, <1>3, <1>7, SameFiles DEF P
  <2> QED BY <1>0, <1>1, <2>1 DEF PubStep
<1>8. ASSUME w.file \in FilesOf[m] PROVE PubStep(m)
  <2>1. Published(m, fs') = P
    BY <1>1, <1>3, <1>8 DEF P, Published, Readable
  <2>2. ASSUME NEW k, OfLaunch(m, w.file, new, k)
        PROVE  OfLaunch(m, w.file, fs[w.file], k) \/ OfLaunch(m, w.file, w.content, k)
    <3>1. CASE WriteFile
      BY <1>1, <2>2, <3>1 DEF new
    <3>2. CASE Kill
      BY <1>1, <1>8, <2>2, <3>2, TornClaims DEF new
    <3> QED BY <3>1, <3>2
  <2>3. ASSUME AllOf(m, fs') PROVE AllOf(m, fs)
    <3>1. P # 0 /\ \A f \in FilesOf[m] : OfLaunch(m, f, fs'[f], P)
      BY <2>1, <2>3 DEF AllOf
    <3>2. OfLaunch(m, w.file, fs[w.file], P) \/ OfLaunch(m, w.file, w.content, P)
      BY <1>8, <2>2, <3>1 DEF new
    <3>3. OfLaunch(m, w.file, fs[w.file], P)
      <4>1. CASE p = WriterOf[m]
        <5>1. OfLaunch(m, w.file, w.content, n)
          BY <1>5, <1>8, <4>1
        <5>2. ~OfLaunch(m, w.file, w.content, P)
          BY <1>4, <5>1 DEF OfLaunch
        <5> QED BY <3>2, <5>2
      <4>2. CASE p # WriterOf[m]
        BY <1>4, <1>5, <1>8, <3>1, <3>2, <4>2
      <4> QED BY <4>1, <4>2
    <3>4. \A f \in FilesOf[m] : f # w.file => fs'[f] = fs[f]
      BY <1>1, <1>3
    <3>5. \A f \in FilesOf[m] : OfLaunch(m, f, fs[f], P)
      BY <3>1, <3>3, <3>4
    <3> QED BY <3>1, <3>5 DEF AllOf, P
  <2> QED BY <1>0, <1>1, <2>1, <2>3 DEF PubStep
<1>9. ASSUME w.file = m PROVE PubStep(m)
  <2>1. \A f \in FilesOf[m] : fs'[f] = fs[f]
    BY <1>1, <1>3, <1>9
  <2>2. CASE fs'[m] = fs[m]
    <3>1. Published(m, fs') = P /\ (AllOf(m, fs') <=> AllOf(m, fs))
      BY <2>1, <2>2, SameFiles DEF P
    <3> QED BY <1>0, <1>1, <3>1 DEF PubStep
  <2>3. CASE fs'[m] = Unreadable
    <3>1. Published(m, fs') = 0
      BY <2>3 DEF Published, Readable
    <3> QED BY <1>0, <1>1, <3>1 DEF PubStep, AllOf
  <2>4. CASE WriteFile /\ p # WriterOf[m]
    <3>1. Published(m, fs') = P
      BY <1>1, <1>5, <1>9, <2>4 DEF Published, Readable
    <3>2. AllOf(m, fs') <=> AllOf(m, fs)
      BY <2>1, <3>1 DEF AllOf, P
    <3> QED BY <1>0, <1>1, <3>1, <3>2 DEF PubStep
  <2>5. CASE WriteFile /\ p = WriterOf[m]
    <3>1. Published(m, fs') = n
      BY <1>1, <1>5, <1>9, <2>5 DEF Published, Readable
    <3>2. Len(W) = 1
      BY <1>1, <1>4, <1>5, <1>9
    <3>3. \A f \in FilesOf[m] : OfLaunch(m, f, fs'[f], n)
      <4> SUFFICES ASSUME NEW f \in FilesOf[m] PROVE OfLaunch(m, f, fs[f], n)
        BY <2>1
      <4>1. OfLaunch(m, f, fs[f], n) \/ \E j \in 1 .. Len(W) : W[j].file = f
        BY <1>5, <1>9, <2>5
      <4>2. \A j \in 1 .. Len(W) : W[j].file = m
        BY <1>1, <1>9, <3>2
      <4> QED BY <1>3, <4>1, <4>2
    <3>4. AllOf(m, fs')
      BY <1>4, <3>1, <3>3 DEF AllOf
    <3> QED BY <1>0, <1>1, <1>4, <3>1, <3>4 DEF PubStep
  <2>6. CASE Kill
    <3>1. fs'[m] = fs[m] \/ fs'[m] = Unreadable
      BY <1>1, <1>3, <1>9, <2>6, TornOther
    <3> QED BY <2>2, <2>3, <3>1
  <2> QED BY <2>4, <2>5, <2>6
<1>10. PubStep(m)
  BY <1>7, <1>8, <1>9
<1>11. Published(m, fs') \in 0 .. n
  <2>1. Published(m, fs') \in {P, 0, n}
    BY <1>0, <1>10 DEF PubStep
  <2> QED BY <1>1, <1>2, <2>1
<1> QED BY <1>0, <1>2, <1>6, <1>10, <1>11

LEMMA PubInvInit == Init => PubInv
<1> SUFFICES ASSUME Init PROVE PubInv
  OBVIOUS
<1>1. job = Idle /\ UpTo(fs, launches)
  BY FirstFiles DEF FilesOK, Init
<1> QED BY <1>1 DEF PubInv, UpTo

LEMMA StepPublishes ==
  ASSUME FilesInv, PubInv, [Next]_pipelineVars
  PROVE  PubInv' /\ \A m \in Manifests : PubStep(m)
<1>0. launches \in Nat
  BY DEF FilesInv
<1>1. ASSUME WriteFile \/ Kill
      PROVE  PubInv' /\ \A m \in Manifests : PubStep(m)
  <2>1. ASSUME NEW m \in Manifests
        PROVE  /\ PubStep(m)
               /\ Published(m, fs') \in 0 .. launches'
               /\ job' # Idle => /\ Published(m, fs') < launches'
                                 /\ PubPlan(m, job'.prog, fs', job'.left, launches')
    BY <1>1, JobPublishes
  <2> QED BY <2>1 DEF PubInv
<1>2. ASSUME NoScript
      PROVE  PubInv' /\ \A m \in Manifests : PubStep(m)
  <2>1. /\ job' = job /\ \A f \in FileNames \ RawFiles : fs'[f] = fs[f]
        /\ launches' = launches \/ (launches' = launches + 1 /\ job = Idle)
    BY <1>2 DEF NoScript
  <2>2. ASSUME NEW m \in Manifests
        PROVE  /\ PubStep(m)
               /\ Published(m, fs') \in 0 .. launches'
               /\ job' # Idle => /\ Published(m, fs') < launches'
                                 /\ PubPlan(m, job'.prog, fs', job'.left, launches')
    <3>1. \A f \in FilesOf[m] \cup {m} : fs'[f] = fs[f]
      BY <2>1, ManifestFiles
    <3>2. Published(m, fs') = Published(m, fs) /\ (AllOf(m, fs') <=> AllOf(m, fs))
      BY <3>1, SameFiles
    <3>3. PubStep(m)
      BY <2>1, <3>2 DEF PubStep
    <3>4. Published(m, fs) \in 0 .. launches
      BY DEF PubInv
    <3>5. Published(m, fs') \in 0 .. launches'
      BY <1>0, <2>1, <3>2, <3>4
    <3>6. ASSUME job' # Idle
          PROVE  /\ Published(m, fs') < launches'
                 /\ PubPlan(m, job'.prog, fs', job'.left, launches')
      <4>1. job # Idle /\ launches' = launches
        BY <2>1, <3>6
      <4>2. Published(m, fs) < launches /\ PubPlan(m, job.prog, fs, job.left, launches)
        BY <4>1 DEF PubInv
      <4>3. PubPlan(m, job.prog, fs', job.left, launches)
        BY <3>1, <3>2, <4>2 DEF PubPlan
      <4> QED BY <2>1, <3>2, <4>1, <4>2, <4>3
    <3> QED BY <3>3, <3>5, <3>6
  <2> QED BY <2>2 DEF PubInv
<1>3. ASSUME NEW p \in Program, NEW score, Launched(p, score)
      PROVE  PubInv' /\ \A m \in Manifests : PubStep(m)
  <2>1. /\ job = Idle /\ ScoreTyped(p, score) /\ launches' = launches + 1 /\ fs' = fs
        /\ job'.prog = p /\ job'.left = Output(p, fs, score, launches + 1).writes
    BY <1>3 DEF Launched
  <2>2. FilesSound(fs, launches) /\ InputsTyped
    BY <2>1, BetweenScripts DEF FilesInv
  <2>3. \A m \in Manifests : PubPlan(m, p, fs, job'.left, launches + 1)
    BY <1>0, <2>1, <2>2, OutputPlans
  <2>4. ASSUME NEW m \in Manifests
        PROVE  /\ PubStep(m)
               /\ Published(m, fs') \in 0 .. launches'
               /\ job' # Idle => /\ Published(m, fs') < launches'
                                 /\ PubPlan(m, job'.prog, fs', job'.left, launches')
    <3>1. Published(m, fs) \in 0 .. launches
      BY DEF PubInv
    <3>2. Published(m, fs') \in 0 .. launches' /\ Published(m, fs') < launches'
      BY <1>0, <2>1, <3>1
    <3>3. PubPlan(m, job'.prog, fs', job'.left, launches')
      BY <2>1, <2>3
    <3> QED BY <2>1, <3>2, <3>3 DEF PubStep
  <2> QED BY <2>4 DEF PubInv
<1> QED BY <1>1, <1>2, <1>3, StepKinds

LEMMA PubInvHolds == Spec => [](FilesInv /\ PubInv)
<1>1. Init => FilesInv /\ PubInv
  BY FilesInit, PubInvInit
<1>2. FilesInv /\ PubInv /\ [Next]_pipelineVars => (FilesInv /\ PubInv)'
  BY FilesStep, StepPublishes
<1> QED BY <1>1, <1>2, PTL DEF Spec

\* The stamps of the four directories.
LEMMA Stamps ==
  /\ Published("dataset_manifest", fs) = StampOf("dataset_manifest", "build")
  /\ Published("splits", fs) = StampOf("splits", "split")
  /\ Published("ablation_manifest", fs) = StampOf("ablation_manifest", "stamp")
  /\ Published("generalization_manifest", fs) = StampOf("generalization_manifest", "stamp")
BY DEF Published, StampOf, Field

\* Content that was read has the stamp of a launch exactly when it is of it.
LEMMA StampsOfLaunch ==
  ASSUME NEW m \in Manifests, NEW f, NEW k \in Nat \ {0}
  PROVE  OfLaunch(m, f, fs[f], k)
         <=> StampOf(f, Field[m]) = k /\ (f \in CutOf[m] => fs[f].whole)
BY DEF OfLaunch, StampOf, Readable

LEMMA WholeDirectories ==
  ASSUME PubInv, launches \in Nat
  PROVE  /\ AllOf("dataset_manifest", fs) <=> DataWhole
         /\ AllOf("splits", fs) <=> SplitWhole
         /\ AllOf("ablation_manifest", fs)
            <=> ResultsWhole({"ablation_binary_summary", "ablation_multiclass_summary",
                              "ablation_metrics"}, "ablation_manifest")
         /\ AllOf("generalization_manifest", fs)
            <=> ResultsWhole({"scenario_predictions", "normal_binary_summary",
                              "anomaly_binary_summary", "anomaly_multiclass_summary",
                              "generalization_metrics"}, "generalization_manifest")
<1>1. \A m \in Manifests :
        AllOf(m, fs) <=> /\ Published(m, fs) # 0
                         /\ \A f \in FilesOf[m] :
                               /\ StampOf(f, Field[m]) = Published(m, fs)
                               /\ f \in CutOf[m] => fs[f].whole
  <2> SUFFICES ASSUME NEW m \in Manifests, Published(m, fs) # 0
               PROVE  \A f \in FilesOf[m] :
                        OfLaunch(m, f, fs[f], Published(m, fs))
                        <=> /\ StampOf(f, Field[m]) = Published(m, fs)
                            /\ f \in CutOf[m] => fs[f].whole
    BY DEF AllOf
  <2>1. Published(m, fs) \in Nat \ {0}
    BY DEF PubInv
  <2> QED BY <2>1, StampsOfLaunch
<1>2. AllOf("dataset_manifest", fs) <=> DataWhole
  <2>1. /\ "dataset_manifest" \in Manifests /\ Field["dataset_manifest"] = "build"
        /\ FilesOf["dataset_manifest"] = {"raw_index", "windows_all"}
        /\ CutOf["dataset_manifest"] = {"windows_all"}
    BY DEF Manifests, Field, FilesOf, CutOf
  <2> QED BY <1>1, <2>1, Stamps DEF DataWhole
<1>3. AllOf("splits", fs) <=> SplitWhole
  <2>1. /\ "splits" \in Manifests /\ Field["splits"] = "split"
        /\ FilesOf["splits"] = {"windows_all"} \cup SplitFiles
        /\ CutOf["splits"] = SplitFiles
    BY PartFiles DEF Manifests, Field, FilesOf, CutOf
  <2> QED BY <1>1, <2>1, Stamps DEF SplitWhole
<1>4. ASSUME NEW m \in {"ablation_manifest", "generalization_manifest"}
      PROVE  AllOf(m, fs) <=> ResultsWhole(FilesOf[m], m)
  <2>1. m \in Manifests /\ Field[m] = "stamp" /\ CutOf[m] = {}
    BY DEF Manifests, Field, CutOf
  <2>2. Published(m, fs) = StampOf(m, "stamp")
    BY Stamps
  <2> QED BY <1>1, <2>1, <2>2 DEF ResultsWhole
<1>5. /\ FilesOf["ablation_manifest"] = {"ablation_binary_summary", "ablation_multiclass_summary",
                                         "ablation_metrics"}
      /\ FilesOf["generalization_manifest"]
         = {"scenario_predictions", "normal_binary_summary", "anomaly_binary_summary",
            "anomaly_multiclass_summary", "generalization_metrics"}
  BY DEF FilesOf
<1> QED BY <1>2, <1>3, <1>4, <1>5

AblationWhole ==
    ResultsWhole({"ablation_binary_summary", "ablation_multiclass_summary",
                  "ablation_metrics"}, "ablation_manifest")

GeneralizationWhole ==
    ResultsWhole({"scenario_predictions", "normal_binary_summary", "anomaly_binary_summary",
                  "anomaly_multiclass_summary", "generalization_metrics"},
                 "generalization_manifest")

\* What the directories are to Publication.
Mapped ==
    /\ StampOf("dataset_manifest", "build") = Published("dataset_manifest", fs)
    /\ StampOf("splits", "split") = Published("splits", fs)
    /\ StampOf("ablation_manifest", "stamp") = Published("ablation_manifest", fs)
    /\ StampOf("generalization_manifest", "stamp") = Published("generalization_manifest", fs)
    /\ DataWhole = AllOf("dataset_manifest", fs)
    /\ SplitWhole = AllOf("splits", fs)
    /\ AblationWhole = AllOf("ablation_manifest", fs)
    /\ GeneralizationWhole = AllOf("generalization_manifest", fs)

LEMMA MappedHolds == FilesInv /\ PubInv => Mapped
<1> SUFFICES ASSUME FilesInv, PubInv PROVE Mapped
  OBVIOUS
<1>1. launches \in Nat
  BY DEF FilesInv
<1>2. /\ AllOf("dataset_manifest", fs) <=> DataWhole
      /\ AllOf("splits", fs) <=> SplitWhole
      /\ AllOf("ablation_manifest", fs) <=> AblationWhole
      /\ AllOf("generalization_manifest", fs) <=> GeneralizationWhole
  BY <1>1, WholeDirectories DEF AblationWhole, GeneralizationWhole
<1>3. \A m : AllOf(m, fs) \in BOOLEAN
  BY DEF AllOf
<1>4. /\ DataWhole \in BOOLEAN /\ SplitWhole \in BOOLEAN
      /\ AblationWhole \in BOOLEAN /\ GeneralizationWhole \in BOOLEAN
  BY DEF DataWhole, SplitWhole, AblationWhole, GeneralizationWhole, ResultsWhole
<1>5. /\ DataWhole = AllOf("dataset_manifest", fs)
      /\ SplitWhole = AllOf("splits", fs)
      /\ AblationWhole = AllOf("ablation_manifest", fs)
      /\ GeneralizationWhole = AllOf("generalization_manifest", fs)
  BY <1>2, <1>3, <1>4
<1> QED BY <1>5, Stamps DEF Mapped

\* What a step does to a directory, with truth values.
LEMMA PubStepValues ==
  ASSUME NEW m \in Manifests, PubStep(m)
  PROVE  \/ /\ launches' = launches + 1
            /\ Published(m, fs') = Published(m, fs) /\ AllOf(m, fs') = AllOf(m, fs)
         \/ /\ launches' = launches /\ Published(m, fs') = Published(m, fs)
            /\ AllOf(m, fs') = AllOf(m, fs) \/ AllOf(m, fs') = FALSE
         \/ launches' = launches /\ Published(m, fs') = 0 /\ AllOf(m, fs') = FALSE
         \/ /\ launches' = launches /\ launches # 0
            /\ Published(m, fs') = launches /\ AllOf(m, fs') = TRUE
<1>1. AllOf(m, fs) \in BOOLEAN /\ AllOf(m, fs') \in BOOLEAN
  BY DEF AllOf
<1> QED BY <1>1 DEF PubStep

\* Each step of the session, seen as a step of the four instances of Publication.
LEMMA DataPublished ==
  /\ FilesInv /\ PubInv => DataPublication!PubTypeOK
  /\ FilesInv /\ PubInv /\ Mapped /\ Mapped' /\ [Next]_pipelineVars
     => [DataPublication!PubNext]_(DataPublication!pubVars)
<1>1. FilesInv /\ PubInv => DataPublication!PubTypeOK
  BY Stamps DEF FilesInv, PubInv, Manifests, DataPublication!PubTypeOK, DataWhole
<1>2. ASSUME FilesInv, PubInv, Mapped, Mapped', [Next]_pipelineVars
      PROVE  [DataPublication!PubNext]_(DataPublication!pubVars)
  <2>1. /\ PubStep("dataset_manifest") /\ "dataset_manifest" \in Manifests
    BY <1>2, StepPublishes DEF Manifests
  <2>2. /\ StampOf("dataset_manifest", "build") = Published("dataset_manifest", fs)
        /\ DataWhole = AllOf("dataset_manifest", fs)
        /\ StampOf("dataset_manifest", "build")' = Published("dataset_manifest", fs')
        /\ DataWhole' = AllOf("dataset_manifest", fs')
    BY <1>2 DEF Mapped
  <2>3. \/ /\ launches' = launches + 1
           /\ StampOf("dataset_manifest", "build")' = StampOf("dataset_manifest", "build")
           /\ DataWhole' = DataWhole
        \/ /\ launches' = launches
           /\ StampOf("dataset_manifest", "build")' = StampOf("dataset_manifest", "build")
           /\ DataWhole' = DataWhole \/ DataWhole' = FALSE
        \/ launches' = launches /\ StampOf("dataset_manifest", "build")' = 0 /\ DataWhole' = FALSE
        \/ /\ launches' = launches /\ launches # 0
           /\ StampOf("dataset_manifest", "build")' = launches /\ DataWhole' = TRUE
    BY <2>1, <2>2, PubStepValues, Zenon
  <2> QED BY <2>3
          DEF DataPublication!PubNext, DataPublication!Start, DataPublication!Overwrite,
              DataPublication!Withdraw, DataPublication!Publish, DataPublication!pubVars
<1> QED BY <1>1, <1>2

LEMMA SplitPublished ==
  /\ FilesInv /\ PubInv => SplitPublication!PubTypeOK
  /\ FilesInv /\ PubInv /\ Mapped /\ Mapped' /\ [Next]_pipelineVars
     => [SplitPublication!PubNext]_(SplitPublication!pubVars)
<1>1. FilesInv /\ PubInv => SplitPublication!PubTypeOK
  BY Stamps DEF FilesInv, PubInv, Manifests, SplitPublication!PubTypeOK, SplitWhole
<1>2. ASSUME FilesInv, PubInv, Mapped, Mapped', [Next]_pipelineVars
      PROVE  [SplitPublication!PubNext]_(SplitPublication!pubVars)
  <2>1. /\ PubStep("splits") /\ "splits" \in Manifests
    BY <1>2, StepPublishes DEF Manifests
  <2>2. /\ StampOf("splits", "split") = Published("splits", fs)
        /\ SplitWhole = AllOf("splits", fs)
        /\ StampOf("splits", "split")' = Published("splits", fs')
        /\ SplitWhole' = AllOf("splits", fs')
    BY <1>2 DEF Mapped
  <2>3. \/ /\ launches' = launches + 1
           /\ StampOf("splits", "split")' = StampOf("splits", "split")
           /\ SplitWhole' = SplitWhole
        \/ /\ launches' = launches
           /\ StampOf("splits", "split")' = StampOf("splits", "split")
           /\ SplitWhole' = SplitWhole \/ SplitWhole' = FALSE
        \/ launches' = launches /\ StampOf("splits", "split")' = 0 /\ SplitWhole' = FALSE
        \/ /\ launches' = launches /\ launches # 0
           /\ StampOf("splits", "split")' = launches /\ SplitWhole' = TRUE
    BY <2>1, <2>2, PubStepValues, Zenon
  <2> QED BY <2>3
          DEF SplitPublication!PubNext, SplitPublication!Start, SplitPublication!Overwrite,
              SplitPublication!Withdraw, SplitPublication!Publish, SplitPublication!pubVars
<1> QED BY <1>1, <1>2

LEMMA AblationPublished ==
  /\ FilesInv /\ PubInv => AblationPublication!PubTypeOK
  /\ FilesInv /\ PubInv /\ Mapped /\ Mapped' /\ [Next]_pipelineVars
     => [AblationPublication!PubNext]_(AblationPublication!pubVars)
<1>1. FilesInv /\ PubInv => AblationPublication!PubTypeOK
  BY Stamps DEF FilesInv, PubInv, Manifests, AblationPublication!PubTypeOK, ResultsWhole
<1>2. ASSUME FilesInv, PubInv, Mapped, Mapped', [Next]_pipelineVars
      PROVE  [AblationPublication!PubNext]_(AblationPublication!pubVars)
  <2>1. /\ PubStep("ablation_manifest") /\ "ablation_manifest" \in Manifests
    BY <1>2, StepPublishes DEF Manifests
  <2>2. /\ StampOf("ablation_manifest", "stamp") = Published("ablation_manifest", fs)
        /\ AblationWhole = AllOf("ablation_manifest", fs)
        /\ StampOf("ablation_manifest", "stamp")' = Published("ablation_manifest", fs')
        /\ AblationWhole' = AllOf("ablation_manifest", fs')
    BY <1>2 DEF Mapped
  <2>3. \/ /\ launches' = launches + 1
           /\ StampOf("ablation_manifest", "stamp")' = StampOf("ablation_manifest", "stamp")
           /\ AblationWhole' = AblationWhole
        \/ /\ launches' = launches
           /\ StampOf("ablation_manifest", "stamp")' = StampOf("ablation_manifest", "stamp")
           /\ AblationWhole' = AblationWhole \/ AblationWhole' = FALSE
        \/ launches' = launches /\ StampOf("ablation_manifest", "stamp")' = 0 /\ AblationWhole' = FALSE
        \/ /\ launches' = launches /\ launches # 0
           /\ StampOf("ablation_manifest", "stamp")' = launches /\ AblationWhole' = TRUE
    BY <2>1, <2>2, PubStepValues, Zenon
  <2> QED BY <2>3
          DEF AblationPublication!PubNext, AblationPublication!Start, AblationPublication!Overwrite,
              AblationPublication!Withdraw, AblationPublication!Publish, AblationPublication!pubVars,
              AblationWhole
<1> QED BY <1>1, <1>2

LEMMA GeneralizationPublished ==
  /\ FilesInv /\ PubInv => GeneralizationPublication!PubTypeOK
  /\ FilesInv /\ PubInv /\ Mapped /\ Mapped' /\ [Next]_pipelineVars
     => [GeneralizationPublication!PubNext]_(GeneralizationPublication!pubVars)
<1>1. FilesInv /\ PubInv => GeneralizationPublication!PubTypeOK
  BY Stamps DEF FilesInv, PubInv, Manifests, GeneralizationPublication!PubTypeOK, ResultsWhole
<1>2. ASSUME FilesInv, PubInv, Mapped, Mapped', [Next]_pipelineVars
      PROVE  [GeneralizationPublication!PubNext]_(GeneralizationPublication!pubVars)
  <2>1. /\ PubStep("generalization_manifest") /\ "generalization_manifest" \in Manifests
    BY <1>2, StepPublishes DEF Manifests
  <2>2. /\ StampOf("generalization_manifest", "stamp") = Published("generalization_manifest", fs)
        /\ GeneralizationWhole = AllOf("generalization_manifest", fs)
        /\ StampOf("generalization_manifest", "stamp")' = Published("generalization_manifest", fs')
        /\ GeneralizationWhole' = AllOf("generalization_manifest", fs')
    BY <1>2 DEF Mapped
  <2>3. \/ /\ launches' = launches + 1
           /\ StampOf("generalization_manifest", "stamp")' = StampOf("generalization_manifest", "stamp")
           /\ GeneralizationWhole' = GeneralizationWhole
        \/ /\ launches' = launches
           /\ StampOf("generalization_manifest", "stamp")' = StampOf("generalization_manifest", "stamp")
           /\ GeneralizationWhole' = GeneralizationWhole \/ GeneralizationWhole' = FALSE
        \/ launches' = launches /\ StampOf("generalization_manifest", "stamp")' = 0 /\ GeneralizationWhole' = FALSE
        \/ /\ launches' = launches /\ launches # 0
           /\ StampOf("generalization_manifest", "stamp")' = launches /\ GeneralizationWhole' = TRUE
    BY <2>1, <2>2, PubStepValues, Zenon
  <2> QED BY <2>3
          DEF GeneralizationPublication!PubNext, GeneralizationPublication!Start, GeneralizationPublication!Overwrite,
              GeneralizationPublication!Withdraw, GeneralizationPublication!Publish, GeneralizationPublication!pubVars,
              GeneralizationWhole
<1> QED BY <1>1, <1>2

\* The manifests of a data set, a split, an ablation and a generalization keep
\* the promise of Publication: such a manifest names a launch that wrote every
\* file of the directory, and only the launch that is running can make it do so
\* (phase3_build_dataset.py:257, phase3_split_dataset.py:110,
\* phase6_run_ablation.py:376, phase6_run_generalization.py:525).
THEOREM PublishesWholeHolds == Spec => PublishesWhole
<1>1. FilesInv /\ PubInv => Mapped
  BY MappedHolds
<1>2. ASSUME FilesInv, PubInv
      PROVE  /\ DataPublication!PubInit /\ SplitPublication!PubInit
             /\ AblationPublication!PubInit /\ GeneralizationPublication!PubInit
  BY <1>2, DataPublished, SplitPublished, AblationPublished, GeneralizationPublished
     DEF DataPublication!PubInit, SplitPublication!PubInit, AblationPublication!PubInit,
         GeneralizationPublication!PubInit, DataWhole, SplitWhole, ResultsWhole
<1>3. Init => FilesInv /\ PubInv
  BY FilesInit, PubInvInit
<1>4. Spec => DataPublication!PubSpec
  BY <1>1, <1>2, <1>3, DataPublished, PubInvHolds, PTL DEF Spec, DataPublication!PubSpec
<1>5. Spec => SplitPublication!PubSpec
  BY <1>1, <1>2, <1>3, SplitPublished, PubInvHolds, PTL DEF Spec, SplitPublication!PubSpec
<1>6. Spec => AblationPublication!PubSpec
  BY <1>1, <1>2, <1>3, AblationPublished, PubInvHolds, PTL DEF Spec, AblationPublication!PubSpec
<1>7. Spec => GeneralizationPublication!PubSpec
  BY <1>1, <1>2, <1>3, GeneralizationPublished, PubInvHolds, PTL
     DEF Spec, GeneralizationPublication!PubSpec
<1> QED BY <1>4, <1>5, <1>6, <1>7 DEF PublishesWhole

---------------------------------------------------------------------------
(* The parts of a split.                                                   *)

\* After a split that came to its end the three parts are those of one list of
\* windows; a split that runs is about to make them so.
SplitInv ==
    /\ job.prog # "split" /\ "split" \notin dirty => SplitOK(fs)
    /\ job.prog = "split" => SplitDone(AfterWrites(fs, job.left))

LEMMA SplitKept ==
  ASSUME NEW files, NEW new, \A f \in SplitFiles \cup {"splits"} : new[f] = files[f]
  PROVE  /\ SplitOK(files) => SplitOK(new)
         /\ SplitDone(files) => SplitDone(new)
<1>1. \A s \in Splits : new[PartNames[s]] = files[PartNames[s]]
  BY DEF SplitFiles
<1> QED BY <1>1 DEF SplitOK, SplitDone

LEMMA SplitInvInit == Init => SplitInv
<1> SUFFICES ASSUME Init PROVE SplitInv
  OBVIOUS
<1>1. SplitOK(fs)
  BY FirstFiles DEF FilesOK
<1>2. job.prog # "split"
  BY DEF Init, Idle
<1> QED BY <1>1, <1>2 DEF SplitInv

LEMMA SplitInvStep == FilesInv /\ FilesInv' /\ SplitInv /\ [Next]_pipelineVars => SplitInv'
<1> SUFFICES ASSUME FilesInv, FilesInv', SplitInv, [Next]_pipelineVars PROVE SplitInv'
  OBVIOUS
<1>1. /\ SplitFiles \cup {"splits"} \subseteq FileNames \ RawFiles
      /\ Idle.prog # "split" /\ Idle.left = << >>
  <2>1. SplitFiles \cup {"splits"} \subseteq WrittenBy["split"] /\ "split" \in Program
    BY PartFiles DEF WrittenBy, Program
  <2> QED BY <2>1, WrittenFiles DEF Idle
<1>2. /\ fs = [f \in FileNames |-> fs[f]] /\ fs' = [f \in FileNames |-> fs'[f]]
      /\ InputsTyped /\ launches \in Nat
  BY DEF FilesInv, SoundFiles
<1>3. CASE NoScript
  <2>1. job' = job /\ dirty' = dirty /\ \A f \in SplitFiles \cup {"splits"} : fs'[f] = fs[f]
    BY <1>1, <1>3 DEF NoScript
  <2>2. SplitOK(fs) => SplitOK(fs')
    BY <2>1, SplitKept
  <2>3. SplitDone(AfterWrites(fs, job.left)) => SplitDone(AfterWrites(fs', job.left))
    <3> DEFINE W == job.left
    <3> HIDE DEF W
    <3>1. ASSUME NEW f \in SplitFiles \cup {"splits"}
          PROVE  AfterWrites(fs', W)[f] = AfterWrites(fs, W)[f]
      <4> DEFINE of == {i \in DOMAIN W : W[i].file = f}
                 last == W[CHOOSE i \in of : \A j \in of : j <= i].content
      <4>1. f \in DOMAIN fs /\ f \in DOMAIN fs' /\ fs'[f] = fs[f]
        BY <1>1, <1>2, <2>1
      <4>2. /\ AfterWrites(fs, W)[f] = IF of = {} THEN fs[f] ELSE last
            /\ AfterWrites(fs', W)[f] = IF of = {} THEN fs'[f] ELSE last
        BY <4>1 DEF AfterWrites
      <4> HIDE DEF of, last
      <4> QED BY <4>1, <4>2
    <3> QED BY <3>1, SplitKept DEF W
  <2> QED BY <2>1, <2>2, <2>3 DEF SplitInv
<1>4. ASSUME NEW p \in Program, NEW score, Launched(p, score) PROVE SplitInv'
  <2>1. /\ job = Idle /\ ScoreTyped(p, score) /\ fs' = fs /\ dirty' = dirty
        /\ job'.prog = p /\ job'.left = Output(p, fs, score, launches + 1).writes
        /\ job'.left # << >>
    BY <1>4 DEF Launched
  <2>2. FilesSound(fs, launches)
    BY <2>1, BetweenScripts
  <2>3. p = "split" => SplitDone(AfterWrites(fs, job'.left))
    BY <1>2, <2>1, <2>2, OutputPlans
  <2>4. "split" \notin dirty => SplitOK(fs)
    BY <1>1, <2>1 DEF SplitInv
  <2> QED BY <2>1, <2>3, <2>4 DEF SplitInv
<1>5. CASE WriteFile \/ Kill
  <2> DEFINE W == job.left
             T == Tail(job.left)
             w == Head(job.left)
             p == job.prog
  <2>1. /\ p \in Program /\ IsSeq(W) /\ Len(W) \in Nat \ {0} /\ IsSeq(T)
        /\ w.file \in WrittenBy[p] /\ w.file \in FileNames
        /\ \A f \in FileNames : f # w.file => fs'[f] = fs[f]
        /\ WriteFile => /\ fs' = [fs EXCEPT ![w.file] = w.content]
                        /\ \/ job' # Idle /\ job'.prog = p /\ job'.left = T
                           \/ job' = Idle /\ T = << >>
        /\ job' = Idle \/ job'.prog = p
        /\ dirty' \in {dirty \cup {p}, dirty \ {p}}
        /\ Kill => job' = Idle /\ dirty' = dirty \cup {p}
    BY <1>5, JobStep
  <2>2. WriteFile => AfterWrites(fs', T) = AfterWrites(fs, W)
    <3>1. W # << >> /\ DOMAIN fs = FileNames
      BY <1>2, <2>1
    <3> QED BY <2>1, <3>1, OneAfterTheOther
  <2>3. AfterWrites(fs', << >>) = fs'
    <3>1. AfterWrites(fs', << >>) = [f \in DOMAIN fs' |-> AfterWrites(fs', << >>)[f]]
          /\ \A f \in DOMAIN fs' : AfterWrites(fs', << >>)[f] = fs'[f]
      BY AfterWritesOf, IdleLeft
    <3> QED BY <1>2, <3>1
  <2> HIDE DEF W, T, w, p
  <2>4. CASE p # "split"
    <3>1. \A f \in SplitFiles \cup {"splits"} : fs'[f] = fs[f]
      BY <1>1, <2>1, <2>4, PartFiles
    <3>2. SplitOK(fs) => SplitOK(fs')
      BY <3>1, SplitKept
    <3>3. job'.prog # "split" /\ ("split" \notin dirty' => "split" \notin dirty)
      BY <1>1, <2>1, <2>4
    <3> QED BY <2>4, <3>2, <3>3 DEF SplitInv, p
  <2>5. CASE p = "split" /\ WriteFile
    <3>1. SplitDone(AfterWrites(fs', T))
      BY <2>2, <2>5 DEF SplitInv, p, W
    <3>2. CASE job' = Idle
      <4>1. SplitDone(fs')
        BY <2>1, <2>2, <2>3, <2>5, <3>1, <3>2
      <4> QED BY <1>1, <3>2, <4>1 DEF SplitInv, SplitOK
    <3>3. CASE job' # Idle
      BY <2>1, <2>5, <3>1, <3>3 DEF SplitInv
    <3> QED BY <3>2, <3>3
  <2>6. CASE p = "split" /\ Kill
    BY <1>1, <2>1, <2>6 DEF SplitInv
  <2> QED BY <1>5, <2>4, <2>5, <2>6
<1> QED BY <1>3, <1>4, <1>5, StepKinds

LEMMA SplitInvHolds == Spec => [](FilesInv /\ SplitInv)
<1>1. Init => FilesInv /\ SplitInv
  BY FilesInit, SplitInvInit
<1>2. FilesInv /\ SplitInv /\ [Next]_pipelineVars => (FilesInv /\ SplitInv)'
  BY FilesStep, SplitInvStep
<1> QED BY <1>1, <1>2, PTL DEF Spec

\* The experiments of a part are those assigned to it.
LEMMA PartExperiments ==
  ASSUME NEW rows \in Seq(WindowRow), NEW s \in Splits
  PROVE  ExperimentsOf(PartOf(rows, s)) = SplitExps(rows, s)
<1> DEFINE E == SplitExps(rows, s)
           part == PartOf(rows, s)
           places == {j \in DOMAIN rows : rows[j].exp \in E}
           row(i) == [rows[i] EXCEPT !.split = s]
<1>1. ToSet(part) = {row(i) : i \in places}
  BY RowsOfSplitTyped DEF PartOf
<1>2. \A i \in DOMAIN rows : row(i).exp = rows[i].exp
  <2> TAKE i \in DOMAIN rows
  <2> DEFINE r == rows[i]
  <2>1. r \in WindowRow
    BY Element
  <2> HIDE DEF r
  <2>2. [r EXCEPT !.split = s].exp = r.exp
    BY <2>1 DEF WindowRow
  <2> QED BY <2>2 DEF r
<1>3. E \subseteq {rows[i].exp : i \in DOMAIN rows}
  BY DEF SplitExps, Assignments, ExperimentsOf
<1> HIDE DEF E, part, row
<1>4. ExperimentsOf(part) = {r.exp : r \in ToSet(part)}
  BY DEF ExperimentsOf, ToSet
<1>5. ExperimentsOf(part) = {row(i).exp : i \in places}
  BY <1>1, <1>4
<1>6. {row(i).exp : i \in places} = E
  BY <1>2, <1>3
<1> QED BY <1>5, <1>6 DEF E, part

\* No window of an experiment is in two of the files that a model is trained,
\* chosen and tested on (phase3_split_dataset.py:91).
THEOREM SplitsDisjointHolds == Spec => []SplitsDisjoint
<1>1. FilesInv /\ SplitInv => SplitsDisjoint
  <2> SUFFICES ASSUME SplitInv, Settled({"split"}), \A f \in SplitFiles : fs[f] # Absent,
                      NEW s \in Splits, NEW t \in Splits, s # t
               PROVE  HeldBy(s) \cap HeldBy(t) = {}
    BY DEF SplitsDisjoint
  <2>1. SplitOK(fs)
    BY DEF SplitInv, Settled
  <2>2. PICK rows \in Seq(WindowRow) : \A u \in Splits : fs[PartNames[u]].rows = PartOf(rows, u)
    <3>1. PartNames["train"] \in SplitFiles
      BY DEF SplitFiles, Splits
    <3> QED BY <2>1, <3>1 DEF SplitOK, SplitDone
  <2>3. HeldBy(s) = SplitExps(rows, s) /\ HeldBy(t) = SplitExps(rows, t)
    BY <2>2, PartExperiments DEF HeldBy
  <2> QED BY <2>3 DEF SplitExps
<1> QED BY <1>1, SplitInvHolds, PTL

\* Each primary label has an experiment to train on; if two experiments have it
\* there is one to test on, if three one to choose on as well
\* (phase3_split_dataset.py:23, 30). A second fault of an experiment may be in val
\* or test alone.
THEOREM EveryPrimaryTrainedHolds == Spec => []EveryPrimaryTrained
<1>1. FilesInv /\ SplitInv => EveryPrimaryTrained
  <2> DEFINE all == fs["windows_train"].rows \o fs["windows_val"].rows \o fs["windows_test"].rows
  <2> SUFFICES ASSUME SplitInv, Settled({"split"}), fs["splits"] # Absent,
                      NEW e \in ExperimentsOf(all)
               PROVE  LET group == GroupOf(all, e)
                      IN  /\ group \cap HeldBy("train") # {}
                          /\ Cardinality(group) >= 2 => group \cap HeldBy("test") # {}
                          /\ Cardinality(group) >= 3 => group \cap HeldBy("val") # {}
    BY Zenon DEF EveryPrimaryTrained
  <2>1. SplitOK(fs)
    BY DEF SplitInv, Settled
  <2>2. PICK rows \in Seq(WindowRow) : \A s \in Splits : fs[PartNames[s]].rows = PartOf(rows, s)
    BY <2>1 DEF SplitOK, SplitDone
  <2>3. \A s \in Splits : HeldBy(s) = SplitExps(rows, s)
    BY <2>2, PartExperiments DEF HeldBy
  <2>4. all = UpdatedRows(rows)
    BY <2>2 DEF UpdatedRows, Splits, PartNames
  <2> HIDE DEF all
  <2>5. e \in ExperimentsOf(rows) /\ GroupOf(all, e) = GroupOf(rows, e)
    <3>1. ExperimentsOf(all) = ExperimentsOf(rows)
          /\ \A d : LabelsIn(all, d) = LabelsIn(rows, d)
      BY <2>4, RowsKept
    <3>2. \A d : primary_label_for_experiment(all, d) = primary_label_for_experiment(rows, d)
      <4> TAKE d
      <4> DEFINE first(labels) == IF labels = {} THEN Normal
                                  ELSE CHOOSE l \in labels : \A k \in labels : l <= k
      <4>1. LabelsIn(all, d) \ {Normal} = LabelsIn(rows, d) \ {Normal}
        BY <3>1
      <4>2. /\ primary_label_for_experiment(all, d) = first(LabelsIn(all, d) \ {Normal})
            /\ primary_label_for_experiment(rows, d) = first(LabelsIn(rows, d) \ {Normal})
        BY DEF primary_label_for_experiment
      <4> HIDE DEF first
      <4> QED BY <4>1, <4>2
    <3> QED BY <3>1, <3>2 DEF GroupOf
  <2> DEFINE G == GroupOf(rows, e)
  <2>6. /\ G \in SUBSET Nat /\ IsFiniteSet(G) /\ G # {}
        /\ \A d \in G : d \in ExperimentsOf(rows) /\ GroupOf(rows, d) = G
    BY <2>5, GroupsOf
  <2>7. \A d \in G, s \in Splits : split_group(G, d) = s => d \in HeldBy(s)
    <3> HIDE DEF G
    <3> QED BY <2>3, <2>6 DEF SplitExps, Assignments
  <2>8. "train" \in Splits /\ "val" \in Splits /\ "test" \in Splits
    BY DEF Splits
  <2> HIDE DEF G
  <2>9. /\ G \cap HeldBy("train") # {}
        /\ Cardinality(G) >= 2 => G \cap HeldBy("test") # {}
        /\ Cardinality(G) >= 3 => G \cap HeldBy("val") # {}
    BY <2>6, <2>7, <2>8, GroupShares
  <2> QED BY <2>5, <2>9 DEF G
<1> QED BY <1>1, SplitInvHolds, PTL

---------------------------------------------------------------------------
(* What a report has seen stays true.                                     *)

ReportInv ==
    /\ Claims(Known(fs, job.left), launches)
    /\ ReportedStays(fs, job.left)
    /\ WindowsFirst(fs, job.left)

\* The experiments' artifacts stay.
LEMMA ArtifactsStay == [Next]_pipelineVars => artifacts' = artifacts
BY DEF Next, pipelineVars, RunBuild, RunSplit, RunReport, RunTrain, RunPhase4Export, RunAblation,
       RunGeneralization, RunPhase6Export, RunPhase5Export, Start, RunMatrix, EditSelection, FileStep

\* What is said of the files after a step, of artifacts that stay.
LEMMA ReportInvNext ==
  ASSUME artifacts' = artifacts, OutputClaims(fs', job'.left, launches')
  PROVE  ReportInv'
<1> DEFINE K == Known(fs', job'.left)
           n == launches'
<1>1. Claims(K, n) /\ ReportedStays(fs', job'.left) /\ WindowsFirst(fs', job'.left)
  BY DEF OutputClaims
<1>2. StampsUpTo(K, n) /\ IndexTrue(K) /\ NoErrorsTrue(K) /\ NoWarningsTrue(K)
  BY <1>1 DEF Claims
<1>3. IndexTrue(Known(fs, job.left))'
  BY <1>2 DEF IndexTrue
<1>4. NoErrorsTrue(Known(fs, job.left))'
  BY <1>2 DEF NoErrorsTrue, Explained
<1>5. StampsUpTo(Known(fs, job.left), launches)' /\ NoWarningsTrue(Known(fs, job.left))'
  BY <1>2 DEF StampsUpTo, NoWarningsTrue
<1> QED BY <1>1, <1>3, <1>4, <1>5 DEF ReportInv, Claims

---------------------------------------------------------------------------
(* A kill, and the other steps.                                            *)

\* An index that was cut names fewer experiments.
LEMMA ClaimsOfCutIndex ==
  ASSUME NEW K, NEW L, NEW n \in Nat, Claims(K, n), NEW new \in K["raw_index"], NEW cut,
         L["raw_index"] \subseteq K["raw_index"] \cup {cut},
         \A f \in ReportFiles \ {"raw_index"} : L[f] \subseteq K[f],
         cut.build = new.build,
         \A e \in DOMAIN cut.rows : e \in DOMAIN new.rows /\ cut.rows[e] = new.rows[e]
  PROVE  Claims(L, n)
<1>1. /\ L["windows_all"] \subseteq K["windows_all"]
      /\ L["quality_report"] \subseteq K["quality_report"]
      /\ \A f \in SplitFiles : L[f] \subseteq K[f]
      /\ L["windows_train"] \subseteq K["windows_train"]
      /\ \A f \in {"windows_val", "windows_test"} : L[f] \subseteq K[f]
  BY NamesOfReports, PartFiles
<1>2. StampsUpTo(K, n) /\ IndexTrue(K) /\ NoErrorsTrue(K) /\ NoWarningsTrue(K)
  BY DEF Claims
<1>3. StampsUpTo(L, n)
  BY <1>1, <1>2 DEF StampsUpTo
<1>4. IndexTrue(L)
  BY <1>2 DEF IndexTrue
<1>5. NoErrorsTrue(L)
  <2>1. \A i \in L["raw_index"] : \E j \in K["raw_index"] :
           /\ i.build = j.build
           /\ \A e \in DOMAIN i.rows : e \in DOMAIN j.rows /\ i.rows[e] = j.rows[e]
    OBVIOUS
  <2>2. ASSUME NEW q \in L["quality_report"], NEW a \in L["windows_all"], NEW i \in L["raw_index"],
               q.errors = {}, a.whole, q.index = i.build, q.origin.build = a.build,
               NEW e \in DOMAIN i.rows, i.rows[e].included, artifacts[e].events # {}
        PROVE  Explained(e, a.rows)
    <3>1. PICK j \in K["raw_index"] : i.build = j.build /\ e \in DOMAIN j.rows /\ i.rows[e] = j.rows[e]
      BY <2>1
    <3>2. q \in K["quality_report"] /\ a \in K["windows_all"]
      BY <1>1
    <3> QED BY <1>2, <2>2, <3>1, <3>2 DEF NoErrorsTrue
  <2> QED BY <2>2 DEF NoErrorsTrue
<1>6. NoWarningsTrue(L)
  BY <1>1, <1>2 DEF NoWarningsTrue, FoundComplete
<1> QED BY <1>3, <1>4, <1>5, <1>6 DEF Claims

\* Windows that were cut are not whole, and no part is of their split yet.
LEMMA ClaimsOfCutWindows ==
  ASSUME NEW K, NEW L, NEW n \in Nat, Claims(K, n), NEW new \in K["windows_all"], NEW cut,
         L["windows_all"] \subseteq K["windows_all"] \cup {cut},
         \A f \in ReportFiles \ {"windows_all"} : L[f] \subseteq K[f],
         cut.build = new.build, cut.split = new.split, ~cut.whole,
         \A t \in L["windows_train"] : t.split # cut.split
  PROVE  Claims(L, n)
<1>1. /\ L["raw_index"] \subseteq K["raw_index"]
      /\ L["quality_report"] \subseteq K["quality_report"]
      /\ \A f \in SplitFiles : L[f] \subseteq K[f]
      /\ L["windows_train"] \subseteq K["windows_train"]
      /\ \A f \in {"windows_val", "windows_test"} : L[f] \subseteq K[f]
  BY NamesOfReports, PartFiles
<1>2. StampsUpTo(K, n) /\ IndexTrue(K) /\ NoErrorsTrue(K) /\ NoWarningsTrue(K)
  BY DEF Claims
<1>3. StampsUpTo(L, n)
  BY <1>1, <1>2 DEF StampsUpTo
<1>4. IndexTrue(L)
  BY <1>1, <1>2 DEF IndexTrue
<1>5. NoErrorsTrue(L)
  <2>1. \A a \in L["windows_all"] : a.whole => a \in K["windows_all"]
    OBVIOUS
  <2> QED BY <1>1, <1>2, <2>1 DEF NoErrorsTrue
<1>6. NoWarningsTrue(L)
  <2>1. \A t \in L["windows_train"] : FoundComplete(L, t.split) => FoundComplete(K, t.split)
    BY <1>1 DEF FoundComplete
  <2> QED BY <1>1, <1>2, <2>1 DEF NoWarningsTrue
<1> QED BY <1>3, <1>4, <1>5, <1>6 DEF Claims

\* A part that was cut has fewer faults, and is not whole.
LEMMA ClaimsOfCutPart ==
  ASSUME NEW K, NEW L, NEW n \in Nat, Claims(K, n), NEW p \in SplitFiles, NEW new \in K[p], NEW cut,
         L[p] \subseteq K[p] \cup {cut},
         \A f \in ReportFiles \ {p} : L[f] \subseteq K[f],
         cut.split = new.split, ~cut.whole, FaultsOf(cut.rows) \subseteq FaultsOf(new.rows)
  PROVE  Claims(L, n)
<1>1. /\ L["raw_index"] \subseteq K["raw_index"]
      /\ L["windows_all"] \subseteq K["windows_all"]
      /\ L["quality_report"] \subseteq K["quality_report"]
      /\ \A f \in SplitFiles : L[f] \subseteq K[f] \/ (f = p /\ L[f] \subseteq K[f] \cup {cut})
      /\ "windows_train" \in SplitFiles /\ {"windows_val", "windows_test"} \subseteq SplitFiles
  BY NamesOfReports, PartFiles
<1>2. StampsUpTo(K, n) /\ IndexTrue(K) /\ NoErrorsTrue(K) /\ NoWarningsTrue(K)
  BY DEF Claims
<1>3. StampsUpTo(L, n)
  BY <1>1, <1>2 DEF StampsUpTo
<1>4. IndexTrue(L)
  BY <1>1, <1>2 DEF IndexTrue
<1>5. NoErrorsTrue(L)
  BY <1>1, <1>2 DEF NoErrorsTrue
<1>6. NoWarningsTrue(L)
  <2>1. \A s : FoundComplete(L, s) => FoundComplete(K, s)
    BY <1>1 DEF FoundComplete
  <2>2. \A f \in {"windows_val", "windows_test"} : \A o \in L[f] : o.whole => o \in K[f]
    BY <1>1
  <2>3. \A t \in L["windows_train"] : \E u \in K["windows_train"] :
           t.split = u.split /\ FaultsOf(t.rows) \subseteq FaultsOf(u.rows)
    BY <1>1
  <2>4. ASSUME NEW f \in {"windows_val", "windows_test"}, NEW t \in L["windows_train"],
               NEW o \in L[f], t.split = o.split, o.whole, FoundComplete(L, t.split)
        PROVE  FaultsOf(t.rows) \subseteq FaultsOf(o.rows)
    <3>1. PICK u \in K["windows_train"] :
            t.split = u.split /\ FaultsOf(t.rows) \subseteq FaultsOf(u.rows)
      BY <2>3
    <3>2. o \in K[f] /\ FoundComplete(K, u.split)
      BY <2>1, <2>2, <2>4, <3>1
    <3>3. FaultsOf(u.rows) \subseteq FaultsOf(o.rows)
      BY <1>2, <2>4, <3>1, <3>2 DEF NoWarningsTrue
    <3> QED BY <3>1, <3>3
  <2> QED BY <2>4 DEF NoWarningsTrue
<1> QED BY <1>3, <1>4, <1>5, <1>6 DEF Claims

LEMMA ReportKill ==
  ASSUME FilesInv, ReportInv, Kill
  PROVE  OutputClaims(fs', job'.left, launches')
<1> DEFINE W == job.left
           w == Head(job.left)
           cut == fs'[w.file]
           K == Known(fs, W)
           L == Known(fs', << >>)
<1>1. /\ job'.left = << >> /\ launches' = launches /\ launches \in Nat
      /\ Len(W) \in Nat \ {0} /\ w = W[1] /\ Sound(w.file, w.content)
      /\ \A f \in FileNames : f # w.file => fs'[f] = fs[f]
      /\ cut \in Torn(w.file, fs[w.file], w.content)
  BY JobStep, IdleLeft
<1>2. Claims(K, launches) /\ ReportedStays(fs, W) /\ WindowsFirst(fs, W)
  BY DEF ReportInv
<1>3. 1 \in 1 .. Len(W)
  <2> DEFINE l == Len(W)
  <2>1. l \in Nat \ {0}
    BY <1>1
  <2> HIDE DEF l
  <2>2. 1 \in 1 .. l
    BY <2>1
  <2> QED BY <2>2 DEF l
<1> HIDE DEF W, w
<1>4. w.content \in Pending(W, w.file)
  BY <1>1, <1>3 DEF Pending
<1>5. /\ \A f \in ReportFiles : f # w.file => fs'[f] = fs[f]
      /\ \A f \in ReportFiles : f # w.file => L[f] \subseteq K[f]
      /\ w.file \in ReportFiles => L[w.file] \subseteq K[w.file] \cup ({cut} \ {Absent, Unreadable})
      /\ w.file \in ReportFiles /\ fs[w.file] \notin {Absent, Unreadable} => fs[w.file] \in K[w.file]
      /\ w.file \in ReportFiles /\ w.content \notin {Absent, Unreadable} => w.content \in K[w.file]
  <2>1. \A f \in ReportFiles : L[f] = {fs'[f]} \ {Absent, Unreadable}
    BY NothingPending DEF Known
  <2>2. \A f \in ReportFiles : f # w.file => fs'[f] = fs[f]
    BY <1>1, NamesOfReports
  <2> HIDE DEF L
  <2> QED BY <1>4, <2>1, <2>2 DEF Known
<1> HIDE DEF K, L, cut
<1>6. \/ cut = fs[w.file] \/ cut \in {Absent, Unreadable} \/ w.file \notin ReportFiles
      \/ /\ w.file = "raw_index"
         /\ w.content \notin {Absent, Unreadable} /\ cut.build = w.content.build
         /\ \A e \in DOMAIN cut.rows : e \in DOMAIN w.content.rows /\ cut.rows[e] = w.content.rows[e]
      \/ /\ w.file \in WindowFiles
         /\ w.content \notin {Absent, Unreadable}
         /\ cut.split = w.content.split /\ ~cut.whole
         /\ w.file = "windows_all" => cut.build = w.content.build
         /\ ToSet(cut.rows) \subseteq ToSet(w.content.rows)
  <2>1. CASE w.file \in WindowFiles
    <3> DEFINE f == w.file
               old == fs[f]
               new == w.content
    <3>1. f \in WindowFiles /\ cut \in Torn(f, old, new) /\ Sound(f, new)
      BY <1>1, <2>1 DEF cut
    <3> HIDE DEF f, old, new
    <3>2. \/ cut = old
          \/ cut = new /\ new \in {Absent, Unreadable}
          \/ /\ new \notin {Absent, Unreadable}
             /\ cut.split = new.split /\ ~cut.whole
             /\ f = "windows_all" => cut.build = new.build
             /\ ToSet(cut.rows) \subseteq ToSet(new.rows)
      BY <3>1, TornWindows
    <3> QED BY <2>1, <3>2 DEF f, old, new
  <2>2. CASE w.file = "raw_index"
    <3> DEFINE f == w.file
    <3>1. /\ cut \in Torn("raw_index", fs[f], w.content) /\ Sound("raw_index", w.content)
      BY <1>1, <2>2 DEF cut
    <3> HIDE DEF f
    <3>2. \/ cut = fs[f] \/ cut \in {Absent, Unreadable}
          \/ /\ w.content \notin {Absent, Unreadable}
             /\ cut = [build |-> w.content.build, rows |-> cut.rows]
             /\ \E k : cut.rows = [e \in {d \in DOMAIN w.content.rows : d < k} |-> w.content.rows[e]]
      BY <3>1, TornIndex
    <3>3. cut = [build |-> w.content.build, rows |-> cut.rows] => cut.build = w.content.build
      OBVIOUS
    <3> QED BY <2>2, <3>2, <3>3 DEF f
  <2>3. CASE w.file = "quality_report"
    <3>1. cut \in Torn("quality_report", fs[w.file], w.content)
      BY <1>1, <2>3 DEF cut
    <3>2. "quality_report" \notin WindowFiles \cup CopyDirectories \cup ModelFiles \cup {"raw_index"}
      BY DEF WindowFiles, CopyDirectories, ModelFiles
    <3> QED BY <3>1, <3>2, TornOther
  <2> QED BY <2>1, <2>2, <2>3, PartFiles DEF ReportFiles, WindowFiles
<1>7. Claims(L, launches)
  <2>1. CASE cut = fs[w.file] \/ cut \in {Absent, Unreadable} \/ w.file \notin ReportFiles
    <3>1. \A f \in ReportFiles : L[f] \subseteq K[f]
      BY <1>5, <2>1
    <3>2. launches <= launches
      BY <1>1
    <3> QED BY <1>1, <1>2, <3>1, <3>2, ClaimsOfFewer
  <2>2. CASE /\ w.file = "raw_index"
             /\ w.content \notin {Absent, Unreadable} /\ cut.build = w.content.build
             /\ \A e \in DOMAIN cut.rows : e \in DOMAIN w.content.rows /\ cut.rows[e] = w.content.rows[e]
    <3> DEFINE new == w.content
    <3>1. new \in K["raw_index"] /\ L["raw_index"] \subseteq K["raw_index"] \cup {cut}
      BY <1>5, <2>2, NamesOfReports
    <3>2. \A f \in ReportFiles \ {"raw_index"} : L[f] \subseteq K[f]
      BY <1>5, <2>2
    <3>3. cut.build = new.build
          /\ \A e \in DOMAIN cut.rows : e \in DOMAIN new.rows /\ cut.rows[e] = new.rows[e]
      BY <2>2
    <3> HIDE DEF new
    <3> QED BY <1>1, <1>2, <3>1, <3>2, <3>3, ClaimsOfCutIndex
  <2>3. CASE /\ w.file \in WindowFiles
             /\ w.content \notin {Absent, Unreadable}
             /\ cut.split = w.content.split /\ ~cut.whole
             /\ w.file = "windows_all" => cut.build = w.content.build
             /\ ToSet(cut.rows) \subseteq ToSet(w.content.rows)
    <3> DEFINE new == w.content
    <3>1. w.file \in ReportFiles
      BY <2>3, PartFiles DEF ReportFiles, WindowFiles
    <3>2. CASE w.file = "windows_all"
      <4>1. new \in K["windows_all"] /\ L["windows_all"] \subseteq K["windows_all"] \cup {cut}
        BY <1>5, <2>3, <3>1, <3>2
      <4>2. \A f \in ReportFiles \ {"windows_all"} : L[f] \subseteq K[f]
        BY <1>5, <3>2
      <4>3. cut.build = new.build /\ cut.split = new.split /\ ~cut.whole
        BY <2>3, <3>2
      <4>4. \A t \in L["windows_train"] : t.split # cut.split
        <5>1. "windows_train" \in SplitFiles /\ "windows_train" \in ReportFiles
              /\ w.file # "windows_train"
          BY <3>2, PartFiles DEF ReportFiles
        <5>2. fs'["windows_train"] = fs["windows_train"]
          BY <1>5, <5>1
        <5>3. \A t \in L["windows_train"] :
                 t = fs["windows_train"] /\ t \notin {Absent, Unreadable}
          BY <5>1, <5>2, NothingPending DEF L, Known
        <5>4. \/ fs["windows_train"] \in {Absent, Unreadable}
              \/ fs["windows_train"].split # new.split
          BY <1>1, <1>2, <1>3, <3>2, <5>1 DEF WindowsFirst
        <5> QED BY <4>3, <5>3, <5>4
      <4> HIDE DEF new
      <4> QED BY <1>1, <1>2, <4>1, <4>2, <4>3, <4>4, ClaimsOfCutWindows
    <3>3. CASE w.file # "windows_all"
      <4> DEFINE p == w.file
      <4>1. p \in SplitFiles
        BY <2>3, <3>3, PartFiles DEF WindowFiles
      <4>2. new \in K[p] /\ L[p] \subseteq K[p] \cup {cut}
        BY <1>5, <2>3, <3>1
      <4>3. \A f \in ReportFiles \ {p} : L[f] \subseteq K[f]
        BY <1>5
      <4>4. cut.split = new.split /\ ~cut.whole
        BY <2>3
      <4>5. FaultsOf(cut.rows) \subseteq FaultsOf(new.rows)
        <5>1. ToSet(cut.rows) \subseteq ToSet(new.rows)
          BY <2>3
        <5> HIDE DEF new
        <5> QED BY <5>1 DEF FaultsOf, LabelsOf, ToSet
      <4> HIDE DEF new, p
      <4> QED BY <1>1, <1>2, <4>1, <4>2, <4>3, <4>4, <4>5, ClaimsOfCutPart
    <3> QED BY <3>2, <3>3
  <2> QED BY <1>6, <2>1, <2>2, <2>3
<1>8. ReportedStays(fs', << >>)
  <2> SUFFICES ASSUME L["quality_report"] # {}, NEW f \in {"raw_index", "windows_all"}
               PROVE  fs'[f] \notin {Absent, Unreadable}
    BY NothingPending DEF ReportedStays, L
  <2>0. f \in ReportFiles /\ "quality_report" \in ReportFiles
    BY NamesOfReports
  <2>1. K["quality_report"] # {}
    <3>1. CASE w.file # "quality_report"
      BY <1>5, <2>0, <3>1
    <3>2. CASE w.file = "quality_report"
      <4>1. cut = fs["quality_report"] \/ cut \in {Absent, Unreadable}
        BY <1>1, <3>2, TornOther DEF cut, WindowFiles, CopyDirectories, ModelFiles
      <4>2. L["quality_report"] \subseteq K["quality_report"]
        BY <1>5, <2>0, <3>2, <4>1
      <4> QED BY <4>2
    <3> QED BY <3>1, <3>2
  <2>2. fs[f] \notin {Absent, Unreadable} /\ Pending(W, f) \cap {Absent, Unreadable} = {}
    BY <1>2, <2>1 DEF ReportedStays, K
  <2>3. CASE w.file # f
    BY <1>5, <2>0, <2>2, <2>3
  <2>4. CASE w.file = f
    <3>1. w.content \notin {Absent, Unreadable}
      BY <1>4, <2>2, <2>4
    <3>2. CASE f = "raw_index"
      <4>1. cut \in Torn("raw_index", fs[f], w.content) /\ Sound("raw_index", w.content)
        BY <1>1, <2>4, <3>2 DEF cut
      <4>2. cut = fs[f] \/ cut \notin {Absent, Unreadable}
        BY <3>1, <4>1, TornIndex
      <4> QED BY <2>2, <2>4, <4>2 DEF cut
    <3>3. CASE f = "windows_all"
      <4>1. cut = fs[f] \/ cut \notin {Absent, Unreadable}
        BY <1>1, <2>4, <3>1, <3>3, TornWindows DEF cut, WindowFiles
      <4> QED BY <2>2, <2>4, <4>1 DEF cut
    <3> QED BY <3>2, <3>3
  <2> QED BY <2>3, <2>4
<1>9. WindowsFirst(fs', << >>)
  BY DEF WindowsFirst
<1> QED BY <1>1, <1>7, <1>8, <1>9 DEF OutputClaims, L

LEMMA ReportWrite ==
  ASSUME FilesInv, ReportInv, WriteFile
  PROVE  OutputClaims(fs', job'.left, launches')
<1> DEFINE W == job.left
           T == Tail(job.left)
           w == Head(job.left)
           K == Known(fs, W)
           L == Known(fs', T)
<1>1. /\ job'.left = T /\ launches' = launches /\ launches \in Nat
      /\ Len(W) \in Nat \ {0} /\ w = W[1]
      /\ Len(T) = Len(W) - 1 /\ \A i \in 1 .. Len(T) : T[i] = W[i + 1]
      /\ \A f \in FileNames : f # w.file => fs'[f] = fs[f]
      /\ fs'[w.file] = w.content
  BY JobStep, IdleLeft
<1>2. Claims(K, launches) /\ ReportedStays(fs, W) /\ WindowsFirst(fs, W)
  BY DEF ReportInv
<1> HIDE DEF W, T, w
<1>3. /\ \A f : Pending(T, f) \subseteq Pending(W, f)
      /\ \A f : w.file = f => w.content \in Pending(W, f)
  BY <1>1, PendingTail
<1>4. ASSUME NEW f \in ReportFiles
      PROVE  (fs'[f] = fs[f] /\ f # w.file) \/ (f = w.file /\ fs'[f] \in Pending(W, f))
  <2>1. CASE f = w.file
    BY <1>1, <1>3, <2>1
  <2>2. CASE f # w.file
    BY <1>1, <2>2, NamesOfReports
  <2> QED BY <2>1, <2>2
<1>5. \A f \in ReportFiles : L[f] \subseteq K[f]
  BY <1>3, <1>4 DEF Known
<1>6. Claims(L, launches)
  <2>1. launches <= launches
    BY <1>1
  <2> HIDE DEF K, L
  <2> QED BY <1>1, <1>2, <1>5, <2>1, ClaimsOfFewer
<1>7. ReportedStays(fs', T)
  <2>1. \A f \in {"raw_index", "windows_all"} : Pending(T, f) \cap {Absent, Unreadable} = {}
    BY <1>2, <1>3 DEF ReportedStays
  <2>2. ASSUME L["quality_report"] # {}, NEW f \in {"raw_index", "windows_all"}
        PROVE  fs'[f] \notin {Absent, Unreadable}
    <3>1. K["quality_report"] # {}
      BY <1>5, <2>2, NamesOfReports
    <3>2. fs[f] \notin {Absent, Unreadable} /\ Pending(W, f) \cap {Absent, Unreadable} = {}
      BY <1>2, <3>1 DEF ReportedStays
    <3> QED BY <1>4, <3>2, NamesOfReports
  <2> QED BY <2>1, <2>2 DEF ReportedStays
<1>8. WindowsFirst(fs', T)
  <2>1. ASSUME NEW i \in 1 .. Len(T), T[i].file = "windows_all"
        PROVE  /\ \A j \in 1 .. i - 1 : T[j].file \notin SplitFiles
               /\ \A f \in SplitFiles : \/ fs'[f] \in {Absent, Unreadable}
                                        \/ fs'[f].split # T[i].content.split
    <3> DEFINE l == Len(T)
               m == i + 1
    <3>1. l \in Nat /\ i \in 1 .. l /\ Len(W) = l + 1
      <4> DEFINE k == Len(W)
      <4>1. k \in Nat \ {0} /\ l = k - 1 /\ i \in 1 .. l
        BY <1>1
      <4> HIDE DEF k, l
      <4>2. l \in Nat /\ k = l + 1
        BY <4>1
      <4> QED BY <4>1, <4>2 DEF k
    <3>0. \A j \in 1 .. l : T[j] = W[j + 1]
      BY <1>1
    <3> HIDE DEF l
    <3>2. m \in 1 .. Len(W) /\ m - 1 = i /\ T[i] = W[m]
      BY <1>1, <3>1 DEF l
    <3>3. /\ \A j \in 1 .. m - 1 : W[j].file \notin SplitFiles
          /\ \A f \in SplitFiles : \/ fs[f] \in {Absent, Unreadable}
                                   \/ fs[f].split # W[m].content.split
      BY <1>2, <2>1, <3>2 DEF WindowsFirst
    <3>4. w.file \notin SplitFiles
      <4>1. 1 \in 1 .. m - 1
        BY <3>1, <3>2
      <4> QED BY <1>1, <3>3, <4>1
    <3>5. \A j \in 1 .. i - 1 : j + 1 \in 1 .. m - 1 /\ T[j] = W[j + 1]
      BY <3>0, <3>1, <3>2
    <3>6. \A f \in SplitFiles : fs'[f] = fs[f]
      BY <1>4, <3>4, NamesOfReports
    <3> QED BY <3>2, <3>3, <3>5, <3>6
  <2> QED BY <2>1 DEF WindowsFirst
<1> QED BY <1>1, <1>6, <1>7, <1>8 DEF OutputClaims, L

LEMMA ReportInvStep == FilesInv /\ ReportInv /\ [Next]_pipelineVars => ReportInv'
<1> SUFFICES ASSUME FilesInv, ReportInv, [Next]_pipelineVars PROVE ReportInv'
  OBVIOUS
<1>1. artifacts' = artifacts
  BY ArtifactsStay
<1>2. SUFFICES OutputClaims(fs', job'.left, launches')
  BY <1>1, ReportInvNext
<1>3. launches \in Nat /\ InputsTyped
  BY DEF FilesInv
<1>4. CASE NoScript
  <2>1. job' = job /\ launches' \in Nat /\ launches <= launches'
        /\ \A f \in ReportFiles : fs'[f] = fs[f]
    BY <1>3, <1>4, NamesOfReports DEF NoScript
  <2> DEFINE W == job.left
             n == launches'
             K == Known(fs, W)
             L == Known(fs', W)
  <2>2. Claims(K, launches) /\ ReportedStays(fs, W) /\ WindowsFirst(fs, W)
    BY DEF ReportInv
  <2> HIDE DEF W, n
  <2>3. \A f \in ReportFiles : L[f] = K[f]
    BY <2>1 DEF Known
  <2> HIDE DEF K, L
  <2>4. Claims(L, n)
    <3>1. \A f \in ReportFiles : L[f] \subseteq K[f]
      BY <2>3
    <3> QED BY <1>3, <2>1, <2>2, <3>1, ClaimsOfFewer DEF n
  <2>5. ReportedStays(fs', W)
    BY <2>1, <2>2, <2>3, NamesOfReports DEF ReportedStays, K, L
  <2>6. WindowsFirst(fs', W)
    BY <2>1, <2>2, NamesOfReports DEF WindowsFirst
  <2> QED BY <2>1, <2>4, <2>5, <2>6 DEF OutputClaims, L, W, n
<1>5. ASSUME NEW p \in Program, NEW score, Launched(p, score)
      PROVE  OutputClaims(fs', job'.left, launches')
  <2>1. /\ job = Idle /\ ScoreTyped(p, score) /\ fs' = fs /\ launches' = launches + 1
        /\ job'.left = Output(p, fs, score, launches + 1).writes
    BY <1>5 DEF Launched
  <2>2. FilesSound(fs, launches)
    BY <2>1, BetweenScripts
  <2>3. ReportOK(fs, launches)
    <3>1. job.left = << >>
      BY <2>1, IdleLeft
    <3>2. Claims(Known(fs, job.left), launches) /\ ReportedStays(fs, job.left)
      BY DEF ReportInv
    <3> QED BY <3>1, <3>2 DEF ReportOK
  <2>4. OutputClaims(fs, Output(p, fs, score, launches + 1).writes, launches + 1)
    BY <1>3, <2>1, <2>2, <2>3, OutputReports
  <2> QED BY <2>1, <2>4
<1> QED BY <1>4, <1>5, StepKinds, ReportKill, ReportWrite

LEMMA ReportPromise == FilesInv /\ SplitInv /\ ReportInv => ReportHolds
<1> SUFFICES ASSUME FilesInv, SplitInv, ReportInv PROVE ReportHolds
  OBVIOUS
<1> DEFINE quality == fs["quality_report"]
           all == fs["windows_all"]
           index == fs["raw_index"]
           K == Known(fs, job.left)
<1>1. StampsUpTo(K, launches) /\ IndexTrue(K) /\ NoErrorsTrue(K) /\ NoWarningsTrue(K)
      /\ ReportedStays(fs, job.left)
  BY DEF ReportInv, Claims
<1>2. SUFFICES ASSUME Readable(fs, "quality_report"), quality.errors = {}, all.whole
               PROVE  /\ quality.index = index.build /\ quality.origin.build = all.build
                         => \A e \in DOMAIN index.rows :
                               index.rows[e].included /\ artifacts[e].events # {}
                               => Explained(e, all.rows)
                      /\ (quality.warnings = {} /\ Settled({"split"})
                          /\ \A f \in SplitFiles :
                                fs[f] # Absent /\ fs[f].split = quality.origin.split)
                         => \A l \in FaultsOf(fs["windows_train"].rows) :
                               l \in FaultsOf(fs["windows_val"].rows)
                                     \cap FaultsOf(fs["windows_test"].rows)
  BY DEF ReportHolds, Explained
<1>3. \A f \in ReportFiles : fs[f] \notin {Absent, Unreadable} => fs[f] \in K[f]
  BY DEF Known
<1>4. quality \in K["quality_report"]
  BY <1>2, <1>3, NamesOfReports DEF Readable
<1>5. all \in K["windows_all"] /\ index \in K["raw_index"]
  <2>1. all \notin {Absent, Unreadable} /\ index \notin {Absent, Unreadable}
    BY <1>1, <1>4 DEF ReportedStays
  <2> QED BY <1>3, <2>1, NamesOfReports
<1>6. ASSUME quality.index = index.build, quality.origin.build = all.build,
             NEW e \in DOMAIN index.rows, index.rows[e].included, artifacts[e].events # {}
      PROVE  Explained(e, all.rows)
  <2> HIDE DEF K
  <2> QED BY <1>1, <1>2, <1>4, <1>5, <1>6 DEF NoErrorsTrue
<1>7. ASSUME quality.warnings = {}, Settled({"split"}),
             \A f \in SplitFiles : fs[f] # Absent /\ fs[f].split = quality.origin.split,
             NEW l \in FaultsOf(fs["windows_train"].rows),
             NEW f \in {"windows_val", "windows_test"}
      PROVE  l \in FaultsOf(fs[f].rows)
  <2>1. SplitDone(fs)
    <3>1. SplitOK(fs)
      BY <1>7 DEF SplitInv, Settled
    <3> QED BY <1>7, <3>1, PartFiles DEF SplitOK
  <2>2. \A g \in SplitFiles : fs[g] \in PartWindows /\ fs[g].whole
    BY <2>1 DEF SplitDone, SplitFiles
  <2>3. \A g \in SplitFiles : fs[g] \notin {Absent, Unreadable}
    BY <2>2 DEF PartWindows, Absent, Unreadable
  <2>4. \A g \in SplitFiles : fs[g] \in K[g]
    BY <1>3, <2>3, NamesOfReports
  <2>5. "windows_train" \in SplitFiles /\ f \in SplitFiles
    BY PartFiles
  <2> HIDE DEF K
  <2>6. FoundComplete(K, quality.origin.split)
    BY <1>4, <1>7 DEF FoundComplete
  <2> DEFINE t == fs["windows_train"]
             o == fs[f]
  <2>7. t \in K["windows_train"] /\ o \in K[f] /\ o.whole
        /\ t.split = quality.origin.split /\ o.split = quality.origin.split
    BY <1>7, <2>2, <2>4, <2>5
  <2>8. FaultsOf(t.rows) \subseteq FaultsOf(o.rows)
    <3> HIDE DEF t, o, quality
    <3> QED BY <1>1, <2>6, <2>7 DEF NoWarningsTrue
  <2> QED BY <1>7, <2>8
<1> QED BY <1>6, <1>7

LEMMA ReportInvInit == Init => ReportInv
<1> SUFFICES ASSUME Init PROVE ReportInv
  OBVIOUS
<1>1. ReportOK(fs, launches)
  BY FirstFiles DEF FilesOK
<1>2. job.left = << >>
  BY IdleLeft DEF Init
<1>3. WindowsFirst(fs, << >>)
  BY DEF WindowsFirst
<1> QED BY <1>1, <1>2, <1>3 DEF ReportOK, ReportInv

\* As long as index and windows are those a report without errors has seen,
\* every included experiment with a fault has windows of that fault and of the
\* recovery; without warnings, each fault is in the files of the val and the
\* test split too (phase3_dataset_report.py:100).
THEOREM ReportHoldsAlways == Spec => []ReportHolds
<1>1. Init => FilesInv /\ SplitInv /\ ReportInv
  BY FilesInit, SplitInvInit, ReportInvInit
<1>2. FilesInv /\ SplitInv /\ ReportInv /\ [Next]_pipelineVars
      => (FilesInv /\ SplitInv /\ ReportInv)'
  BY FilesStep, SplitInvStep, ReportInvStep
<1> QED BY <1>1, <1>2, ReportPromise, PTL DEF Spec

---------------------------------------------------------------------------
(* Exports while scripts run, are stopped and fail.                        *)

\* A training may fail half way, a generalization or an ablation only if killed.
MayFail(p) == p = "train" \/ kills # 0

ProducerInv(p) ==
    /\ p \in dirty /\ job.prog # p => MayFail(p)
    /\ job.prog = p => job.ok \/ p = "train"
    /\ job.prog # p /\ p \notin dirty => FinishedOnce(p, fs, launches)
    /\ job.prog = p /\ job.ok => Finished(p, AfterWrites(fs, job.left), launches)
    /\ \A c \in {fs[KeyOf[p]]} \cup Pending(job.left, KeyOf[p]) : StampOrNone(c, launches)

ExporterInv(x) ==
    /\ job.prog # x /\ x \notin dirty /\ Exported(x, fs) => OfItsCopies(x, fs)
    /\ job.prog = x /\ job.ok => OfItsCopies(x, AfterWrites(fs, job.left))

\* What an export is about to leave is of launches before it; and of one, or the
\* producer has not come to its end.
CopiesToCome(p) ==
    job.prog = ExporterOf[p] /\ job.ok
    => /\ CopyFrom(p, AfterWrites(fs, job.left))[KeyOf[p]] \in 0 .. launches - 1
       /\ CopiedOfOne(p, AfterWrites(fs, job.left)) \/ p \in dirty

\* What an export left is of one launch; or, where the producer may fail half
\* way, it has not come to its end or its manifest is another.
CopiesThere(p) ==
    LET x == ExporterOf[p]
        copy == CopyFrom(p, fs)
    IN  job.prog # x /\ x \notin dirty /\ Exported(x, fs)
        => /\ copy[KeyOf[p]] \in 0 .. IF job.prog = p THEN launches - 1 ELSE launches
           /\ \/ CopiedOfOne(p, fs)
              \/ /\ MayFail(p)
                 /\ p \in dirty \/ job.prog = p \/ copy[KeyOf[p]] # fs[KeyOf[p]].stamp

ExportInv ==
    /\ kills \in Nat
    /\ \A p \in Producers : ProducerInv(p) /\ CopiesToCome(p) /\ CopiesThere(p)
    /\ \A x \in Exporters : ExporterInv(x)

LEMMA IdleProg == Idle.prog \notin Program /\ Idle.prog = "none" /\ Idle.left = << >>
BY DEF Idle, Program

LEMMA StampOfFinished ==
  ASSUME NEW p \in Producers, NEW files, NEW n \in Nat, FinishedOnce(p, files, n)
  PROVE  StampOrNone(files[KeyOf[p]], n)
BY ExportNames DEF FinishedOnce, Finished, StampOrNone

LEMMA ExportInvIdle ==
  ASSUME ExportsOK(fs, launches), launches \in Nat, job = Idle, kills = 0, dirty = {}
  PROVE  ExportInv
<1>1. job.left = << >> /\ \A p \in Program : job.prog # p
  BY IdleProg
<1>2. ASSUME NEW p \in Producers PROVE ProducerInv(p) /\ CopiesToCome(p) /\ CopiesThere(p)
  <2>1. /\ job.prog # p /\ job.prog # ExporterOf[p] /\ ExporterOf[p] \in Exporters
    BY <1>1, ExportNames
  <2>2. FinishedOnce(p, fs, launches)
    BY DEF ExportsOK
  <2>3. StampOrNone(fs[KeyOf[p]], launches)
    BY <2>2, StampOfFinished
  <2>4. Pending(job.left, KeyOf[p]) = {}
    BY <1>1, NothingPending
  <2> QED BY <2>1, <2>2, <2>3, <2>4 DEF ProducerInv, CopiesToCome, CopiesThere, ExportsOK
<1>3. \A x \in Exporters : ExporterInv(x)
  BY <1>1, ExportNames DEF ExporterInv, ExportsOK
<1> QED BY <1>2, <1>3 DEF ExportInv

\* What is there in the end depends on what is there now.
LEMMA AfterSame ==
  ASSUME NEW files, NEW new, NEW W, NEW f \in DOMAIN files \cap DOMAIN new, files[f] = new[f]
  PROVE  AfterWrites(files, W)[f] = AfterWrites(new, W)[f]
BY DEF AfterWrites

LEMMA ExportNoScript ==
  ASSUME FilesInv, FilesInv', ExportInv, NoScript
  PROVE  ExportInv'
<1>1. /\ job' = job /\ dirty' = dirty /\ launches \in Nat /\ launches' \in Nat
      /\ launches' = launches \/ (launches' = launches + 1 /\ job = Idle)
      /\ kills \in Nat /\ kills' \in Nat /\ (kills # 0 => kills' # 0)
      /\ \A f \in FileNames \ RawFiles : fs'[f] = fs[f]
      /\ DOMAIN fs = FileNames /\ DOMAIN fs' = FileNames
  BY DEF NoScript, FilesInv, SoundFiles, ExportInv
<1>2. \A f \in FileNames \ RawFiles :
         AfterWrites(fs', job.left)[f] = AfterWrites(fs, job.left)[f]
  BY <1>1, AfterSame
<1>3. \A p \in Program : job.prog = p => launches' = launches
  BY <1>1, IdleProg
<1>4. \A k : k \in 0 .. launches => k \in 0 .. launches'
  BY <1>1
<1>5. \A p \in Producers : SourcesOf[p] \subseteq FileNames \ RawFiles
  BY ExportNames, WrittenFiles
<1>6. \A x \in Exporters : WrittenBy[x] \subseteq FileNames \ RawFiles
  BY ExportNames, WrittenFiles
<1>7. ASSUME NEW p \in Producers PROVE ProducerInv(p)'
  <2>1. ProducerInv(p) /\ p \in Program
    BY ExportNames DEF ExportInv
  <2>2. /\ fs'[KeyOf[p]] = fs[KeyOf[p]]
        /\ FinishedOnce(p, fs', launches) <=> FinishedOnce(p, fs, launches)
        /\ Finished(p, AfterWrites(fs', job.left), launches)
           <=> Finished(p, AfterWrites(fs, job.left), launches)
    <3>1. \A f \in SourcesOf[p] : fs'[f] = fs[f]
      BY <1>1, <1>5
    <3>2. \A f \in SourcesOf[p] : AfterWrites(fs', job.left)[f] = AfterWrites(fs, job.left)[f]
      BY <1>2, <1>5
    <3> QED BY <3>1, <3>2, ProducerSame
  <2>3. FinishedOnce(p, fs', launches) => FinishedOnce(p, fs', launches')
    BY <1>4 DEF FinishedOnce
  <2>4. \A c : StampOrNone(c, launches) => StampOrNone(c, launches')
    BY <1>4 DEF StampOrNone
  <2> QED BY <1>1, <1>3, <2>1, <2>2, <2>3, <2>4 DEF ProducerInv, MayFail
<1>8. ASSUME NEW x \in Exporters
      PROVE  /\ Exported(x, fs') <=> Exported(x, fs)
             /\ OfItsCopies(x, fs') <=> OfItsCopies(x, fs)
             /\ OfItsCopies(x, AfterWrites(fs', job.left))
                <=> OfItsCopies(x, AfterWrites(fs, job.left))
             /\ \A p \in Producers : ExporterOf[p] = x =>
                   /\ CopyFrom(p, fs') = CopyFrom(p, fs)
                   /\ CopiedOfOne(p, fs') <=> CopiedOfOne(p, fs)
                   /\ CopyFrom(p, AfterWrites(fs', job.left))
                      = CopyFrom(p, AfterWrites(fs, job.left))
                   /\ CopiedOfOne(p, AfterWrites(fs', job.left))
                      <=> CopiedOfOne(p, AfterWrites(fs, job.left))
  <2>1. \A f \in WrittenBy[x] : fs'[f] = fs[f]
    BY <1>1, <1>6
  <2>2. \A f \in WrittenBy[x] : AfterWrites(fs', job.left)[f] = AfterWrites(fs, job.left)[f]
    BY <1>2, <1>6
  <2> QED BY <2>1, <2>2, ExporterSame
<1>9. ASSUME NEW p \in Producers PROVE CopiesToCome(p)' /\ CopiesThere(p)'
  <2>1. CopiesToCome(p) /\ CopiesThere(p) /\ p \in Program
        /\ ExporterOf[p] \in Exporters /\ ExporterOf[p] \in Program
    BY ExportNames DEF ExportInv
  <2>2. fs'[KeyOf[p]] = fs[KeyOf[p]]
    BY <1>1, <1>5, ExportNames
  <2>3. CopiesToCome(p)'
    BY <1>1, <1>3, <1>8, <2>1 DEF CopiesToCome
  <2>4. CopiesThere(p)'
    BY <1>1, <1>3, <1>4, <1>8, <2>1, <2>2 DEF CopiesThere, MayFail
  <2> QED BY <2>3, <2>4
<1>10. \A x \in Exporters : ExporterInv(x)'
  BY <1>1, <1>8 DEF ExporterInv, ExportInv
<1> QED BY <1>1, <1>7, <1>9, <1>10 DEF ExportInv

LEMMA ExportLaunch ==
  ASSUME FilesInv, ExportInv, NEW p0 \in Program, NEW score, Launched(p0, score)
  PROVE  ExportInv'
<1> DEFINE W == Output(p0, fs, score, launches + 1).writes
           ok == Output(p0, fs, score, launches + 1).ok
           n == launches
           done == AfterWrites(fs, W)
<1>1. /\ job = Idle /\ launches' = n + 1 /\ fs' = fs /\ dirty' = dirty /\ kills' = kills
      /\ job'.prog = p0 /\ job'.left = W /\ job'.ok = ok /\ W # << >>
      /\ n \in Nat /\ InputsTyped /\ SoundFiles(fs) /\ ScoreTyped(p0, score)
  BY DEF Launched, FilesInv
<1>2. IsSeq(W) /\ SoundWrites(p0, ToSet(W))
  <2>1. FilesSound(fs, n)
    BY <1>1, BetweenScripts
  <2> QED BY <1>1, <2>1, OutputSound
<1>3. /\ \A p \in Program : job.prog # p
      /\ kills \in Nat
      /\ \A p \in Producers : ProducerInv(p) /\ CopiesThere(p)
      /\ \A x \in Exporters : ExporterInv(x)
  BY <1>1, IdleProg DEF ExportInv
<1>4. /\ \A k : k \in 0 .. n => k \in 0 .. n + 1 /\ k \in 0 .. (n + 1) - 1
  BY <1>1
<1>5. ASSUME NEW p \in Producers
      PROVE  /\ p \notin dirty => FinishedOnce(p, fs, n) /\ FinishedOnce(p, fs, n + 1)
             /\ StampOrNone(fs[KeyOf[p]], n)
             /\ p \in Program /\ ExporterOf[p] \in Exporters /\ ExporterOf[p] \in Program
             /\ job.prog # p /\ job.prog # ExporterOf[p]
  <2>1. p \in Program /\ ExporterOf[p] \in Exporters /\ ExporterOf[p] \in Program
    BY ExportNames
  <2>2. p \notin dirty => FinishedOnce(p, fs, n)
    BY <1>3, <2>1 DEF ProducerInv
  <2>3. StampOrNone(fs[KeyOf[p]], n)
    BY <1>3 DEF ProducerInv
  <2> QED BY <1>1, <1>3, <2>1, <2>2, <2>3, FinishedLater
<1>6. ASSUME NEW p \in Producers, p = p0
      PROVE  /\ ok => Finished(p, done, n + 1)
             /\ ok \/ p = "train"
             /\ Stamped(p, W, n + 1)
  <2>1. Stamped(p, W, n + 1) /\ (ok => AllOfThem(p, W)) /\ (p # "train" => ok)
    BY <1>1, <1>6, ProducerWrites
  <2> HIDE DEF W, ok
  <2> QED BY <1>1, <1>2, <2>1, FinishedAfter
<1>7. ASSUME NEW x \in Exporters, x = p0, ok PROVE CopiesDone(x, fs, done)
  BY <1>1, <1>7, ExporterWrites
<1> HIDE DEF W, ok, n, done
<1>8. ASSUME NEW p \in Producers PROVE ProducerInv(p)'
  <2>1. ASSUME NEW c \in {fs[KeyOf[p]]} \cup Pending(W, KeyOf[p]) PROVE StampOrNone(c, n + 1)
    <3>1. CASE c = fs[KeyOf[p]]
      BY <1>4, <1>5, <3>1 DEF StampOrNone
    <3>2. CASE c \in Pending(W, KeyOf[p])
      <4>1. PICK w \in ToSet(W) : w.file = KeyOf[p] /\ c = w.content
        BY <1>2, <3>2 DEF Pending, ToSet, IsSeq
      <4>2. KeyOf[p] \in SourcesOf[p] /\ KeyOf[p] \in WrittenBy[p0]
        BY <1>2, <4>1, ExportNames DEF SoundWrites
      <4>3. p = p0
        BY <1>5, <4>2, ExportNames
      <4>4. c.stamp = n + 1
        BY <1>6, <4>1, <4>2, <4>3 DEF Stamped
      <4>5. n + 1 \in 0 .. n + 1
        BY <1>1
      <4> QED BY <4>4, <4>5 DEF StampOrNone
    <3> QED BY <2>1, <3>1, <3>2
  <2>2. ProducerInv(p)
    BY <1>3
  <2>3. /\ p \in dirty => MayFail(p)
        /\ p0 = p => ok \/ p = "train"
        /\ p \notin dirty => FinishedOnce(p, fs, n + 1)
        /\ p0 = p /\ ok => Finished(p, done, n + 1)
    BY <1>5, <1>6, <2>2 DEF ProducerInv
  <2> QED BY <1>1, <2>1, <2>3 DEF ProducerInv, MayFail, done
<1>9. ASSUME NEW p \in Producers PROVE CopiesToCome(p)'
  <2>1. ASSUME p0 = ExporterOf[p], ok
        PROVE  /\ CopyFrom(p, done)[KeyOf[p]] \in 0 .. (n + 1) - 1
               /\ CopiedOfOne(p, done) \/ p \in dirty
    <3>1. CopiesDone(ExporterOf[p], fs, done)
      BY <1>5, <1>7, <2>1
    <3>2. CopyFrom(p, done)[KeyOf[p]] \in 0 .. n
      BY <1>1, <1>5, <3>1, KeyOfCopy
    <3>3. p \notin dirty => CopiedOfOne(p, done)
      BY <1>1, <1>5, <3>1, CopyOfLaunch
    <3> QED BY <1>4, <3>2, <3>3
  <2> QED BY <1>1, <2>1 DEF CopiesToCome, done
<1>10. ASSUME NEW p \in Producers PROVE CopiesThere(p)'
  <2>1. CopiesThere(p)
    BY <1>3
  <2> QED BY <1>1, <1>4, <1>5, <2>1 DEF CopiesThere, MayFail, n
<1>11. ASSUME NEW x \in Exporters PROVE ExporterInv(x)'
  <2>1. ExporterInv(x) /\ x \in Program
    BY <1>3, ExportNames
  <2>2. x = p0 /\ ok => OfItsCopies(x, done)
    BY <1>7 DEF CopiesDone
  <2> QED BY <1>1, <1>3, <2>1, <2>2 DEF ExporterInv, done
<1> QED BY <1>1, <1>3, <1>8, <1>9, <1>10, <1>11 DEF ExportInv

\* A script that writes, or is killed, changes nothing of the others.
LEMMA JobFrame ==
  ASSUME FilesInv, WriteFile \/ Kill
  PROVE  /\ \A p \in Producers : p # job.prog =>
               /\ fs'[KeyOf[p]] = fs[KeyOf[p]]
               /\ FinishedOnce(p, fs', launches) <=> FinishedOnce(p, fs, launches)
         /\ \A x \in Exporters : x # job.prog =>
               /\ Exported(x, fs') <=> Exported(x, fs)
               /\ OfItsCopies(x, fs') <=> OfItsCopies(x, fs)
               /\ \A p \in Producers : ExporterOf[p] = x =>
                     /\ CopyFrom(p, fs') = CopyFrom(p, fs)
                     /\ CopiedOfOne(p, fs') <=> CopiedOfOne(p, fs)
<1>1. /\ job.prog \in Program
      /\ \A f \in FileNames \ WrittenBy[job.prog] : fs'[f] = fs[f]
  BY JobStep
<1>2. ASSUME NEW p \in Producers, p # job.prog
      PROVE  /\ fs'[KeyOf[p]] = fs[KeyOf[p]]
             /\ FinishedOnce(p, fs', launches) <=> FinishedOnce(p, fs, launches)
  <2>1. \A f \in SourcesOf[p] : fs'[f] = fs[f]
    BY <1>1, <1>2, ExportNames
  <2> QED BY <2>1, ProducerSame
<1>3. ASSUME NEW x \in Exporters, x # job.prog
      PROVE  /\ Exported(x, fs') <=> Exported(x, fs)
             /\ OfItsCopies(x, fs') <=> OfItsCopies(x, fs)
             /\ \A p \in Producers : ExporterOf[p] = x =>
                   /\ CopyFrom(p, fs') = CopyFrom(p, fs)
                   /\ CopiedOfOne(p, fs') <=> CopiedOfOne(p, fs)
  <2>1. \A f \in WrittenBy[x] : fs'[f] = fs[f]
    BY <1>1, <1>3, ExportNames
  <2> QED BY <2>1, ExporterSame
<1> QED BY <1>2, <1>3

LEMMA JobKeys ==
  ASSUME FilesInv, ExportInv, WriteFile \/ Kill, NEW p \in Producers,
         NEW c \in {fs'[KeyOf[p]]} \cup Pending(job'.left, KeyOf[p])
  PROVE  StampOrNone(c, launches)
<1> DEFINE w == Head(job.left)
           T == Tail(job.left)
           key == KeyOf[p]
           known == {fs[key]} \cup Pending(job.left, key)
<1>1. /\ Len(job.left) \in Nat \ {0} /\ w = job.left[1]
      /\ Len(T) = Len(job.left) - 1 /\ \A i \in 1 .. Len(T) : T[i] = job.left[i + 1]
      /\ \A f \in FileNames : f # w.file => fs'[f] = fs[f]
      /\ WriteFile => fs'[w.file] = w.content
      /\ job'.left = T \/ job' = Idle
      /\ Kill => fs'[w.file] \in Torn(w.file, fs[w.file], w.content)
  BY JobStep
<1>2. \A d \in known : StampOrNone(d, launches)
  BY DEF ExportInv, ProducerInv
<1>3. key \in FileNames
      /\ key \notin WindowFiles \cup CopyDirectories \cup ModelFiles \cup {"raw_index"}
  <2>1. key \in FileNames
    BY ExportNames
  <2>2. key \in {"run_manifest", "generalization_manifest", "ablation_manifest"}
    BY DEF KeyOf, Producers
  <2> HIDE DEF key
  <2> QED BY <2>1, <2>2 DEF WindowFiles, CopyDirectories, ModelFiles
<1> HIDE DEF w, T, key
<1>4. w.file = key => w.content \in known
  <2>1. 1 \in 1 .. Len(job.left)
    BY <1>1
  <2> QED BY <1>1, <2>1 DEF Pending
<1>5. Pending(job'.left, key) \subseteq known
  <2>1. CASE job'.left = T
    <3>1. \A i \in 1 .. Len(T) : i + 1 \in 1 .. Len(job.left)
      BY <1>1
    <3>2. ASSUME NEW d \in Pending(T, key) PROVE d \in Pending(job.left, key)
      <4>1. PICK i \in 1 .. Len(T) : T[i].file = key /\ d = T[i].content
        BY <3>2 DEF Pending
      <4>2. i + 1 \in 1 .. Len(job.left) /\ job.left[i + 1] = T[i]
        BY <1>1, <3>1, <4>1
      <4> QED BY <4>1, <4>2 DEF Pending
    <3> QED BY <2>1, <3>2
  <2>2. CASE job' = Idle
    BY <2>2, IdleProg, NothingPending
  <2> QED BY <1>1, <2>1, <2>2
<1>6. fs'[key] \in known \/ fs'[key] = Unreadable
  <2>1. CASE key # w.file
    BY <1>1, <1>3, <2>1
  <2>2. CASE key = w.file /\ WriteFile
    BY <1>1, <1>4, <2>2
  <2>3. CASE key = w.file /\ Kill
    <3>1. fs'[key] \in Torn(key, fs[key], w.content)
      BY <1>1, <2>3
    <3>2. fs'[key] = fs[key] \/ fs'[key] = Unreadable
      BY <1>3, <3>1, TornOther
    <3> QED BY <3>2
  <2> QED BY <2>1, <2>2, <2>3
<1>7. c \in known \/ c = Unreadable
  BY <1>5, <1>6 DEF key
<1> HIDE DEF known
<1> QED BY <1>2, <1>7 DEF StampOrNone

LEMMA ExportKill == ASSUME FilesInv, ExportInv, Kill PROVE ExportInv'
<1> DEFINE p0 == job.prog
<1>1. /\ p0 \in Program /\ launches' = launches /\ launches \in Nat
      /\ job' = Idle /\ dirty' = dirty \cup {p0} /\ kills' = kills + 1
  BY JobStep
<1>2. kills' \in Nat /\ kills' # 0
  BY <1>1 DEF ExportInv
<1>3. \A p \in Program : job'.prog # p
  BY <1>1, IdleProg
<1>4. ASSUME NEW p \in Producers
      PROVE  /\ ProducerInv(p) /\ CopiesThere(p)
             /\ p \in Program /\ ExporterOf[p] \in Exporters /\ ExporterOf[p] \in Program
  BY ExportNames DEF ExportInv
<1>5. ASSUME NEW p \in Producers PROVE ProducerInv(p)'
  <2>1. p # p0 /\ p \notin dirty => FinishedOnce(p, fs', launches)
    BY <1>4, JobFrame DEF ProducerInv
  <2>2. \A c \in {fs'[KeyOf[p]]} \cup Pending(job'.left, KeyOf[p]) : StampOrNone(c, launches)
    BY JobKeys
  <2> QED BY <1>1, <1>2, <1>3, <1>4, <2>1, <2>2 DEF ProducerInv, MayFail
<1>6. ASSUME NEW p \in Producers PROVE CopiesToCome(p)' /\ CopiesThere(p)'
  <2> DEFINE x == ExporterOf[p]
  <2>1. CopiesToCome(p)'
    BY <1>3, <1>4 DEF CopiesToCome
  <2>2. ASSUME x \notin dirty', Exported(x, fs')
        PROVE  /\ CopyFrom(p, fs')[KeyOf[p]] \in 0 .. launches
               /\ \/ CopiedOfOne(p, fs')
                  \/ p \in dirty' \/ CopyFrom(p, fs')[KeyOf[p]] # fs'[KeyOf[p]].stamp
    <3>1. x # p0 /\ x \notin dirty
      BY <1>1, <2>2
    <3>2. /\ Exported(x, fs)
          /\ CopyFrom(p, fs') = CopyFrom(p, fs)
          /\ CopiedOfOne(p, fs') <=> CopiedOfOne(p, fs)
          /\ p # p0 => fs'[KeyOf[p]] = fs[KeyOf[p]]
      BY <1>4, <2>2, <3>1, JobFrame
    <3>3. /\ CopyFrom(p, fs)[KeyOf[p]] \in 0 .. IF p0 = p THEN launches - 1 ELSE launches
          /\ \/ CopiedOfOne(p, fs)
             \/ p \in dirty \/ p0 = p \/ CopyFrom(p, fs)[KeyOf[p]] # fs[KeyOf[p]].stamp
      BY <1>4, <3>1, <3>2 DEF CopiesThere
    <3>4. \A k : k \in 0 .. launches - 1 => k \in 0 .. launches
      BY <1>1
    <3> QED BY <1>1, <3>2, <3>3, <3>4
  <2>3. CopiesThere(p)'
    BY <1>1, <1>2, <1>3, <1>4, <2>2 DEF CopiesThere, MayFail
  <2> QED BY <2>1, <2>3
<1>7. ASSUME NEW x \in Exporters PROVE ExporterInv(x)'
  <2>1. ExporterInv(x) /\ x \in Program
    BY ExportNames DEF ExportInv
  <2> QED BY <1>1, <1>3, <2>1, JobFrame DEF ExporterInv
<1> QED BY <1>2, <1>5, <1>6, <1>7 DEF ExportInv

LEMMA ExportWrite == ASSUME FilesInv, ExportInv, WriteFile PROVE ExportInv'
<1> DEFINE p0 == job.prog
           T == Tail(job.left)
           done == AfterWrites(fs, job.left)
           more == /\ job'.prog = p0 /\ job'.left = T /\ job'.ok = job.ok
                   /\ dirty' = dirty \cup {p0}
           over == /\ job' = Idle /\ fs' = done
                   /\ dirty' = IF job.ok THEN dirty \ {p0} ELSE dirty \cup {p0}
<1>1. /\ p0 \in Program /\ launches' = launches /\ launches \in Nat /\ kills' = kills
      /\ AfterWrites(fs', T) = done
      /\ more \/ (over /\ T = << >>)
  <2> DEFINE w == Head(job.left)
  <2>1. /\ p0 \in Program /\ launches' = launches /\ launches \in Nat
        /\ IsSeq(job.left) /\ Len(job.left) \in Nat \ {0}
        /\ w.file \in FileNames /\ DOMAIN fs = FileNames /\ DOMAIN fs' = FileNames
        /\ fs' = [fs EXCEPT ![w.file] = w.content] /\ kills' = kills
        /\ \/ more
           \/ /\ job' = Idle /\ T = << >>
              /\ dirty' = IF job.ok THEN dirty \ {p0} ELSE dirty \cup {p0}
    BY JobStep
  <2>2. job.left # << >>
    BY <2>1
  <2>3. AfterWrites(fs', T) = done
    <3>1. AfterWrites([fs EXCEPT ![Head(job.left).file] = Head(job.left).content], Tail(job.left))
          = AfterWrites(fs, job.left)
      BY <2>1, <2>2, OneAfterTheOther
    <3> QED BY <2>1, <3>1
  <2>4. T = << >> => fs' = done
    <3>1. fs' = [f \in FileNames |-> fs'[f]]
      BY <2>1
    <3>2. AfterWrites(fs', << >>) = [f \in FileNames |-> fs'[f]]
      BY <2>1 DEF AfterWrites
    <3> QED BY <2>3, <3>1, <3>2
  <2> HIDE DEF more, T, done
  <2> QED BY <2>1, <2>3, <2>4
<1> HIDE DEF T, done
<1>2. /\ kills \in Nat
      /\ \A p \in Producers : ProducerInv(p) /\ CopiesToCome(p) /\ CopiesThere(p)
      /\ \A x \in Exporters : ExporterInv(x)
  BY DEF ExportInv
<1>3. \A p \in Producers : /\ p \in Program /\ ExporterOf[p] \in Exporters
                           /\ ExporterOf[p] \in Program /\ ExporterOf[p] \notin Producers
  BY ExportNames
<1>4. Idle.prog \notin Program
  BY IdleProg
<1>5. ASSUME NEW p \in Producers PROVE ProducerInv(p)'
  <2>1. p # p0 /\ p \notin dirty => FinishedOnce(p, fs', launches)
    BY <1>2, JobFrame DEF ProducerInv
  <2>2. \A c \in {fs'[KeyOf[p]]} \cup Pending(job'.left, KeyOf[p]) : StampOrNone(c, launches)
    BY JobKeys
  <2>3. p = p0 /\ job.ok => Finished(p, done, launches)
    BY <1>2 DEF ProducerInv, done
  <2>4. CASE more
    <3>1. /\ p \in dirty' /\ p0 # p => MayFail(p)
          /\ p0 = p => job.ok \/ p = "train"
      BY <1>2, <2>4 DEF ProducerInv
    <3> QED BY <1>1, <2>1, <2>2, <2>3, <2>4, <3>1 DEF ProducerInv, MayFail
  <2>5. CASE over
    <3>1. p \in dirty' => MayFail(p)
      BY <1>2, <2>5 DEF ProducerInv, MayFail
    <3>2. p \notin dirty' => FinishedOnce(p, fs', launches)
      <4>1. CASE p = p0
        <5>1. p \notin dirty' => job.ok
          BY <2>5, <4>1
        <5>2. launches \in 0 .. launches
          BY <1>1
        <5> QED BY <2>3, <2>5, <4>1, <5>1, <5>2 DEF FinishedOnce
      <4>2. CASE p # p0
        BY <2>1, <2>5, <4>2
      <4> QED BY <4>1, <4>2
    <3>3. job'.prog # p
      BY <1>3, <1>4, <2>5
    <3> QED BY <1>1, <2>2, <3>1, <3>2, <3>3 DEF ProducerInv, MayFail
  <2> QED BY <1>1, <2>4, <2>5
<1>6. ASSUME NEW x \in Exporters PROVE ExporterInv(x)'
  <2>1. ExporterInv(x) /\ x \in Program
    BY <1>2, ExportNames
  <2>2. CASE more
    BY <1>1, <2>1, <2>2, JobFrame DEF ExporterInv, done
  <2>3. CASE over
    <3>1. job'.prog # x
      BY <1>4, <2>1, <2>3
    <3>2. CASE x = p0
      BY <2>1, <2>3, <3>1, <3>2 DEF ExporterInv, done
    <3>3. CASE x # p0
      BY <2>1, <2>3, <3>1, <3>3, JobFrame DEF ExporterInv
    <3> QED BY <3>2, <3>3
  <2> QED BY <1>1, <2>2, <2>3
<1>7. ASSUME NEW p \in Producers PROVE CopiesToCome(p)'
  <2>1. CASE more
    BY <1>1, <1>2, <2>1 DEF CopiesToCome, done
  <2>2. CASE over
    BY <1>3, <1>4, <2>2 DEF CopiesToCome
  <2> QED BY <1>1, <2>1, <2>2
<1>8. ASSUME NEW p \in Producers PROVE CopiesThere(p)'
  <2> DEFINE x == ExporterOf[p]
             copy == CopyFrom(p, fs')
             key == KeyOf[p]
  <2>0. \A k : k \in 0 .. launches - 1 => k \in 0 .. launches /\ k # launches
    BY <1>1
  <2>1. ASSUME x # p0, x \notin dirty, Exported(x, fs')
        PROVE  /\ copy[key] \in 0 .. IF p0 = p THEN launches - 1 ELSE launches
               /\ \/ CopiedOfOne(p, fs')
                  \/ /\ MayFail(p)
                     /\ p \in dirty \/ p0 = p \/ copy[key] # fs'[key].stamp
    <3>1. /\ Exported(x, fs) /\ copy = CopyFrom(p, fs)
          /\ CopiedOfOne(p, fs') <=> CopiedOfOne(p, fs)
          /\ p # p0 => fs'[key] = fs[key]
      BY <1>3, <2>1, JobFrame
    <3>2. /\ CopyFrom(p, fs)[key] \in 0 .. IF p0 = p THEN launches - 1 ELSE launches
          /\ \/ CopiedOfOne(p, fs)
             \/ /\ MayFail(p)
                /\ p \in dirty \/ p0 = p \/ CopyFrom(p, fs)[key] # fs[key].stamp
      BY <1>2, <2>1, <3>1 DEF CopiesThere
    <3> HIDE DEF copy
    <3> QED BY <3>1, <3>2
  <2>2. CASE more
    <3>1. job'.prog # x /\ x \notin dirty' => x # p0 /\ x \notin dirty
      BY <2>2
    <3> HIDE DEF copy
    <3>2. job'.prog # x /\ x \notin dirty' /\ Exported(x, fs')
          => /\ copy[key] \in 0 .. IF p0 = p THEN launches - 1 ELSE launches
             /\ \/ CopiedOfOne(p, fs')
                \/ /\ MayFail(p)
                   /\ p \in dirty' \/ p0 = p \/ copy[key] # fs'[key].stamp
      BY <2>1, <2>2, <3>1
    <3> QED BY <1>1, <2>2, <3>2 DEF CopiesThere, MayFail, copy
  <2>3. CASE over
    <3>1. job'.prog # x /\ job'.prog # p
      BY <1>3, <1>4, <2>3
    <3>2. SUFFICES ASSUME x \notin dirty', Exported(x, fs')
                   PROVE  /\ copy[key] \in 0 .. launches
                          /\ \/ CopiedOfOne(p, fs')
                             \/ /\ MayFail(p)
                                /\ p \in dirty' \/ copy[key] # fs'[key].stamp
      BY <1>1, <3>1 DEF CopiesThere, MayFail
    <3>3. CASE x = p0
      <4>1. job.ok /\ p # p0
        BY <1>3, <2>3, <3>2, <3>3
      <4>2. CopyFrom(p, done)[key] \in 0 .. launches - 1
            /\ (CopiedOfOne(p, done) \/ p \in dirty)
        BY <1>2, <3>3, <4>1 DEF CopiesToCome, done
      <4>3. p \in dirty => p \in dirty' /\ MayFail(p)
        BY <1>2, <2>3, <4>1 DEF ProducerInv
      <4>4. fs' = done
        BY <2>3
      <4> QED BY <2>0, <4>2, <4>3, <4>4
    <3>4. CASE x # p0
      <4>1. x \notin dirty
        BY <2>3, <3>2, <3>4
      <4> HIDE DEF copy
      <4>2. /\ copy[key] \in 0 .. IF p0 = p THEN launches - 1 ELSE launches
            /\ \/ CopiedOfOne(p, fs')
               \/ /\ MayFail(p)
                  /\ p \in dirty \/ p0 = p \/ copy[key] # fs'[key].stamp
        BY <2>1, <3>2, <3>4, <4>1
      <4>3. CASE p = p0 /\ job.ok
        <5>1. Finished(p, fs', launches)
          BY <1>2, <2>3, <4>3 DEF ProducerInv, done
        <5>2. fs'[key].stamp = launches
          BY <5>1, ExportNames DEF Finished
        <5>3. copy[key] \in 0 .. launches /\ copy[key] # launches
          BY <2>0, <4>2, <4>3
        <5> QED BY <4>2, <5>2, <5>3
      <4>4. CASE p = p0 /\ ~job.ok
        <5>1. p \in dirty'
          BY <2>3, <4>4
        <5> QED BY <2>0, <4>2, <4>4, <5>1
      <4>5. CASE p # p0
        <5>1. p \in dirty => p \in dirty'
          BY <2>3, <4>5
        <5> QED BY <4>2, <4>5, <5>1
      <4> QED BY <4>3, <4>4, <4>5
    <3> QED BY <3>3, <3>4
  <2> QED BY <1>1, <2>2, <2>3
<1> QED BY <1>1, <1>2, <1>5, <1>6, <1>7, <1>8 DEF ExportInv

LEMMA ExportInvStep == FilesInv /\ FilesInv' /\ ExportInv /\ [Next]_pipelineVars => ExportInv'
BY StepKinds, ExportNoScript, ExportLaunch, ExportWrite, ExportKill

LEMMA ExportPromise == ExportInv => ExportsOfOneRun
<1> SUFFICES ASSUME ExportInv PROVE ExportsOfOneRun
  OBVIOUS
<1>1. ASSUME NEW x \in Exporters, Settled({x}), Exported(x, fs)
      PROVE  /\ OfItsCopies(x, fs)
             /\ \A p \in Producers : ExporterOf[p] = x =>
                   \/ CopiedOfOne(p, fs)
                   \/ /\ MayFail(p)
                      /\ \/ ~Settled({p})
                         \/ CopyFrom(p, fs)[KeyOf[p]] # fs[KeyOf[p]].stamp
  BY <1>1 DEF ExportInv, ExporterInv, CopiesThere, Settled
<1>2. ASSUME Settled({"phase4_export"}), fs["p4_readme"] # Absent
      PROVE  /\ Phase4OfItsCopies(fs)
             /\ Settled({"train"}) /\ IsLast(fs["p4_source"], "run_manifest")
                => OfOneRun(ToSet(Phase4Sources), fs["p4_source"], "run_manifest")
  <2>1. /\ "phase4_export" \in Exporters /\ Exported("phase4_export", fs)
        /\ "train" \in Producers /\ ExporterOf["train"] = "phase4_export"
        /\ KeyOf["train"] = "run_manifest" /\ CopyFrom("train", fs) = fs["p4_source"]
        /\ SourcesOf["train"] = ToSet(Phase4Sources)
    BY <1>2 DEF Exporters, Exported, ReadmeOf, Producers, ExporterOf, KeyOf, CopyFrom, CopyOf,
                SourcesOf
  <2>2. /\ OfItsCopies("phase4_export", fs)
        /\ CopiedOfOne("train", fs) \/ ~Settled({"train"})
           \/ fs["p4_source"]["run_manifest"] # fs["run_manifest"].stamp
    BY <1>1, <1>2, <2>1
  <2> QED BY <2>1, <2>2 DEF OfItsCopies, CopiedOfOne, IsLast
<1>3. ASSUME Settled({"phase6_export"}), fs["p6_readme"] # Absent
      PROVE  /\ Phase6OfItsCopies(fs)
             /\ kills = 0 \/ (Settled({"generalization"})
                              /\ IsLast(fs["p6_source"], "generalization_manifest"))
                => OfOneRun(GeneralizationSources, fs["p6_source"], "generalization_manifest")
             /\ kills = 0 \/ (Settled({"ablation"})
                              /\ IsLast(fs["p6_source"], "ablation_manifest"))
                => OfOneRun(AblationSources, fs["p6_source"], "ablation_manifest")
  <2>1. /\ "phase6_export" \in Exporters /\ Exported("phase6_export", fs)
        /\ {"generalization", "ablation"} \subseteq Producers
        /\ \A p \in {"generalization", "ablation"} :
              ExporterOf[p] = "phase6_export" /\ CopyFrom(p, fs) = fs["p6_source"]
        /\ KeyOf["generalization"] = "generalization_manifest"
        /\ KeyOf["ablation"] = "ablation_manifest"
        /\ SourcesOf["generalization"] = GeneralizationSources
        /\ SourcesOf["ablation"] = AblationSources
    BY <1>3 DEF Exporters, Exported, ReadmeOf, Producers, ExporterOf, KeyOf, CopyFrom, CopyOf,
                SourcesOf
  <2>2. /\ OfItsCopies("phase6_export", fs)
        /\ \A p \in {"generalization", "ablation"} :
              \/ CopiedOfOne(p, fs)
              \/ kills # 0 /\ (~Settled({p})
                               \/ fs["p6_source"][KeyOf[p]] # fs[KeyOf[p]].stamp)
    <3>1. \A p \in {"generalization", "ablation"} : p # "train"
      OBVIOUS
    <3> QED BY <1>1, <1>3, <2>1, <3>1 DEF MayFail
  <2>3. Phase6OfItsCopies(fs)
    BY <2>2 DEF OfItsCopies
  <2> QED BY <2>1, <2>2, <2>3 DEF CopiedOfOne, IsLast
<1> QED BY <1>2, <1>3 DEF ExportsOfOneRun

LEMMA ExportInvInit == Init => ExportInv
<1> SUFFICES ASSUME Init PROVE ExportInv
  OBVIOUS
<1>1. ExportsOK(fs, launches) /\ launches \in Nat
  BY FirstFiles DEF FilesOK
<1> QED BY <1>1, ExportInvIdle DEF Init

\* The copies, tables and figures of an export are of the same files, and of
\* one run of each script, as long as it is the last that came to its end; a
\* generalization or an ablation that nobody kills does not fail half way
\* (phase4_export_paper_assets.py:214, phase6_export_paper_assets.py:193).
THEOREM ExportsOfOneRunHolds == Spec => []ExportsOfOneRun
<1>1. Init => FilesInv /\ ExportInv
  BY FilesInit, ExportInvInit
<1>2. FilesInv /\ ExportInv /\ [Next]_pipelineVars => (FilesInv /\ ExportInv)'
  BY FilesStep, ExportInvStep
<1> QED BY <1>1, <1>2, ExportPromise, PTL DEF Spec

=============================================================================
