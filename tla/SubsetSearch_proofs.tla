------------------------- MODULE SubsetSearch_proofs -------------------------
(***************************************************************************)
(* The search of shaqr.go's solve, for every K, M, cap and bound on work:  *)
(* what its answer is, which subsets it cannot miss, and that it keeps the *)
(* contract of SearchContract.                                             *)
(***************************************************************************)
EXTENDS SubsetSearch, WellFoundedInduction, TLAPS

(* Every set of natural numbers that is not empty has a least one. *)
LEMMA LeastNatural ==
    ASSUME NEW T, T \subseteq Nat, T # {}
    PROVE  \E x \in T : \A y \in T : x <= y
<1>1. PICK x \in T : \A y \in T : ~(<<y, x>> \in OpToRel(<, Nat))
  BY WFMin, NatLessThanWellFounded
<1>2. ASSUME NEW y \in T PROVE x <= y
  <2>1. ~(y < x)
    BY <1>1 DEF OpToRel
  <2> QED BY <2>1
<1> QED BY <1>2

(* Two picks are equal or one comes before the other. *)
LEMMA LexTotal ==
    ASSUME NEW f \in Picks, NEW g \in Picks
    PROVE  f = g \/ LexLess(f, g) \/ LexLess(g, f)
<1> DEFINE D == {i \in 1 .. K : f[i] # g[i]}
<1>1. CASE D = {}
  <2>1. \A i \in 1 .. K : f[i] = g[i]
    BY <1>1
  <2>2. f = [i \in 1 .. K |-> f[i]] /\ g = [i \in 1 .. K |-> g[i]]
    BY DEF Picks
  <2> QED BY <2>1, <2>2
<1>2. CASE D # {}
  <2>1. D \in SUBSET Nat
    BY KMAssumption
  <2>2. PICK d \in D : \A e \in D : d <= e
    BY <1>2, <2>1, LeastNatural
  <2>3. \A j \in 1 .. d - 1 : f[j] = g[j]
    BY <2>1, <2>2, KMAssumption
  <2>4. f[d] < g[d] \/ g[d] < f[d]
    BY <2>2, KMAssumption DEF Picks, Pos
  <2>5. CASE f[d] < g[d]
    BY <2>3, <2>5 DEF LexLess
  <2>6. CASE g[d] < f[d]
    BY <2>3, <2>6 DEF LexLess
  <2> QED BY <2>4, <2>5, <2>6
<1> QED BY <1>1, <1>2

(* Room on either side of an index of a K-subset. *)
LEMMA SortedBound ==
    ASSUME NEW f \in Sorted, NEW i \in 1 .. K
    PROVE  f[i] \in Nat /\ i - 1 <= f[i] /\ f[i] <= M - K + (i - 1)
<1>1. f \in Picks /\ IsSorted(f)
  BY DEF Sorted
<1>2. /\ f[i] \in Int /\ f[1] \in Int /\ f[K] \in Int
      /\ 0 <= f[1] /\ f[K] <= M - 1
      /\ 0 <= f[i] /\ f[i] <= M - 1
  BY <1>1, KMAssumption DEF Picks, Pos
<1>3. i = 1 \/ f[i] - f[1] >= i - 1
  BY <1>1, KMAssumption DEF IsSorted
<1>4. i = K \/ f[K] - f[i] >= K - i
  BY <1>1, KMAssumption DEF IsSorted
<1> QED BY <1>2, <1>3, <1>4, KMAssumption

(* Where next stops looking, from the end of the slice. *)
LEMMA PivotIsLargest ==
    ASSUME NEW f \in Picks, ~IsLast(f)
    PROVE  /\ Pivot(f) \in 1 .. K
           /\ CanGrow(f, Pivot(f))
           /\ \A j \in Pivot(f) + 1 .. K : ~CanGrow(f, j)
<1> DEFINE D == {n \in 0 .. K : K - n \in 1 .. K /\ CanGrow(f, K - n)}
<1>1. PICK c \in 1 .. K : CanGrow(f, c)
  BY DEF IsLast
<1>2. K - c \in D
  BY <1>1, KMAssumption
<1>3. PICK d \in D : \A e \in D : d <= e
  <2>1. D \in SUBSET Nat
    BY KMAssumption
  <2> QED BY <1>2, <2>1, LeastNatural
<1>4. ASSUME NEW j \in K - d + 1 .. K PROVE ~CanGrow(f, j)
  <2>1. CASE CanGrow(f, j)
    <3>1. K - j \in D
      BY <1>3, <2>1, KMAssumption
    <3> QED BY <1>3, <3>1, KMAssumption
  <2> QED BY <2>1
<1>5. \E i \in 1 .. K : CanGrow(f, i) /\ \A j \in i + 1 .. K : ~CanGrow(f, j)
  BY <1>3, <1>4
<1> QED BY <1>5 DEF Pivot

(* next's result is a K-subset, comes after its argument, and no K-subset  *)
(* lies between the two.                                                   *)
LEMMA AfterIsNext ==
    ASSUME NEW f \in Sorted, ~IsLast(f)
    PROVE  /\ After(f) \in Sorted
           /\ LexLess(f, After(f))
           /\ \A g \in Sorted : LexLess(g, After(f)) => g = f \/ LexLess(g, f)
<1> DEFINE p == Pivot(f)
           h == After(f)
<1>1. /\ f \in Picks
      /\ \A i, j \in 1 .. K : i < j => f[j] - f[i] >= j - i
      /\ \A i \in 1 .. K : f[i] \in Nat /\ i - 1 <= f[i] /\ f[i] <= M - K + (i - 1)
  BY SortedBound DEF Sorted, IsSorted
<1>2. /\ p \in 1 .. K
      /\ f[p] < M - K + (p - 1)
      /\ \A j \in p + 1 .. K : ~(f[j] < M - K + (j - 1))
  BY <1>1, PivotIsLargest DEF CanGrow
<1>3. /\ \A j \in 1 .. K : j < p => h[j] = f[j]
      /\ \A j \in 1 .. K : ~(j < p) => h[j] = f[p] + 1 + (j - p)
  BY DEF After
<1>4. h = [j \in 1 .. K |-> h[j]]
  BY DEF After
<1> HIDE DEF p, h
<1>5. h \in Sorted
  <2>1. ASSUME NEW j \in 1 .. K PROVE h[j] \in Pos
    BY <1>1, <1>2, <1>3, KMAssumption DEF Pos
  <2>2. h \in Picks
    BY <1>4, <2>1 DEF Picks
  <2>3. ASSUME NEW i \in 1 .. K, NEW j \in 1 .. K, i < j
        PROVE  h[j] - h[i] >= j - i
    <3>1. CASE j < p
      BY <3>1, <1>1, <1>2, <1>3, <2>3, KMAssumption
    <3>2. CASE ~(j < p) /\ i < p
      <4>1. f[p] - f[i] >= p - i /\ h[i] = f[i] /\ h[j] = f[p] + 1 + (j - p)
        BY <3>2, <1>1, <1>2, <1>3
      <4> QED BY <4>1, <1>1, <1>2, KMAssumption
    <3>3. CASE ~(i < p)
      <4>1. h[i] = f[p] + 1 + (i - p) /\ h[j] = f[p] + 1 + (j - p)
        BY <3>3, <2>3, <1>2, <1>3, KMAssumption
      <4> QED BY <4>1, <1>1, <1>2, KMAssumption
    <3> QED BY <3>1, <3>2, <3>3
  <2> QED BY <2>2, <2>3 DEF Sorted, IsSorted
<1>6. LexLess(f, h)
  <2>1. f[p] < h[p]
    BY <1>1, <1>2, <1>3, KMAssumption
  <2>2. \A j \in 1 .. p - 1 : f[j] = h[j]
    BY <1>2, <1>3, KMAssumption
  <2> QED BY <1>2, <2>1, <2>2 DEF LexLess
<1>7. ASSUME NEW g \in Sorted, LexLess(g, h) PROVE g = f \/ LexLess(g, f)
  <2>1. /\ g \in Picks
        /\ \A i, j \in 1 .. K : i < j => g[j] - g[i] >= j - i
        /\ \A i \in 1 .. K : g[i] \in Nat /\ g[i] <= M - K + (i - 1)
    BY SortedBound DEF Sorted, IsSorted
  <2>2. PICK d \in 1 .. K : g[d] < h[d] /\ \A j \in 1 .. d - 1 : g[j] = h[j]
    BY <1>7 DEF LexLess
  <2>3. CASE d < p
    <3>1. g[d] < f[d] /\ \A j \in 1 .. d - 1 : g[j] = f[j]
      BY <1>2, <1>3, <2>2, <2>3, KMAssumption
    <3> QED BY <3>1 DEF LexLess
  <2>4. CASE d > p
    <3>1. g[p] = f[p] + 1 /\ g[d] < f[p] + 1 + (d - p) /\ g[d] - g[p] >= d - p
      BY <1>1, <1>2, <1>3, <2>1, <2>2, <2>4, KMAssumption
    <3> QED BY <3>1, <1>1, <1>2, <2>1, KMAssumption
  <2>5. CASE d = p
    <3>1. \A j \in 1 .. p - 1 : g[j] = f[j]
      BY <1>2, <1>3, <2>2, <2>5, KMAssumption
    <3>2. g[p] <= f[p]
      <4>1. g[p] < f[p] + 1
        BY <1>1, <1>2, <1>3, <2>2, <2>5, KMAssumption
      <4> QED BY <4>1, <1>1, <1>2, <2>1
    <3>3. CASE g[p] < f[p]
      BY <1>2, <3>1, <3>3 DEF LexLess
    <3>4. CASE g[p] = f[p]
      <4>1. ~LexLess(f, g)
        <5>1. SUFFICES ASSUME NEW e \in 1 .. K, f[e] < g[e]
                       PROVE  FALSE
          BY DEF LexLess
        <5>2. e \in p + 1 .. K
          BY <1>1, <1>2, <2>1, <3>1, <3>4, <5>1, KMAssumption
        <5> QED BY <1>1, <1>2, <2>1, <5>1, <5>2, KMAssumption
      <4> QED BY <1>1, <2>1, <4>1, LexTotal
    <3> QED BY <1>1, <1>2, <2>1, <3>2, <3>3, <3>4
  <2> QED BY <1>2, <2>3, <2>4, <2>5, KMAssumption
<1> QED BY <1>5, <1>6, <1>7 DEF h

(* When next finds nothing that can grow, every K-subset has gone by. *)
LEMMA LastIsGreatest ==
    ASSUME NEW f \in Sorted, IsLast(f), NEW g \in Sorted
    PROVE  g = f \/ LexLess(g, f)
<1>1. f \in Picks /\ g \in Picks
  BY DEF Sorted
<1>2. ~LexLess(f, g)
  <2>1. SUFFICES ASSUME NEW e \in 1 .. K, f[e] < g[e]
                 PROVE  FALSE
    BY DEF LexLess
  <2>2. ~(f[e] < M - K + (e - 1))
    BY DEF IsLast, CanGrow
  <2>3. f[e] \in Nat /\ g[e] \in Nat /\ g[e] <= M - K + (e - 1)
    BY SortedBound
  <2> QED BY <2>1, <2>2, <2>3, KMAssumption
<1> QED BY <1>1, <1>2, LexTotal

(* A run is K different positions, even when it wraps around. *)
LEMMA RunIsPick ==
    ASSUME NEW s \in Pos
    PROVE  Run(s) \in Picks /\ Distinct(Run(s))
<1>1. \A i \in 1 .. K : Wrap(s + i - 1) \in Pos
  BY KMAssumption DEF Wrap, Pos
<1>2. \A i, j \in 1 .. K : i # j => Wrap(s + i - 1) # Wrap(s + j - 1)
  BY KMAssumption DEF Wrap, Pos
<1> QED BY <1>1, <1>2 DEF Run, Picks, Distinct

LEMMA RunsArePositions == Runs \in Nat /\ Runs >= 1 /\ 0 .. Runs - 1 \subseteq Pos
  BY KMAssumption DEF Runs, Pos

(* Wrong shares next to each other leave a run without any of them: the    *)
(* one that begins after the last of them.                                 *)
LEMMA AdjacentLeavesRun ==
    ASSUME NEW w \in SUBSET Pos, Adjacent(w)
    PROVE  \E s \in 0 .. Runs - 1 : Clean(Run(s), w)
<1>1. PICK l \in Pos : w \subseteq Arc(l, M - K)
  BY DEF Adjacent
<1> DEFINE s == IF M = K THEN 0 ELSE Wrap(l + (M - K))
<1>2. s \in 0 .. Runs - 1
  BY KMAssumption DEF Runs, Wrap, Pos
<1>3. ASSUME NEW i \in 1 .. K PROVE Run(s)[i] \notin w
  <2>1. Run(s)[i] = Wrap(s + i - 1)
    BY DEF Run
  <2>2. \A j \in 0 .. (M - K) - 1 : Wrap(s + i - 1) # Wrap(l + j)
    BY KMAssumption DEF Wrap, Pos
  <2> QED BY <1>1, <2>1, <2>2 DEF Arc
<1> QED BY <1>2, <1>3 DEF Clean

(* The slice the lexicographic part starts from is the first run and the   *)
(* first K-subset.                                                         *)
LEMMA FirstIsLeast ==
    /\ First \in Sorted
    /\ First = Run(0)
    /\ \A g \in Sorted : ~LexLess(g, First)
<1>1. First \in Picks
  BY KMAssumption DEF First, Picks, Pos
<1>2. IsSorted(First)
  BY KMAssumption DEF First, IsSorted
<1>3. First = Run(0)
  <2>1. \A i \in 1 .. K : Wrap(0 + i - 1) = i - 1
    BY KMAssumption DEF Wrap
  <2> QED BY <2>1 DEF First, Run
<1>4. ASSUME NEW g \in Sorted PROVE ~LexLess(g, First)
  <2>1. \A i \in 1 .. K : ~(g[i] < First[i])
    BY SortedBound, KMAssumption DEF First
  <2> QED BY <2>1 DEF LexLess
<1> QED BY <1>1, <1>2, <1>3, <1>4 DEF Sorted

-----------------------------------------------------------------------------

(* A K-subset is K different shares. *)
LEMMA SortedIsDistinct == ASSUME NEW f \in Sorted PROVE Distinct(f)
<1>1. ASSUME NEW i \in 1 .. K, NEW j \in 1 .. K, i # j PROVE f[i] # f[j]
  <2>1. i < j \/ j < i
    BY <1>1, KMAssumption
  <2>2. /\ i < j => f[j] - f[i] >= j - i
        /\ j < i => f[i] - f[j] >= i - j
        /\ f[i] \in Nat /\ f[j] \in Nat
    BY SortedBound DEF Sorted, IsSorted
  <2> QED BY <2>1, <2>2, KMAssumption
<1> QED BY <1>1 DEF Distinct

(* The search is still going on or has said that no K shares match. *)
Unfound == phase \in {"runs", "subsets", "none"}

(* What the runs tried so far rule out. *)
RunsRuledOut ==
    /\ Unfound => \A s \in 0 .. start - 1 : ~Clean(Run(s), wrong)
    /\ phase \in {"subsets", "none"} => start = Runs

(* What the lexicographic part rules out: every K-subset up to idx. *)
SubsetsRuledOut ==
    phase \in {"subsets", "none"} =>
        /\ idx \in Sorted
        /\ ~Clean(idx, wrong)
        /\ \A g \in Sorted : LexLess(g, idx) => ~Clean(g, wrong)

EndsWhenOut == phase = "none" => tries >= MaxSubsets \/ IsLast(idx)

Counted == /\ Unfound => tried = start + tries
           /\ phase = "runs" => tries = 0
           /\ phase = "runs" /\ start = 0 => work = 0
           /\ phase = "stopped" => tried > 0

IInv == /\ TypeOK
        /\ SoundSolution
        /\ RunsRuledOut
        /\ SubsetsRuledOut
        /\ EndsWhenOut
        /\ Counted
        /\ FirstSufficesAlways

LEMMA InitIInv == Init => IInv
  BY KMAssumption, CapAssumption, RunsArePositions
     DEF Init, IInv, TypeOK, SoundSolution, RunsRuledOut, SubsetsRuledOut,
         EndsWhenOut, Counted, Unfound, Picks, Pos, Active, Returned,
         FirstSufficesAlways

LEMMA TryRunIInv == IInv /\ TryRun => IInv'
<1> SUFFICES ASSUME IInv, TryRun
             PROVE  IInv'
  OBVIOUS
<1> DEFINE f == Run(start)
<1>1. /\ TypeOK /\ RunsRuledOut /\ Counted
      /\ phase = "runs" /\ start < Runs /\ start' = start + 1
      /\ UNCHANGED <<wrong, tries>>
      /\ idx' = f
  BY DEF IInv, TryRun, Body
<1>2. start \in Pos /\ start + 1 \in 0 .. Runs
  BY <1>1, RunsArePositions DEF TypeOK
<1>3. f \in Picks /\ Distinct(f)
  BY <1>2, RunIsPick
<1>4. start = 0 \/ ~Clean(First, wrong)
  <2>1. Unfound
    BY <1>1 DEF Unfound
  <2>2. start # 0 => 0 \in 0 .. start - 1
    BY <1>2, <1>1, RunsArePositions DEF TypeOK
  <2> QED BY <1>1, <2>1, <2>2, FirstIsLeast DEF RunsRuledOut
<1>5. tried = start
  BY <1>1, <1>2, RunsArePositions DEF Counted, Unfound, TypeOK
<1> HIDE DEF f
<1>6. CASE work >= MaxWork /\ phase' = "stopped" /\ UNCHANGED <<sol, tried, work>>
  <2>1. start # 0
    BY <1>1, <1>6, WorkAssumption DEF Counted
  <2>2. TypeOK'
    BY <1>1, <1>2, <1>3, <1>6 DEF TypeOK, Active, Returned
  <2>3. Counted'
    BY <1>1, <1>5, <1>6, <2>1 DEF Counted, Unfound, TypeOK
  <2>4. FirstSufficesAlways'
    BY <1>1, <1>4, <1>6, <2>1 DEF FirstSufficesAlways
  <2> QED BY <1>6, <2>2, <2>3, <2>4
          DEF IInv, SoundSolution, RunsRuledOut, SubsetsRuledOut, EndsWhenOut, Unfound
<1>7. CASE /\ Clean(f, wrong) /\ phase' = "found" /\ sol' = f
           /\ tried' = tried + 1 /\ UNCHANGED work
  <2>1. TypeOK'
    BY <1>1, <1>2, <1>3, <1>7 DEF TypeOK, Active, Returned
  <2>2. SoundSolution'
    BY <1>1, <1>3, <1>7 DEF SoundSolution
  <2>3. FirstSufficesAlways'
    BY <1>1, <1>4, <1>5, <1>7, FirstIsLeast DEF FirstSufficesAlways, f
  <2> QED BY <1>7, <2>1, <2>2, <2>3
          DEF IInv, RunsRuledOut, SubsetsRuledOut, EndsWhenOut, Counted, Unfound
<1>8. CASE /\ ~Clean(f, wrong) /\ sol' = f /\ tried' = tried + 1
           /\ \E w \in Costs : work' = work + w
           /\ UNCHANGED phase
  <2>1. TypeOK'
    BY <1>1, <1>2, <1>3, <1>8, WorkAssumption DEF TypeOK
  <2>2. RunsRuledOut'
    <3>1. ASSUME NEW s \in 0 .. start PROVE ~Clean(Run(s), wrong)
      <4>1. s = start \/ s \in 0 .. start - 1
        BY <1>2 DEF Pos
      <4> QED BY <1>1, <1>8, <4>1 DEF RunsRuledOut, Unfound, f
    <3>2. start' - 1 = start
      BY <1>1, <1>2 DEF Pos
    <3>3. \A s \in 0 .. start' - 1 : ~Clean(Run(s), wrong')
      BY <1>1, <3>1, <3>2
    <3>4. phase' = "runs"
      BY <1>1, <1>8
    <3> QED BY <3>3, <3>4 DEF RunsRuledOut
  <2>3. Counted'
    BY <1>1, <1>2, <1>5, <1>8 DEF Counted, Unfound, TypeOK, Pos
  <2> QED BY <1>1, <1>8, <2>1, <2>2, <2>3
          DEF IInv, SoundSolution, SubsetsRuledOut, EndsWhenOut, FirstSufficesAlways, Returned
<1> QED BY <1>6, <1>7, <1>8 DEF TryRun, Body, f

LEMMA BeginSubsetsIInv == IInv /\ BeginSubsets => IInv'
<1> SUFFICES ASSUME IInv, BeginSubsets
             PROVE  IInv'
  OBVIOUS
<1>1. /\ TypeOK /\ RunsRuledOut /\ Counted
      /\ phase = "runs" /\ start = Runs /\ phase' = "subsets" /\ idx' = First
      /\ UNCHANGED <<wrong, start, sol, tries, tried, work>>
  BY DEF IInv, BeginSubsets
<1>2. TypeOK'
  BY <1>1, FirstIsLeast DEF TypeOK, Active, Sorted
<1>3. SubsetsRuledOut'
  <2>1. ~Clean(First, wrong)
    BY <1>1, FirstIsLeast, RunsArePositions DEF RunsRuledOut, Unfound
  <2> QED BY <1>1, <2>1, FirstIsLeast DEF SubsetsRuledOut
<1>4. RunsRuledOut'
  BY <1>1 DEF RunsRuledOut, Unfound
<1>5. Counted'
  BY <1>1 DEF Counted, Unfound
<1> QED BY <1>1, <1>2, <1>3, <1>4, <1>5
        DEF IInv, SoundSolution, EndsWhenOut, FirstSufficesAlways, Returned

LEMMA TrySubsetIInv == IInv /\ TrySubset => IInv'
<1> SUFFICES ASSUME IInv, TrySubset
             PROVE  IInv'
  OBVIOUS
<1> DEFINE f == After(idx)
<1>1. /\ TypeOK /\ RunsRuledOut /\ SubsetsRuledOut /\ Counted
      /\ phase = "subsets" /\ tries < MaxSubsets /\ ~IsLast(idx)
      /\ tries' = tries + 1 /\ UNCHANGED <<wrong, start>>
      /\ idx' = f
  BY DEF IInv, TrySubset, Body
<1>2. idx \in Sorted /\ ~Clean(idx, wrong)
  BY <1>1 DEF SubsetsRuledOut
<1>3. /\ f \in Sorted /\ f \in Picks /\ Distinct(f)
      /\ \A g \in Sorted : LexLess(g, f) => g = idx \/ LexLess(g, idx)
  <2>1. f \in Sorted
    BY <1>1, <1>2, AfterIsNext
  <2> QED BY <1>1, <1>2, <2>1, AfterIsNext, SortedIsDistinct DEF Sorted
<1>4. start \in Nat /\ start >= 1 /\ ~Clean(First, wrong)
  BY <1>1, FirstIsLeast, RunsArePositions DEF RunsRuledOut, Unfound
<1>5. tries \in Nat /\ tries + 1 \in 0 .. MaxSubsets /\ tried = start + tries
  BY <1>1, CapAssumption DEF TypeOK, Counted, Unfound
<1> HIDE DEF f
<1>6. CASE work >= MaxWork /\ phase' = "stopped" /\ UNCHANGED <<sol, tried, work>>
  <2>1. TypeOK'
    BY <1>1, <1>3, <1>5, <1>6 DEF TypeOK, Active, Returned
  <2>2. Counted'
    BY <1>4, <1>5, <1>6 DEF Counted, Unfound
  <2>3. FirstSufficesAlways'
    BY <1>1, <1>4 DEF FirstSufficesAlways
  <2> QED BY <1>6, <2>1, <2>2, <2>3
          DEF IInv, SoundSolution, RunsRuledOut, SubsetsRuledOut, EndsWhenOut, Unfound
<1>7. CASE /\ Clean(f, wrong) /\ phase' = "found" /\ sol' = f
           /\ tried' = tried + 1 /\ UNCHANGED work
  <2>1. TypeOK'
    BY <1>1, <1>3, <1>5, <1>7 DEF TypeOK, Active, Returned
  <2>2. SoundSolution'
    BY <1>1, <1>3, <1>7 DEF SoundSolution
  <2>3. FirstSufficesAlways'
    BY <1>1, <1>4 DEF FirstSufficesAlways
  <2> QED BY <1>7, <2>1, <2>2, <2>3
          DEF IInv, RunsRuledOut, SubsetsRuledOut, EndsWhenOut, Counted, Unfound
<1>8. CASE /\ ~Clean(f, wrong) /\ sol' = f /\ tried' = tried + 1
           /\ \E w \in Costs : work' = work + w
           /\ UNCHANGED phase
  <2>1. TypeOK'
    BY <1>1, <1>3, <1>5, <1>8, WorkAssumption DEF TypeOK
  <2>2. RunsRuledOut'
    BY <1>1, <1>8 DEF RunsRuledOut, Unfound
  <2>3. SubsetsRuledOut'
    <3>1. \A g \in Sorted : LexLess(g, f) => ~Clean(g, wrong)
      BY <1>1, <1>2, <1>3 DEF SubsetsRuledOut
    <3> QED BY <1>1, <1>3, <1>8, <3>1 DEF SubsetsRuledOut
  <2>4. Counted'
    BY <1>1, <1>4, <1>5, <1>8 DEF Counted, Unfound
  <2> QED BY <1>1, <1>8, <2>1, <2>2, <2>3, <2>4
          DEF IInv, SoundSolution, EndsWhenOut, FirstSufficesAlways, Returned
<1> QED BY <1>6, <1>7, <1>8 DEF TrySubset, Body, f

LEMMA ExhaustIInv == IInv /\ Exhaust => IInv'
<1> SUFFICES ASSUME IInv, Exhaust
             PROVE  IInv'
  OBVIOUS
<1>1. /\ TypeOK /\ RunsRuledOut /\ SubsetsRuledOut /\ Counted
      /\ phase = "subsets" /\ phase' = "none"
      /\ tries >= MaxSubsets \/ IsLast(idx)
      /\ UNCHANGED <<wrong, start, idx, sol, tries, tried, work>>
  BY DEF IInv, Exhaust
<1>2. ~Clean(First, wrong)
  BY <1>1, FirstIsLeast, RunsArePositions DEF RunsRuledOut, Unfound
<1>3. TypeOK'
  BY <1>1 DEF TypeOK, Returned
<1>4. RunsRuledOut' /\ SubsetsRuledOut' /\ Counted'
  BY <1>1 DEF RunsRuledOut, SubsetsRuledOut, Counted, Unfound
<1> QED BY <1>1, <1>2, <1>3, <1>4
        DEF IInv, SoundSolution, EndsWhenOut, FirstSufficesAlways

LEMMA NextIInv == IInv /\ [Next]_vars => IInv'
<1> SUFFICES ASSUME IInv, [Next]_vars
             PROVE  IInv'
  OBVIOUS
<1>1. CASE UNCHANGED vars
  BY <1>1 DEF vars, IInv, TypeOK, SoundSolution, RunsRuledOut, SubsetsRuledOut,
              EndsWhenOut, Counted, Unfound, FirstSufficesAlways
<1> QED BY <1>1, TryRunIInv, BeginSubsetsIInv, TrySubsetIInv, ExhaustIInv DEF Next

LEMMA IInvImplies == IInv => AdjacentWrongFound /\ ExhaustiveSearch
<1>1. ASSUME IInv PROVE AdjacentWrongFound
  BY <1>1, AdjacentLeavesRun
     DEF IInv, AdjacentWrongFound, RunsRuledOut, Unfound, TypeOK
<1>2. ASSUME IInv PROVE ExhaustiveSearch
  <2>1. SUFFICES ASSUME phase = "none", tries < MaxSubsets, NEW g \in Sorted
                 PROVE  ~Clean(g, wrong)
    BY DEF ExhaustiveSearch
  <2>2. idx \in Sorted /\ IsLast(idx)
    BY <1>2, <2>1, CapAssumption DEF IInv, EndsWhenOut, SubsetsRuledOut, TypeOK
  <2>3. g = idx \/ LexLess(g, idx)
    BY <2>2, LastIsGreatest
  <2> QED BY <1>2, <2>1, <2>3 DEF IInv, SubsetsRuledOut
<1> QED BY <1>1, <1>2

-----------------------------------------------------------------------------

THEOREM SearchInvariant == Spec => []IInv
<1>1. Init => IInv
  BY InitIInv
<1>2. IInv /\ [Next]_vars => IInv'
  BY NextIInv
<1> QED BY <1>1, <1>2, PTL DEF Spec

(* Every variable keeps its type: no index out of the slice, no counter    *)
(* past its cap.                                                           *)
THEOREM SearchTypeCorrect == Spec => []TypeOK
<1>1. IInv => TypeOK
  BY DEF IInv
<1> QED BY <1>1, SearchInvariant, PTL

(* What solve returns is K different shares that fit, for every K and M.   *)
THEOREM SearchIsSound == Spec => []SoundSolution
<1>1. IInv => SoundSolution
  BY DEF IInv
<1> QED BY <1>1, SearchInvariant, PTL

(* The claim in the comment of candidates, for every K and M: the runs     *)
(* cover wrong shares that sit next to each other.                         *)
THEOREM RunsCoverAdjacent == Spec => []AdjacentWrongFound
<1>1. IInv => AdjacentWrongFound
  BY IInvImplies
<1> QED BY <1>1, SearchInvariant, PTL

(* next leaves no K-subset out. *)
THEOREM SearchIsExhaustive == Spec => []ExhaustiveSearch
<1>1. IInv => ExhaustiveSearch
  BY IInvImplies
<1> QED BY <1>1, SearchInvariant, PTL

(* A set with nothing wrong among its first K shares takes one try. *)
THEOREM FirstTrySuffices == Spec => []FirstSufficesAlways
<1>1. IInv => FirstSufficesAlways
  BY DEF IInv
<1> QED BY <1>1, SearchInvariant, PTL

(* The lexicographic part moves on at every step. *)
THEOREM SearchMovesOn == Spec => LexProgress
<1>1. ASSUME IInv, [Next]_vars
      PROVE  [phase = "subsets" /\ idx' # idx => idx' \in Sorted /\ LexLess(idx, idx')]_vars
  <2>1. SUFFICES ASSUME phase = "subsets", idx' # idx
                 PROVE  idx' \in Sorted /\ LexLess(idx, idx')
    OBVIOUS
  <2>2. ~IsLast(idx) /\ idx' = After(idx)
    BY <1>1, <2>1 DEF Next, TryRun, BeginSubsets, TrySubset, Exhaust, Body, vars
  <2>3. idx \in Sorted
    BY <1>1, <2>1 DEF IInv, SubsetsRuledOut
  <2> QED BY <2>2, <2>3, AfterIsNext
<1> QED BY <1>1, SearchInvariant, PTL DEF Spec, LexProgress

-----------------------------------------------------------------------------

LEMMA ContractInit == Init => Contract!Init
  BY KMAssumption
     DEF Init, Contract!Init, Active, Contract!Pos, Contract!Picks, Pos, Picks

LEMMA SameSubsets ==
    /\ Contract!Picks = Picks
    /\ Contract!Sorted = Sorted
    /\ \A f, w : Contract!Clean(f, w) <=> Clean(f, w)
    /\ \A f : Contract!Distinct(f) <=> Distinct(f)
    /\ Contract!Adjacent(wrong) <=> Adjacent(wrong)
  BY DEF Contract!Picks, Picks, Contract!Pos, Pos, Contract!Sorted, Sorted,
         Contract!IsSorted, IsSorted, Contract!Clean, Clean,
         Contract!Distinct, Distinct, Contract!Adjacent, Adjacent,
         Contract!Arc, Arc, Contract!Wrap, Wrap

(* A pick tried is a step of the contract: a miss, an answer or a stop. *)
LEMMA BodyContract ==
    ASSUME IInv, IInv', phase \in Active, wrong' = wrong, NEW f \in Picks, Body(f)
    PROVE  Contract!Next
<1>1. CASE work >= MaxWork /\ phase' = "stopped" /\ UNCHANGED <<sol, tried, work>>
  <2>1. tried > 0
    BY <1>1 DEF IInv, Counted
  <2> QED BY <1>1, <2>1 DEF Contract!Next, Contract!Stop, Active
<1>2. CASE /\ Clean(f, wrong) /\ phase' = "found" /\ sol' = f
           /\ tried' = tried + 1 /\ UNCHANGED work
  <2>1. Distinct(sol')
    BY <1>2 DEF IInv, SoundSolution
  <2> QED BY <1>2, <2>1, SameSubsets DEF Contract!Next, Contract!Answer, Active
<1>3. CASE /\ ~Clean(f, wrong) /\ sol' = f /\ tried' = tried + 1
           /\ UNCHANGED phase
  BY <1>3, SameSubsets DEF Contract!Next, Contract!Try, Active
<1> QED BY <1>1, <1>2, <1>3 DEF Body

(* Every step of the search is a step of the contract or changes nothing a *)
(* caller sees.                                                            *)
LEMMA ContractStep ==
    /\ IInv /\ IInv'
    /\ AdjacentWrongFound' /\ ExhaustiveSearch'
    /\ [Next]_vars
    => [Contract!Next]_(Contract!cvars)
<1> SUFFICES ASSUME IInv, IInv', AdjacentWrongFound', ExhaustiveSearch', [Next]_vars
             PROVE  Contract!Next \/ UNCHANGED Contract!cvars
  OBVIOUS
<1>1. CASE TryRun
  <2>1. Run(start) \in Picks
    BY <1>1, RunIsPick, RunsArePositions DEF IInv, TypeOK, TryRun
  <2>2. phase \in Active /\ wrong' = wrong /\ Body(Run(start))
    BY <1>1 DEF TryRun, Active
  <2> QED BY <2>1, <2>2, BodyContract
<1>2. CASE BeginSubsets
  BY <1>2 DEF BeginSubsets, Contract!cvars, Active
<1>3. CASE TrySubset
  <2>1. After(idx) \in Picks
    BY <1>3, AfterIsNext DEF IInv, SubsetsRuledOut, TrySubset, Sorted
  <2>2. phase \in Active /\ wrong' = wrong /\ Body(After(idx))
    BY <1>3 DEF TrySubset, Active
  <2> QED BY <2>1, <2>2, BodyContract
<1>4. CASE Exhaust
  <2>1. /\ phase' = "none" /\ phase = "subsets"
        /\ UNCHANGED <<wrong, sol, tried, tries>>
    BY <1>4 DEF Exhaust
  <2>2. ~Adjacent(wrong)
    BY <2>1 DEF AdjacentWrongFound
  <2>3. tries < MaxSubsets => \A g \in Sorted : ~Clean(g, wrong)
    BY <2>1 DEF ExhaustiveSearch
  <2>4. ~(tries < MaxSubsets) => tried >= MaxSubsets
    BY <2>1, CapAssumption, RunsArePositions DEF IInv, Counted, Unfound, TypeOK
  <2> QED BY <2>1, <2>2, <2>3, <2>4, SameSubsets
          DEF Contract!Next, Contract!GiveUp, Active
<1>5. CASE UNCHANGED vars
  BY <1>5 DEF vars, Contract!cvars
<1> QED BY <1>1, <1>2, <1>3, <1>4, <1>5 DEF Next

(* The search keeps the contract of SearchContract. *)
THEOREM SearchKeepsContract == Spec => ContractKept
<1>1. Init => Contract!Init
  BY ContractInit
<1>2. /\ IInv /\ IInv'
      /\ AdjacentWrongFound' /\ ExhaustiveSearch'
      /\ [Next]_vars
      => [Contract!Next]_(Contract!cvars)
  BY ContractStep
<1> QED BY <1>1, <1>2, SearchInvariant, RunsCoverAdjacent, SearchIsExhaustive, PTL
        DEF Spec, ContractKept, Contract!Spec
=============================================================================
