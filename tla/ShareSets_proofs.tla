-------------------------- MODULE ShareSets_proofs --------------------------
(***************************************************************************)
(* What the operators on shares return, for every sequence of shares: the  *)
(* lemmas that the proofs of both ways to recover rest on.                 *)
(***************************************************************************)
EXTENDS ShareSets, FiniteSetTheorems, TLAPS

-----------------------------------------------------------------------------
(* Every set of numbers has a least one.                                   *)
LEMMA LeastNat ==
  ASSUME NEW T, T \subseteq Nat, T # {}
  PROVE  \E x \in T : \A y \in T : x <= y
<1>1. PICK x \in T : \A y \in T : ~ (<<y, x>> \in OpToRel(<, Nat))
  BY WFMin, NatLessThanWellFounded
<1>2. ASSUME NEW y \in T PROVE x <= y
  <2>1. ~ (y < x)
    BY <1>1 DEF OpToRel
  <2> QED
    BY <2>1
<1> QED
  BY <1>2

LEMMA MinIsLeast ==
  ASSUME NEW T, T \subseteq Nat, T # {}
  PROVE  Min(T) \in T /\ \A y \in T : Min(T) <= y
BY LeastNat DEF Min

(* What holds of no least number holds of none: induction over a set of    *)
(* counterexamples.                                                        *)
LEMMA NoCounterexample ==
  ASSUME NEW T, T \subseteq Nat, 0 \notin T, \A n \in Nat : n + 1 \in T => n \in T
  PROVE  T = {}
<1> SUFFICES ASSUME T # {} PROVE FALSE
  OBVIOUS
<1>1. PICK x \in T : \A y \in T : x <= y
  BY LeastNat
<1>2. x - 1 \in Nat /\ (x - 1) + 1 = x
  BY <1>1
<1> QED
  BY <1>1, <1>2

-----------------------------------------------------------------------------
IsSieve(f, s, S, m) ==
    f = [n \in 0 .. m |->
            IF n = 0 THEN <<>> ELSE IF s[n] \in S THEN Append(f[n - 1], s[n]) ELSE f[n - 1]]

(* Only is well defined: there is a function such as it begins with.       *)
LEMMA SieveExists ==
  ASSUME NEW s, NEW S, NEW m \in Nat
  PROVE  \E f : IsSieve(f, s, S, m)
<1> DEFINE Without == {n \in Nat : ~ \E f : IsSieve(f, s, S, n)}
<1>1. 0 \notin Without
  <2>1. IsSieve([n \in 0 .. 0 |-> <<>>], s, S, 0)
    BY DEF IsSieve
  <2> QED
    BY <2>1
<1>2. ASSUME NEW n \in Nat, n \notin Without PROVE n + 1 \notin Without
  <2>1. PICK f : IsSieve(f, s, S, n)
    BY <1>2
  <2> DEFINE last == IF s[n + 1] \in S THEN Append(f[n], s[n + 1]) ELSE f[n]
             g == [i \in 0 .. n + 1 |-> IF i = n + 1 THEN last ELSE f[i]]
  <2>2. g = [i \in 0 .. n + 1 |->
                IF i = 0 THEN <<>> ELSE IF s[i] \in S THEN Append(g[i - 1], s[i]) ELSE g[i - 1]]
    <3> SUFFICES ASSUME NEW i \in 0 .. n + 1
                 PROVE  g[i] = IF i = 0 THEN <<>>
                               ELSE IF s[i] \in S THEN Append(g[i - 1], s[i]) ELSE g[i - 1]
      OBVIOUS
    <3>1. CASE i = n + 1
      BY <3>1
    <3>2. CASE i # n + 1
      <4>1. i \in 0 .. n /\ (i # 0 => i - 1 \in 0 .. n + 1 /\ i - 1 # n + 1)
        BY <3>2
      <4>2. f[i] = IF i = 0 THEN <<>> ELSE IF s[i] \in S THEN Append(f[i - 1], s[i]) ELSE f[i - 1]
        BY <2>1, <4>1 DEF IsSieve
      <4> QED
        BY <3>2, <4>1, <4>2
    <3> QED
      BY <3>1, <3>2
  <2>3. IsSieve(g, s, S, n + 1)
    BY <2>2 DEF IsSieve
  <2> QED
    BY <2>3
<1> HIDE DEF Without
<1>3. Without \subseteq Nat
  BY DEF Without
<1>4. Without = {}
  BY <1>1, <1>2, <1>3, NoCounterexample
<1> QED
  BY <1>4 DEF Without

LEMMA AppendAdds ==
  ASSUME NEW T, NEW s \in Seq(T), NEW x
  PROVE  ToSet(Append(s, x)) = ToSet(s) \cup {x}
<1>1. /\ DOMAIN s = 1 .. Len(s) /\ Len(s) \in Nat
      /\ DOMAIN Append(s, x) = 1 .. Len(s) + 1
      /\ \A i \in 1 .. Len(s) : Append(s, x)[i] = s[i]
      /\ Append(s, x)[Len(s) + 1] = x
  OBVIOUS
<1> QED
  BY <1>1 DEF ToSet

LEMMA OnlyIsSieve ==
  ASSUME NEW s, NEW S, Len(s) \in Nat
  PROVE  \E f : IsSieve(f, s, S, Len(s)) /\ Only(s, S) = f[Len(s)]
<1> DEFINE f == CHOOSE f : IsSieve(f, s, S, Len(s))
<1>1. IsSieve(f, s, S, Len(s))
  BY SieveExists
<1>2. Only(s, S) = f[Len(s)]
  BY DEF Only, IsSieve
<1> QED
  BY <1>1, <1>2

(* Only keeps the elements that are in S, and nothing else.                *)
LEMMA OnlyKeeps ==
  ASSUME NEW T, NEW s \in Seq(T), NEW S
  PROVE  /\ Only(s, S) \in Seq(T)
         /\ Len(Only(s, S)) <= Len(s)
         /\ ToSet(Only(s, S)) = ToSet(s) \cap S
<1>1. PICK f : IsSieve(f, s, S, Len(s)) /\ Only(s, S) = f[Len(s)]
  BY OnlyIsSieve
<1> DEFINE Kept(n) == /\ f[n] \in Seq(T)
                      /\ Len(f[n]) <= n
                      /\ ToSet(f[n]) = {s[i] : i \in 1 .. n} \cap S
           Off == {n \in 0 .. Len(s) : ~ Kept(n)}
<1>2. f[0] = <<>>
  BY <1>1 DEF IsSieve
<1>3. Kept(0)
  BY <1>2 DEF ToSet
<1>4. ASSUME NEW n \in Nat, n + 1 \in 0 .. Len(s), Kept(n) PROVE Kept(n + 1)
  <2>1. f[n + 1] = IF s[n + 1] \in S THEN Append(f[n], s[n + 1]) ELSE f[n]
    <3>1. ASSUME NEW m \in 0 .. Len(s), m # 0
          PROVE  f[m] = IF s[m] \in S THEN Append(f[m - 1], s[m]) ELSE f[m - 1]
      BY <1>1, <3>1 DEF IsSieve
    <3>2. n + 1 # 0 /\ (n + 1) - 1 = n
      BY <1>4
    <3> HIDE DEF Kept
    <3> QED
      BY <1>4, <3>1, <3>2
  <2>2. {s[i] : i \in 1 .. n + 1} = {s[i] : i \in 1 .. n} \cup {s[n + 1]}
    OBVIOUS
  <2>3. s[n + 1] \in T
    BY <1>4
  <2>4. CASE s[n + 1] \in S
    <3>1. ToSet(Append(f[n], s[n + 1])) = ToSet(f[n]) \cup {s[n + 1]}
      BY <1>4, <2>3, AppendAdds
    <3> QED
      BY <1>4, <2>1, <2>2, <2>3, <2>4, <3>1
  <2>5. CASE s[n + 1] \notin S
    BY <1>4, <2>1, <2>2, <2>5
  <2> QED
    BY <2>4, <2>5
<1> HIDE DEF Kept
<1>5. Off = {}
  <2>1. \A n \in Nat : n + 1 \in Off => n \in Off
    BY <1>4
  <2> HIDE DEF Off
  <2>2. Off \subseteq Nat /\ 0 \notin Off
    BY <1>3 DEF Off
  <2> QED
    BY <2>1, <2>2, NoCounterexample
<1>6. Kept(Len(s))
  BY <1>5
<1> QED
  BY <1>1, <1>6 DEF Kept, ToSet

(* A sequence whose elements are all in S is kept as it is.                *)
LEMMA OnlyAll ==
  ASSUME NEW T, NEW s \in Seq(T), NEW S, ToSet(s) \subseteq S
  PROVE  Only(s, S) = s
<1>1. Len(s) \in Nat /\ DOMAIN s = 1 .. Len(s)
  OBVIOUS
<1>2. PICK f : IsSieve(f, s, S, Len(s)) /\ Only(s, S) = f[Len(s)]
  BY <1>1, OnlyIsSieve
<1> DEFINE Same(n) == /\ f[n] \in Seq(T) /\ Len(f[n]) = n
                      /\ \A i \in 1 .. n : f[n][i] = s[i]
           Off == {n \in 0 .. Len(s) : ~ Same(n)}
<1>3. f[0] = <<>>
  <2>1. 0 \in 0 .. Len(s)
    BY <1>1
  <2> QED
    BY <1>2, <2>1 DEF IsSieve
<1>4. Same(0)
  BY <1>3
<1>5. ASSUME NEW n \in Nat, n + 1 \in 0 .. Len(s), Same(n)
      PROVE  Same(n + 1)
  <2>1. n + 1 \in 1 .. Len(s) /\ n + 1 - 1 = n /\ n + 1 # 0
    BY <1>1, <1>5
  <2>2. s[n + 1] \in T /\ s[n + 1] \in S
    BY <1>1, <2>1 DEF ToSet
  <2>3. f[n + 1] = Append(f[n], s[n + 1])
    <3>1. ASSUME NEW m \in 0 .. Len(s), m # 0
          PROVE  f[m] = IF s[m] \in S THEN Append(f[m - 1], s[m]) ELSE f[m - 1]
      BY <1>2, <3>1 DEF IsSieve
    <3> HIDE DEF Same
    <3>2. f[n + 1] = IF s[n + 1] \in S THEN Append(f[n], s[n + 1]) ELSE f[n]
      BY <1>5, <2>1, <3>1
    <3> QED
      BY <2>2, <3>2
  <2> QED
    BY <1>5, <2>1, <2>2, <2>3
<1>6. Off = {}
  <2>1. 0 \notin Off
    BY <1>4
  <2>2. ASSUME NEW n \in Nat, n + 1 \in Off PROVE n \in Off
    <3>1. n \in 0 .. Len(s)
      BY <1>1, <2>2
    <3> QED
      BY <1>5, <2>2, <3>1
  <2>3. Off \subseteq Nat
    BY <1>1
  <2> HIDE DEF Off
  <2> QED
    BY <2>1, <2>2, <2>3, NoCounterexample
<1>7. Same(Len(s))
  BY <1>1, <1>6
<1> QED
  BY <1>1, <1>2, <1>7

(* Only keeps an order that the elements of a sequence are in.             *)
LEMMA OnlyOrder ==
  ASSUME NEW T, NEW s \in Seq(T), NEW S, NEW R,
         \A i, j \in DOMAIN s : i < j => <<s[i], s[j]>> \in R
  PROVE  \A a, b \in DOMAIN Only(s, S) : a < b => <<Only(s, S)[a], Only(s, S)[b]>> \in R
<1>1. PICK f : IsSieve(f, s, S, Len(s)) /\ Only(s, S) = f[Len(s)]
  BY OnlyIsSieve
<1> DEFINE Kept(n) == /\ f[n] \in Seq(T)
                      /\ \A a \in DOMAIN f[n] : \E i \in 1 .. n : f[n][a] = s[i]
                      /\ \A a, b \in DOMAIN f[n] : a < b => <<f[n][a], f[n][b]>> \in R
           Off == {n \in 0 .. Len(s) : ~ Kept(n)}
<1>2. f[0] = <<>>
  BY <1>1 DEF IsSieve
<1>3. Kept(0)
  BY <1>2
<1>4. ASSUME NEW n \in Nat, n + 1 \in 0 .. Len(s), Kept(n) PROVE Kept(n + 1)
  <2>1. f[n + 1] = IF s[n + 1] \in S THEN Append(f[n], s[n + 1]) ELSE f[n]
    <3>1. ASSUME NEW m \in 0 .. Len(s), m # 0
          PROVE  f[m] = IF s[m] \in S THEN Append(f[m - 1], s[m]) ELSE f[m - 1]
      BY <1>1, <3>1 DEF IsSieve
    <3>2. n + 1 # 0 /\ (n + 1) - 1 = n
      BY <1>4
    <3> HIDE DEF Kept
    <3> QED
      BY <1>4, <3>1, <3>2
  <2>2. s[n + 1] \in T /\ n + 1 \in DOMAIN s
    BY <1>4
  <2>3. CASE s[n + 1] \notin S
    <3>1. f[n + 1] = f[n]
      BY <2>1, <2>3
    <3>2. \A a \in DOMAIN f[n + 1] : \E i \in 1 .. n + 1 : f[n + 1][a] = s[i]
      BY <1>4, <3>1
    <3> QED
      BY <1>4, <3>1, <3>2
  <2>4. CASE s[n + 1] \in S
    <3>1. f[n + 1] = Append(f[n], s[n + 1])
      BY <2>1, <2>4
    <3>2. /\ f[n + 1] \in Seq(T) /\ DOMAIN f[n + 1] = 1 .. Len(f[n]) + 1
          /\ DOMAIN f[n] = 1 .. Len(f[n]) /\ Len(f[n]) \in Nat
          /\ \A a \in DOMAIN f[n] : f[n + 1][a] = f[n][a]
          /\ f[n + 1][Len(f[n]) + 1] = s[n + 1]
      BY <1>4, <2>2, <3>1
    <3>3. ASSUME NEW a \in DOMAIN f[n + 1]
          PROVE  \E i \in 1 .. n + 1 : f[n + 1][a] = s[i]
      <4>1. CASE a \in DOMAIN f[n]
        BY <1>4, <3>2, <4>1
      <4>2. CASE a \notin DOMAIN f[n]
        <5>1. a = Len(f[n]) + 1 /\ n + 1 \in 1 .. n + 1
          BY <1>4, <3>2, <4>2
        <5> QED
          BY <3>2, <5>1
      <4> QED
        BY <4>1, <4>2
    <3>4. ASSUME NEW a \in DOMAIN f[n + 1], NEW b \in DOMAIN f[n + 1], a < b
          PROVE  <<f[n + 1][a], f[n + 1][b]>> \in R
      <4>1. a \in DOMAIN f[n]
        BY <3>2, <3>4
      <4>2. CASE b \in DOMAIN f[n]
        BY <1>4, <3>2, <3>4, <4>1, <4>2
      <4>3. CASE b \notin DOMAIN f[n]
        <5>1. f[n + 1][b] = s[n + 1]
          BY <3>2, <4>3
        <5>2. PICK i \in 1 .. n : f[n][a] = s[i]
          BY <1>4, <4>1
        <5>3. i \in DOMAIN s /\ i < n + 1
          BY <1>4
        <5> QED
          BY <2>2, <3>2, <4>1, <5>1, <5>2, <5>3
      <4> QED
        BY <4>2, <4>3
    <3> QED
      BY <3>2, <3>3, <3>4
  <2> QED
    BY <2>3, <2>4
<1>5. Off = {}
  <2>1. Off \subseteq Nat /\ 0 \notin Off
    BY <1>3
  <2>2. ASSUME NEW n \in Nat, n + 1 \in Off PROVE n \in Off
    <3>1. n \in 0 .. Len(s) /\ n + 1 \in 0 .. Len(s)
      BY <2>2
    <3> HIDE DEF Kept
    <3> QED
      BY <1>4, <2>2, <3>1
  <2> HIDE DEF Off
  <2> QED
    BY <2>1, <2>2, NoCounterexample
<1> QED
  <2>1. Len(s) \in 0 .. Len(s)
    OBVIOUS
  <2> QED
    BY <1>1, <1>5, <2>1

(* A set of numbers with a bound has a greatest one.                       *)
LEMMA MaxIsLargest ==
  ASSUME NEW m \in Nat, NEW S, S \subseteq 1 .. m, S # {}
  PROVE  Max(S) \in S /\ \A y \in S : Max(S) >= y
<1> DEFINE Above == {n \in Nat : \A y \in S : y <= n}
<1>1. m \in Above /\ Above \subseteq Nat
  OBVIOUS
<1>2. PICK n \in Above : \A o \in Above : n <= o
  BY <1>1, LeastNat
<1>3. n \in S
  <2> SUFFICES ASSUME n \notin S PROVE FALSE
    OBVIOUS
  <2>1. PICK y \in S : TRUE
    OBVIOUS
  <2>2. n - 1 \in Above
    BY <1>2, <2>1
  <2> QED
    BY <1>2, <2>2
<1> QED
  BY <1>2, <1>3 DEF Max

(* Ascending lists a bounded set of numbers, each once and in order.       *)
LEMMA AscendingLists ==
  ASSUME NEW m \in Nat, NEW S, S \subseteq 1 .. m
  PROVE  /\ Ascending(S) \in Seq(S)
         /\ ToSet(Ascending(S)) = S
         /\ \A a, b \in DOMAIN Ascending(S) : a < b => Ascending(S)[a] < Ascending(S)[b]
<1>1. CASE S = {}
  BY <1>1 DEF Ascending, ToSet
<1>2. CASE S # {}
  <2> DEFINE s == [n \in 1 .. Max(S) |-> n]
             R == {r \in Nat \X Nat : r[1] < r[2]}
  <2>1. Max(S) \in Nat /\ Max(S) \in S /\ \A y \in S : Max(S) >= y
    <3>1. Max(S) \in S /\ \A y \in S : Max(S) >= y
      BY <1>2, MaxIsLargest
    <3>2. S \subseteq Nat
      OBVIOUS
    <3> QED
      BY <3>1, <3>2
  <2>2. s \in Seq(Nat) /\ DOMAIN s = 1 .. Max(S) /\ ToSet(s) = 1 .. Max(S)
    BY <2>1 DEF ToSet
  <2>3. \A i, j \in DOMAIN s : i < j => <<s[i], s[j]>> \in R
    BY <2>1
  <2>4. Ascending(S) = Only(s, S)
    BY <1>2 DEF Ascending
  <2>5. S \subseteq 1 .. Max(S)
    BY <2>1
  <2>6. Only(s, S) \in Seq(Nat) /\ ToSet(Only(s, S)) = S
    <3> HIDE DEF s
    <3>1. Only(s, S) \in Seq(Nat) /\ ToSet(Only(s, S)) = ToSet(s) \cap S
      BY <2>2, OnlyKeeps
    <3>2. ToSet(s) \cap S = S
      BY <2>2, <2>5
    <3> QED
      BY <3>1, <3>2
  <2>7. Only(s, S) \in Seq(S)
    <3> HIDE DEF s
    <3> QED
      BY <2>6 DEF ToSet
  <2>8. \A a, b \in DOMAIN Only(s, S) : a < b => <<Only(s, S)[a], Only(s, S)[b]>> \in R
    <3> HIDE DEF s, R
    <3> QED
      BY <2>2, <2>3, OnlyOrder
  <2> QED
    BY <2>4, <2>6, <2>7, <2>8
<1> QED
  BY <1>1, <1>2

(* SetToSeq lists the elements of a finite set.                            *)
LEMMA SetToSeqLists ==
  ASSUME NEW S, IsFiniteSet(S)
  PROVE  /\ SetToSeq(S) \in Seq(S)
         /\ ToSet(SetToSeq(S)) = S
<1> DEFINE D == 1 .. Cardinality(S)
<1>1. Cardinality(S) \in Nat /\ ExistsBijection(D, S)
  BY FS_CardinalityType
<1>2. \E f \in [D -> S] : IsInjective(f)
  BY <1>1 DEF ExistsBijection, Bijection, Injection
<1>3. SetToSeq(S) \in [D -> S] /\ IsInjective(SetToSeq(S))
  BY <1>2 DEF SetToSeq
<1>4. IsFiniteSet(D) /\ Cardinality(D) = Cardinality(S)
  BY <1>1, FS_Interval
<1>5. SetToSeq(S) \in Surjection(D, S)
  BY <1>3, <1>4, FS_Injection DEF Injection
<1>6. SetToSeq(S) \in Seq(S) /\ DOMAIN SetToSeq(S) = D
  BY <1>1, <1>3
<1> QED
  BY <1>5, <1>6 DEF Surjection, ToSet

-----------------------------------------------------------------------------
(* The x of a group are few, and those at which texts differ, and the      *)
(* right ones, are among them.                                             *)
LEMMA XsFinite ==
  ASSUME NEW g \in Seq(Shares)
  PROVE  /\ XsOf(g) \subseteq Nat /\ IsFiniteSet(XsOf(g))
         /\ Cardinality(XsOf(g)) \in Nat /\ Cardinality(XsOf(g)) <= Len(g)
         /\ RightXs(g) \subseteq Undisputed(g) /\ Undisputed(g) \subseteq XsOf(g)
         /\ IsFiniteSet(Undisputed(g)) /\ IsFiniteSet(RightXs(g))
<1>1. \A i \in DOMAIN g : g[i].x \in Nat /\ g[i].x \in 0 .. 255
  <2>1. \A sh \in Shares : sh.x \in Xs \/ sh.x = 0
    BY DEF Shares, Good, Faulty
  <2>2. \A x \in Xs : x \in Nat /\ x \in 0 .. 255
    BY XsAssumption
  <2>3. \A i \in DOMAIN g : g[i] \in Shares
    OBVIOUS
  <2> QED
    BY <2>1, <2>2, <2>3
<1>2. XsOf(g) \subseteq 0 .. 255
  BY <1>1 DEF XsOf
<1>3. IsFiniteSet(0 .. 255)
  <2>1. 0 \in Int /\ 255 \in Int
    OBVIOUS
  <2> QED
    BY <2>1, FS_Interval
<1>4. IsFiniteSet(XsOf(g))
  BY <1>2, <1>3, FS_Subset
<1> DEFINE f == [i \in 1 .. Len(g) |-> g[i].x]
<1>5. f \in Surjection(1 .. Len(g), XsOf(g)) /\ Len(g) \in Nat
  BY DEF Surjection, XsOf
<1>6. Cardinality(XsOf(g)) <= Len(g)
  BY <1>5, FS_SurjCardinalityBound DEF ExistsSurjection
<1>7. RightXs(g) \subseteq Undisputed(g) /\ Undisputed(g) \subseteq XsOf(g)
  BY DEF RightXs, Undisputed
<1>8. RightXs(g) \subseteq XsOf(g)
  BY <1>7
<1>9. IsFiniteSet(Undisputed(g)) /\ IsFiniteSet(RightXs(g))
  BY <1>4, <1>7, <1>8, FS_Subset
<1>10. XsOf(g) \subseteq Nat
  <2>1. \A i \in DOMAIN g : g[i].x \in Nat
    BY <1>1
  <2> QED
    BY <2>1 DEF XsOf
<1> QED
  BY <1>4, <1>6, <1>7, <1>9, <1>10, FS_CardinalityType

(* A finite group gives finitely many texts at an x.                       *)
LEMMA TextsFinite ==
  ASSUME NEW g \in Seq(Shares), NEW x
  PROVE  IsFiniteSet(TextsAt(g, x))
<1> DEFINE D == {n \in DOMAIN g : g[n].x = x}
           T == TextsAt(g, x)
<1>1. T = {g[n].text : n \in D}
  BY DEF TextsAt
<1>2. 1 \in Int /\ Len(g) \in Int /\ DOMAIN g = 1 .. Len(g)
  OBVIOUS
<1>3. IsFiniteSet(DOMAIN g)
  BY <1>2, FS_Interval
<1>4. IsFiniteSet(D)
  BY <1>3, FS_Subset
<1> HIDE DEF T, D
<1>5. [n \in D |-> g[n].text] \in Surjection(D, T)
  BY <1>1 DEF Surjection
<1>6. IsFiniteSet(T)
  BY <1>4, <1>5, FS_Surjection
<1> QED
  BY <1>6 DEF T

(* An x is disputed when two shares of it differ.                          *)
LEMMA DisputedDiffer ==
  ASSUME NEW g \in Seq(Shares), NEW x
  PROVE  x \in Disputed(g) <=>
             \E i, j \in DOMAIN g : g[i].x = x /\ g[j].x = x /\ g[i].text # g[j].text
<1> DEFINE D == {n \in DOMAIN g : g[n].x = x}
           T == TextsAt(g, x)
<1>1. T = {g[n].text : n \in D}
  BY DEF TextsAt
<1>2. IsFiniteSet(T)
  BY TextsFinite
<1>3. ASSUME x \in Disputed(g)
      PROVE  \E i, j \in DOMAIN g : g[i].x = x /\ g[j].x = x /\ g[i].text # g[j].text
  <2>1. x \in XsOf(g) /\ Cardinality(T) > 1
    BY <1>3 DEF Disputed
  <2>2. PICK i \in DOMAIN g : g[i].x = x
    BY <2>1 DEF XsOf
  <2>3. T # {g[i].text}
    <3> SUFFICES ASSUME T = {g[i].text} PROVE FALSE
      OBVIOUS
    <3>1. Cardinality(T) = 1
      BY FS_Singleton, Zenon
    <3> QED
      BY <2>1, <3>1
  <2> QED
    BY <1>1, <2>2, <2>3
<1>4. ASSUME NEW i \in DOMAIN g, NEW j \in DOMAIN g,
             g[i].x = x, g[j].x = x, g[i].text # g[j].text
      PROVE  x \in Disputed(g)
  <2> DEFINE a == g[i].text
             b == g[j].text
  <2>1. a \in T /\ b \in T /\ a # b
    BY <1>1, <1>4
  <2> HIDE DEF a, b, T
  <2>2. IsFiniteSet({a}) /\ Cardinality({a}) = 1
    BY FS_Singleton
  <2>3. Cardinality({a} \cup {b}) = 2
    <3>1. b \notin {a}
      BY <2>1
    <3>2. Cardinality({a} \cup {b}) = Cardinality({a}) + 1
      BY <2>2, <3>1, FS_AddElement
    <3>3. 1 + 1 = 2
      OBVIOUS
    <3> QED
      BY <2>2, <3>2, <3>3, Zenon
  <2>4. Cardinality({a} \cup {b}) <= Cardinality(T)
    BY <1>2, <2>1, FS_Subset
  <2>5. Cardinality(T) \in Nat
    BY <1>2, FS_CardinalityType
  <2>6. Cardinality(T) > 1
    <3>1. \A n \in Nat : 2 <= n => n > 1
      OBVIOUS
    <3> QED
      BY <2>3, <2>4, <2>5, <3>1, Zenon
  <2> QED
    BY <1>4, <2>6 DEF Disputed, XsOf, T
<1> QED
  BY <1>3, <1>4

(* The first picks of the search hold K shares when there are K to pick.   *)
LEMMA FirstXsFill ==
  ASSUME NEW g \in Seq(Shares), Cardinality(Undisputed(g)) >= K
  PROVE  Cardinality(FirstXs(g)) >= K
<1> DEFINE U == Undisputed(g)
           Below(x) == {y \in U : y < x}
           Late == U \ FirstXs(g)
<1>1. U \subseteq Nat /\ IsFiniteSet(U)
  <2>1. U \subseteq XsOf(g) /\ IsFiniteSet(U)
    BY XsFinite
  <2>2. XsOf(g) \subseteq Nat
    BY XsFinite
  <2> HIDE DEF U
  <2> QED
    BY <2>1, <2>2
<1>2. FirstXs(g) = {x \in U : Cardinality(Below(x)) < K}
  BY DEF FirstXs
<1>3. IsFiniteSet(FirstXs(g)) /\ Cardinality(FirstXs(g)) \in Nat
  BY <1>1, <1>2, FS_Subset, FS_CardinalityType
<1>4. CASE Late = {}
  <2>1. FirstXs(g) = U
    BY <1>2, <1>4
  <2> QED
    BY <2>1
<1>5. CASE Late # {}
  <2>1. PICK m \in Late : \A y \in Late : m <= y
    BY <1>1, <1>5, LeastNat
  <2>2. m \in Nat /\ IsFiniteSet(Below(m)) /\ Cardinality(Below(m)) \in Nat
    BY <1>1, FS_Subset, FS_CardinalityType
  <2>3. Cardinality(Below(m)) >= K
    BY <1>2, <2>2, KAssumption
  <2>4. Below(m) \subseteq FirstXs(g)
    BY <1>1, <2>1, <2>2
  <2>5. Cardinality(Below(m)) <= Cardinality(FirstXs(g))
    BY <1>3, <2>4, FS_Subset
  <2> QED
    BY <1>3, <2>2, <2>3, <2>5, KAssumption
<1> QED
  BY <1>4, <1>5

(* Combine gives a payload only where K of the x are right.                *)
THEOREM SolvesFromRight ==
  ASSUME NEW g \in Seq(Shares), "ok" \in Solves(g)
  PROVE  Cardinality(RightXs(g)) >= K
<1>1. /\ IsFiniteSet(Undisputed(g)) /\ Cardinality(Undisputed(g)) \in Nat
      /\ IsFiniteSet(RightXs(g)) /\ Cardinality(RightXs(g)) \in Nat
  BY XsFinite, FS_CardinalityType
<1>2. Cardinality(Undisputed(g)) >= K
  <2>1. Cardinality(Undisputed(g)) < K => Solves(g) = {"too few"}
    BY DEF Solves
  <2>2. "ok" \notin {"too few"}
    OBVIOUS
  <2>3. ~ (Cardinality(Undisputed(g)) < K)
    BY <2>1, <2>2
  <2> QED
    BY <1>1, <2>3, KAssumption
<1>3. CASE FirstXs(g) \subseteq RightXs(g)
  <2>1. Cardinality(FirstXs(g)) <= Cardinality(RightXs(g)) /\ Cardinality(FirstXs(g)) \in Nat
    BY <1>1, <1>3, FS_Subset, FS_CardinalityType
  <2> QED
    BY <1>1, <1>2, <2>1, FirstXsFill, KAssumption
<1>4. CASE ~ (FirstXs(g) \subseteq RightXs(g))
  BY <1>1, <1>2, <1>4, KAssumption DEF Solves
<1> QED
  BY <1>3, <1>4

(* K shares or fewer that give a payload are all right: that is why no     *)
(* caller asks Audit about so few.                                         *)
THEOREM FewAreAllRight ==
  ASSUME NEW g \in Seq(Shares), Cardinality(RightXs(g)) >= K, Len(g) <= K
  PROVE  Audit(g) = {}
<1>1. /\ IsFiniteSet(XsOf(g)) /\ RightXs(g) \subseteq XsOf(g)
      /\ Cardinality(XsOf(g)) \in Nat /\ Cardinality(XsOf(g)) <= Len(g)
  BY XsFinite
<1>2. Cardinality(RightXs(g)) \in Nat /\ Cardinality(RightXs(g)) <= Cardinality(XsOf(g))
  BY <1>1, FS_Subset, FS_CardinalityType
<1>3. Cardinality(RightXs(g)) = Cardinality(XsOf(g))
  BY <1>1, <1>2, KAssumption
<1>4. RightXs(g) = XsOf(g)
  BY <1>1, <1>3, FS_Subset
<1> QED
  BY <1>4 DEF Audit, RightXs
=============================================================================
