--------------------------- MODULE Packing_proofs ---------------------------
(***************************************************************************)
(* What a sender packs is unpacked to the same text, and a payload is      *)
(* taken exactly when it is in packed form: for payloads of any length     *)
(* and all paths and keys, where the runs have three items.                *)
(*                                                                         *)
(* Pack and Unpack are two loops.  Both follow the origin that the next    *)
(* key comes behind; that they follow the same one, and that it is the one *)
(* the tokens tell, is the invariant.                                      *)
(***************************************************************************)
EXTENDS Packing, WellFoundedInduction, TLAPS

-----------------------------------------------------------------------------
(* Loops *)

(* Every set of numbers has a least one.                                   *)
LEMMA LeastNat ==
  ASSUME NEW T, T \subseteq Nat, T # {}
  PROVE  \E x \in T : \A y \in T : x <= y
<1>1. PICK x \in T : \A y \in T : ~ (<<y, x>> \in OpToRel(<, Nat))
  BY WFMin, NatLessThanWellFounded
<1>2. ASSUME NEW y \in T PROVE x <= y
  <2>1. ~ (y < x)
    BY <1>1 DEF OpToRel
  <2> QED
    BY <2>1
<1> QED
  BY <1>2

(* What holds of no least number holds of none: induction over a set of    *)
(* counterexamples.                                                        *)
LEMMA NoCounterexample ==
  ASSUME NEW T, T \subseteq Nat, 0 \notin T, \A n \in Nat : n + 1 \in T => n \in T
  PROVE  T = {}
<1> SUFFICES ASSUME T # {} PROVE FALSE
  OBVIOUS
<1>1. PICK x \in T : \A y \in T : x <= y
  BY LeastNat
<1>2. x - 1 \in Nat /\ (x - 1) + 1 = x
  BY <1>1
<1> QED
  BY <1>1, <1>2

(* A loop of n rounds over states in S, of which each is what the step g   *)
(* makes of the one before.                                                *)
Loop(f, S, start, n, g) ==
    /\ f \in [0 .. n -> S]
    /\ f[0] = start
    /\ \A i \in 1 .. n : f[i] = g[<<f[i - 1], i>>]

(* Every loop runs to its end.                                             *)
LEMMA LoopExists ==
  ASSUME NEW S, NEW start \in S, NEW m \in Nat, NEW g \in [S \X (1 .. m) -> S]
  PROVE  \E f : Loop(f, S, start, m, g)
<1> DEFINE Runs(n, f) == /\ f \in [0 .. n -> S]
                         /\ f[0] = start
                         /\ \A i \in 1 .. n : f[i] = g[<<f[i - 1], i>>]
           Without == {n \in Nat : n <= m /\ ~ \E f : Runs(n, f)}
<1>1. 0 \notin Without
  <2>1. Runs(0, [i \in 0 .. 0 |-> start])
    OBVIOUS
  <2> QED
    BY <2>1
<1>2. ASSUME NEW n \in Nat, n \notin Without PROVE n + 1 \notin Without
  <2> SUFFICES ASSUME n + 1 <= m PROVE \E f : Runs(n + 1, f)
    OBVIOUS
  <2>1. PICK f : Runs(n, f)
    BY <1>2
  <2> DEFINE last == g[<<f[n], n + 1>>]
             h == [i \in 0 .. n + 1 |-> IF i = n + 1 THEN last ELSE f[i]]
  <2>2. last \in S
    <3>1. f[n] \in S /\ n + 1 \in 1 .. m
      BY <2>1
    <3> QED
      BY <3>1
  <2>3. h \in [0 .. n + 1 -> S]
    <3> SUFFICES ASSUME NEW i \in 0 .. n + 1 PROVE h[i] \in S
      OBVIOUS
    <3>1. i # n + 1 => i \in 0 .. n
      OBVIOUS
    <3> QED
      BY <2>1, <2>2, <3>1
  <2>4. h[0] = start
    <3>1. 0 \in 0 .. n + 1 /\ 0 # n + 1
      OBVIOUS
    <3> QED
      BY <2>1, <3>1
  <2>5. ASSUME NEW i \in 1 .. n + 1 PROVE h[i] = g[<<h[i - 1], i>>]
    <3>1. i \in 0 .. n + 1 /\ i - 1 \in 0 .. n + 1 /\ i - 1 # n + 1 /\ (i # n + 1 => i \in 1 .. n)
      OBVIOUS
    <3>2. h[i - 1] = f[i - 1]
      BY <3>1
    <3>3. CASE i = n + 1
      <4>1. i - 1 = n
        BY <3>3
      <4> QED
        BY <3>1, <3>2, <3>3, <4>1
    <3>4. CASE i # n + 1
      BY <2>1, <3>1, <3>2, <3>4
    <3> QED
      BY <3>3, <3>4
  <2> HIDE DEF h
  <2> QED
    BY <2>3, <2>4, <2>5
<1>3. Without \subseteq Nat
  OBVIOUS
<1>4. Without = {}
  <2> HIDE DEF Without
  <2> QED
    BY <1>1, <1>2, <1>3, NoCounterexample
<1>5. \E f : Runs(m, f)
  <2>1. m \notin Without
    BY <1>4
  <2> QED
    BY <2>1
<1> QED
  BY <1>5 DEF Loop

(* What holds before the first round and outlives every round holds after  *)
(* the last one: Done are the rounds after which it holds.                 *)
LEMMA Rounds ==
  ASSUME NEW m \in Nat, NEW Done, 0 \in Done, \A i \in 1 .. m : i - 1 \in Done => i \in Done
  PROVE  \A i \in 0 .. m : i \in Done
<1> DEFINE Off == {i \in Nat : i <= m /\ i \notin Done}
<1>1. Off \subseteq Nat /\ 0 \notin Off
  OBVIOUS
<1>2. ASSUME NEW n \in Nat, n + 1 \in Off PROVE n \in Off
  <2>1. n + 1 \in 1 .. m /\ n + 1 \notin Done /\ (n + 1) - 1 = n /\ n <= m
    BY <1>2
  <2> QED
    BY <2>1
<1>3. Off = {}
  <2> HIDE DEF Off
  <2> QED
    BY <1>1, <1>2, NoCounterexample
<1> QED
  BY <1>3

-----------------------------------------------------------------------------
(* Lengths *)

IsSum(f, sizes, n) ==
    /\ f \in [0 .. n -> Nat]
    /\ f[0] = 0
    /\ \A i \in 1 .. n : f[i] = f[i - 1] + sizes[i]

(* Total is the last sum.                                                  *)
LEMMA TotalIsSum ==
  ASSUME NEW n \in Nat, NEW sizes, \A i \in 1 .. n : sizes[i] \in Nat
  PROVE  \E f : IsSum(f, sizes, n) /\ Total(sizes, n) = f[n]
<1> DEFINE g == [p \in Nat \X (1 .. n) |-> p[1] + sizes[p[2]]]
           Sum(f) == f = [i \in 0 .. n |-> IF i = 0 THEN 0 ELSE f[i - 1] + sizes[i]]
           f == CHOOSE f : Sum(f)
<1>1. g \in [Nat \X (1 .. n) -> Nat]
  OBVIOUS
<1>2. PICK h : Loop(h, Nat, 0, n, g)
  <2> HIDE DEF g
  <2> QED
    BY <1>1, LoopExists
<1>3. Sum(h)
  <2>1. h \in [0 .. n -> Nat] /\ h[0] = 0
    BY <1>2 DEF Loop
  <2>2. ASSUME NEW i \in 1 .. n PROVE h[i] = h[i - 1] + sizes[i]
    <3>1. h[i] = g[<<h[i - 1], i>>]
      BY <1>2 DEF Loop
    <3>2. i - 1 \in 0 .. n
      OBVIOUS
    <3>3. <<h[i - 1], i>> \in Nat \X (1 .. n)
      BY <2>1, <3>2
    <3> QED
      BY <3>1, <3>3
  <2> QED
    BY <2>1, <2>2
<1>4. Sum(f)
  <2> HIDE DEF Sum
  <2> QED
    BY <1>3
<1>5. Total(sizes, n) = f[n]
  BY DEF Total
<1> HIDE DEF f, g
<1>6. f[0] = 0 /\ \A i \in 1 .. n : f[i] = f[i - 1] + sizes[i]
  <2>1. 0 \in 0 .. n /\ \A i \in 1 .. n : i \in 0 .. n /\ i # 0
    OBVIOUS
  <2> QED
    BY <1>4, <2>1
<1>7. \A i \in 0 .. n : f[i] \in Nat
  <2> DEFINE Done == {i \in 0 .. n : f[i] \in Nat}
  <2>1. 0 \in Done
    BY <1>6
  <2>2. ASSUME NEW i \in 1 .. n, i - 1 \in Done PROVE i \in Done
    BY <1>6, <2>2
  <2>3. \A i \in 0 .. n : i \in Done
    <3> HIDE DEF Done
    <3> QED
      BY <2>1, <2>2, Rounds
  <2> QED
    BY <2>3
<1>8. f \in [0 .. n -> Nat]
  BY <1>4, <1>7
<1> QED
  BY <1>5, <1>6, <1>8 DEF IsSum

(* The beginning of a sum is no larger than the sum.                       *)
LEMMA TotalGrows ==
  ASSUME NEW n \in Nat, NEW m \in 0 .. n, NEW sizes, NEW first,
         \A i \in 1 .. n : sizes[i] \in Nat,
         \A i \in 1 .. m : first[i] = sizes[i]
  PROVE  /\ Total(sizes, n) \in Nat
         /\ Total(first, m) \in Nat
         /\ Total(first, m) <= Total(sizes, n)
<1>1. PICK f : IsSum(f, sizes, n) /\ Total(sizes, n) = f[n]
  BY TotalIsSum
<1>2. PICK h : IsSum(h, first, m) /\ Total(first, m) = h[m]
  <2>1. m \in Nat /\ \A i \in 1 .. m : first[i] \in Nat
    OBVIOUS
  <2> QED
    BY <2>1, TotalIsSum
<1>3. \A i \in 0 .. m : h[i] = f[i]
  <2> DEFINE Done == {i \in 0 .. m : h[i] = f[i]}
  <2>1. 0 \in Done
    BY <1>1, <1>2 DEF IsSum
  <2>2. ASSUME NEW i \in 1 .. m, i - 1 \in Done PROVE i \in Done
    BY <1>1, <1>2, <2>2 DEF IsSum
  <2>3. \A i \in 0 .. m : i \in Done
    <3> HIDE DEF Done
    <3> QED
      BY <2>1, <2>2, Rounds
  <2> QED
    BY <2>3
<1>4. \A i \in 0 .. n : i < m \/ f[m] <= f[i]
  <2> DEFINE Done == {i \in 0 .. n : i < m \/ f[m] <= f[i]}
  <2>0. f \in [0 .. n -> Nat] /\ \A i \in 1 .. n : f[i] = f[i - 1] + sizes[i]
    BY <1>1 DEF IsSum
  <2>1. 0 \in Done
    BY <2>0
  <2>2. ASSUME NEW i \in 1 .. n, i - 1 \in Done PROVE i \in Done
    <3>1. f[i] = f[i - 1] + sizes[i] /\ f[i] \in Nat /\ f[i - 1] \in Nat /\ sizes[i] \in Nat
      BY <2>0
    <3>2. f[m] \in Nat
      BY <2>0
    <3>3. CASE i < m \/ i = m
      BY <3>2, <3>3
    <3>4. CASE i > m
      <4>1. f[m] <= f[i - 1]
        BY <2>2, <3>4
      <4> QED
        BY <3>1, <3>2, <4>1
    <3> QED
      BY <3>3, <3>4
  <2>3. \A i \in 0 .. n : i \in Done
    <3> HIDE DEF Done
    <3> QED
      BY <2>1, <2>2, Rounds
  <2> QED
    BY <2>3
<1>5. f[n] \in Nat /\ f[m] \in Nat /\ f[m] <= f[n] /\ h[m] = f[m]
  BY <1>1, <1>3, <1>4 DEF IsSum
<1> QED
  BY <1>1, <1>2, <1>5

-----------------------------------------------------------------------------
(* Items and tokens *)

PathShapes == [n : Nat, last : Steps]
Origin(path) == [is |-> "origin", path |-> path]
Char(class) == [is |-> "char", class |-> class]
OtherItem(is) == [is |-> is]

\* The items that a token can say, of which Items are some.
KeyShapes == {Key(k, d, c) : k \in BOOLEAN, d \in 0 .. 255, c \in Steps}
ItemShapes ==
    {Char(c) : c \in Classes} \cup {Origin(p) : p \in PathShapes} \cup KeyShapes
        \cup {OtherItem("hex"), OtherItem("children")}

\* The same of tokens.
ExplicitToken(d, c) == [is |-> "explicit", depth |-> d, child |-> c]
TokenShapes ==
    {Spelled(x) : x \in ItemShapes}
        \cup {OriginToken(p, b) : p \in PathShapes, b \in BOOLEAN}
        \cup {ExplicitToken(d, c) : d \in 0 .. 255, c \in Steps}
        \cup {Generic(k) : k \in KeyShapes}
        \cup {Same, Implied, HexToken, ChildrenToken, Broken}

(* An extended key is what its three fields make it.                       *)
LEMMA KeysHaveShape ==
  ASSUME NEW k \in [is : {"key"}, known : BOOLEAN, depth : 0 .. 255, child : Steps]
  PROVE  /\ k = Key(k.known, k.depth, k.child)
         /\ k.known \in BOOLEAN /\ k.depth \in 0 .. 255 /\ k.child \in Steps
         /\ k \in KeyShapes
<1>1. k = Key(k.known, k.depth, k.child)
  BY DEF Key
<1>2. k.known \in BOOLEAN /\ k.depth \in 0 .. 255 /\ k.child \in Steps
  BY Zenon
<1> QED
  BY <1>1, <1>2 DEF KeyShapes

(* Every item of a text has one of the shapes, whatever the paths and      *)
(* keys.                                                                   *)
LEMMA ItemsHaveShape == Items \subseteq ItemShapes
<1> SUFFICES ASSUME NEW x \in Items PROVE x \in ItemShapes
  OBVIOUS
<1>1. CASE \E c \in Classes : x = [is |-> "char", class |-> c]
  BY <1>1, Zenon DEF ItemShapes, Char
<1>2. CASE \E p \in Paths : x = [is |-> "origin", path |-> p]
  BY <1>2, PathsAssumption, Zenon DEF ItemShapes, Origin, PathShapes
<1>3. CASE x \in ExtendedKeys
  <2>1. x \in [is : {"key"}, known : BOOLEAN, depth : 0 .. 255, child : Steps]
    BY <1>3, KeysAssumption
  <2>2. x \in KeyShapes
    BY <2>1, KeysHaveShape
  <2> QED
    BY <2>2, Zenon DEF ItemShapes
<1>4. CASE x = [is |-> "hex"] \/ x = [is |-> "children"]
  BY <1>4, Zenon DEF ItemShapes, OtherItem
<1> QED
  BY <1>1, <1>2, <1>3, <1>4, Zenon DEF Items

(* Every token of foreign bytes has one of the shapes, whatever the paths  *)
(* and keys.                                                               *)
LEMMA TokensHaveShape == Tokens \subseteq TokenShapes
<1> SUFFICES ASSUME NEW t \in Tokens PROVE t \in TokenShapes
  OBVIOUS
<1>1. CASE \E x \in Items : t = Spelled(x)
  BY <1>1, ItemsHaveShape DEF TokenShapes
<1>2. CASE \E p \in Paths, b \in BOOLEAN : t = OriginToken(p, b)
  BY <1>2, PathsAssumption DEF TokenShapes, PathShapes
<1>3. CASE \E k \in ExtendedKeys : t = Explicit(k) \/ t = Generic(k)
  <2>1. PICK k \in ExtendedKeys : t = Explicit(k) \/ t = Generic(k)
    BY <1>3
  <2>2. k \in [is : {"key"}, known : BOOLEAN, depth : 0 .. 255, child : Steps]
    BY KeysAssumption
  <2>3. k \in KeyShapes /\ k.depth \in 0 .. 255 /\ k.child \in Steps
    BY <2>2, KeysHaveShape
  <2>4. Explicit(k) = ExplicitToken(k.depth, k.child)
    BY Zenon DEF Explicit, ExplicitToken
  <2> QED
    BY <2>1, <2>3, <2>4 DEF TokenShapes
<1>4. CASE t \in {Same, Implied, HexToken, ChildrenToken, Broken}
  BY <1>4 DEF TokenShapes
<1> QED
  BY <1>1, <1>2, <1>3, <1>4 DEF Tokens

(* What kinds of items there are.                                          *)
LEMMA ItemKinds ==
  ASSUME NEW x \in ItemShapes
  PROVE  \/ \E c \in Classes : x = Char(c)
         \/ \E p \in PathShapes : x = Origin(p)
         \/ \E k \in BOOLEAN, d \in 0 .. 255, c \in Steps : x = Key(k, d, c)
         \/ x = OtherItem("hex")
         \/ x = OtherItem("children")
BY DEF ItemShapes, KeyShapes

(* What has one of the shapes is made by the operators for items.          *)
LEMMA ShapedItems ==
  /\ \A c \in Classes : Char(c) \in ItemShapes
  /\ \A p \in PathShapes : Origin(p) \in ItemShapes
  /\ \A k \in BOOLEAN, d \in 0 .. 255, c \in Steps :
        Key(k, d, c) \in KeyShapes /\ Key(k, d, c) \in ItemShapes
  /\ KeyShapes \subseteq ItemShapes
  /\ OtherItem("hex") \in ItemShapes /\ OtherItem("children") \in ItemShapes
<1>1. \A k \in BOOLEAN, d \in 0 .. 255, c \in Steps : Key(k, d, c) \in KeyShapes
  BY DEF KeyShapes
<1>2. \A c \in Classes : Char(c) \in ItemShapes
  BY DEF ItemShapes
<1>3. \A p \in PathShapes : Origin(p) \in ItemShapes
  BY DEF ItemShapes
<1>4. KeyShapes \cup {OtherItem("hex"), OtherItem("children")} \subseteq ItemShapes
  BY DEF ItemShapes
<1> QED
  BY <1>1, <1>2, <1>3, <1>4

(* The fields of an item are those it was made of.                         *)
LEMMA ItemFields ==
  /\ \A c : Char(c).is = "char" /\ Char(c).class = c
  /\ \A p : Origin(p).is = "origin" /\ Origin(p).path = p
  /\ \A k, d, c : /\ Key(k, d, c).is = "key" /\ Key(k, d, c).known = k
                  /\ Key(k, d, c).depth = d /\ Key(k, d, c).child = c
  /\ \A is : OtherItem(is).is = is
BY Zenon DEF Char, Origin, Key, OtherItem

(* What kinds of tokens there are.                                         *)
LEMMA TokenKinds ==
  ASSUME NEW t \in TokenShapes
  PROVE  \/ \E x \in ItemShapes : t = Spelled(x)
         \/ \E p \in PathShapes, b \in BOOLEAN : t = OriginToken(p, b)
         \/ t = Same
         \/ t = Implied
         \/ \E d \in 0 .. 255, c \in Steps : t = ExplicitToken(d, c)
         \/ \E k \in KeyShapes : t = Generic(k)
         \/ t = HexToken
         \/ t = ChildrenToken
         \/ t = Broken
BY DEF TokenShapes

(* What has one of the shapes is made by the operators for tokens.         *)
LEMMA ShapedTokens ==
  /\ \A x \in ItemShapes : Spelled(x) \in TokenShapes
  /\ \A p \in PathShapes, b \in BOOLEAN : OriginToken(p, b) \in TokenShapes
  /\ \A d \in 0 .. 255, c \in Steps : ExplicitToken(d, c) \in TokenShapes
  /\ \A k \in KeyShapes : Generic(k) \in TokenShapes
  /\ Same \in TokenShapes /\ Implied \in TokenShapes /\ HexToken \in TokenShapes
  /\ ChildrenToken \in TokenShapes /\ Broken \in TokenShapes
<1>1. \A x \in ItemShapes : Spelled(x) \in TokenShapes
  BY DEF TokenShapes
<1>2. \A p \in PathShapes, b \in BOOLEAN : OriginToken(p, b) \in TokenShapes
  BY DEF TokenShapes
<1>3. \A d \in 0 .. 255, c \in Steps : ExplicitToken(d, c) \in TokenShapes
  BY DEF TokenShapes
<1>4. \A k \in KeyShapes : Generic(k) \in TokenShapes
  BY DEF TokenShapes
<1>5. {Same, Implied, HexToken, ChildrenToken, Broken} \subseteq TokenShapes
  BY DEF TokenShapes
<1> QED
  BY <1>1, <1>2, <1>3, <1>4, <1>5

(* The fields of a token are those it was made of.                         *)
LEMMA TokenFields ==
  /\ \A x : Spelled(x).is = "spelled" /\ Spelled(x).item = x
  /\ \A p, b : /\ OriginToken(p, b).is = "origin" /\ OriginToken(p, b).path = p
               /\ OriginToken(p, b).padded = b
  /\ Same.is = "same" /\ Implied.is = "implied"
  /\ \A d, c : /\ ExplicitToken(d, c).is = "explicit" /\ ExplicitToken(d, c).depth = d
               /\ ExplicitToken(d, c).child = c
  /\ \A k : Generic(k).is = "generic" /\ Generic(k).key = k
  /\ HexToken.is = "hex" /\ ChildrenToken.is = "children" /\ Broken.is = "broken"
BY Zenon DEF Spelled, OriginToken, Same, Implied, ExplicitToken, Generic, HexToken,
             ChildrenToken, Broken

(* A token is told by its kind.                                            *)
LEMMA TokenIs ==
  ASSUME NEW t \in TokenShapes
  PROVE  /\ t.is \in {"spelled", "origin", "same", "implied", "explicit", "generic",
                     "hex", "children", "broken"}
         /\ t.is = "spelled" => \E x \in ItemShapes : t = Spelled(x)
         /\ t.is = "origin" => \E p \in PathShapes, b \in BOOLEAN : t = OriginToken(p, b)
         /\ t.is = "same" => t = Same
         /\ t.is = "implied" => t = Implied
         /\ t.is = "explicit" => \E d \in 0 .. 255, c \in Steps : t = ExplicitToken(d, c)
         /\ t.is = "generic" => \E k \in KeyShapes : t = Generic(k)
         /\ t.is = "hex" => t = HexToken
         /\ t.is = "children" => t = ChildrenToken
         /\ t.is = "broken" => t = Broken
<1>1. CASE \E x \in ItemShapes : t = Spelled(x)
  <2>1. t.is = "spelled"
    <3>1. PICK x \in ItemShapes : t = Spelled(x)
      BY <1>1
    <3>2. Spelled(x).is = "spelled"
      BY Zenon DEF Spelled
    <3> QED
      BY <3>1, <3>2
  <2> QED
    BY <1>1, <2>1
<1>2. CASE \E p \in PathShapes, b \in BOOLEAN : t = OriginToken(p, b)
  <2>1. t.is = "origin"
    <3>1. PICK p \in PathShapes, b \in BOOLEAN : t = OriginToken(p, b)
      BY <1>2
    <3>2. OriginToken(p, b).is = "origin"
      BY Zenon DEF OriginToken
    <3> QED
      BY <3>1, <3>2
  <2> QED
    BY <1>2, <2>1
<1>3. CASE \E d \in 0 .. 255, c \in Steps : t = ExplicitToken(d, c)
  <2>1. t.is = "explicit"
    <3>1. PICK d \in 0 .. 255, c \in Steps : t = ExplicitToken(d, c)
      BY <1>3
    <3>2. ExplicitToken(d, c).is = "explicit"
      BY Zenon DEF ExplicitToken
    <3> QED
      BY <3>1, <3>2
  <2> QED
    BY <1>3, <2>1
<1>4. CASE \E k \in KeyShapes : t = Generic(k)
  <2>1. t.is = "generic"
    <3>1. PICK k \in KeyShapes : t = Generic(k)
      BY <1>4
    <3>2. Generic(k).is = "generic"
      BY Zenon DEF Generic
    <3> QED
      BY <3>1, <3>2
  <2> QED
    BY <1>4, <2>1
<1>5. CASE t \in {Same, Implied, HexToken, ChildrenToken, Broken}
  BY <1>5, TokenFields
<1> QED
  BY <1>1, <1>2, <1>3, <1>4, <1>5, TokenKinds

(* Every item and every token has a length.                                *)
LEMMA CharsAreNat ==
  ASSUME NEW x \in ItemShapes
  PROVE  Chars(x) \in Nat
<1>1. CASE \E p \in PathShapes : x = Origin(p)
  <2>1. PICK p \in PathShapes : x = Origin(p)
    BY <1>1
  <2>2. Chars(x) = 10 + p.n * StepChars[p.last]
    BY <2>1, ItemFields, Zenon DEF Chars
  <2>3. p.n \in Nat /\ p.last \in Steps
    BY Zenon DEF PathShapes
  <2>4. StepChars[p.last] \in Nat
    BY <2>3 DEF StepChars
  <2> HIDE DEF StepChars
  <2> QED
    BY <2>2, <2>3, <2>4
<1>2. CASE x.is \in {"char", "key", "hex", "children"}
  <2>1. x.is # "origin"
    BY <1>2
  <2>2. Chars(x) = [char |-> 1, key |-> 111, hex |-> 66, children |-> 8][x.is]
    BY <2>1, Zenon DEF Chars
  <2>3. Chars(x) \in {1, 111, 66, 8}
    BY <1>2, <2>2
  <2> QED
    BY <2>3
<1> QED
  BY <1>1, <1>2, ItemKinds, ItemFields

(* Every token has a length in bytes.                                      *)
LEMMA BytesAreNat ==
  ASSUME NEW t \in TokenShapes
  PROVE  Bytes(t) \in Nat
<1>1. CASE \E x \in ItemShapes : t = Spelled(x)
  <2>1. PICK x \in ItemShapes : t = Spelled(x)
    BY <1>1
  <2>2. Bytes(t) = Chars(x)
    BY <2>1, TokenFields, Zenon DEF Bytes
  <2> QED
    BY <2>2, CharsAreNat
<1>2. CASE \E p \in PathShapes, b \in BOOLEAN : t = OriginToken(p, b)
  <2>1. PICK p \in PathShapes, b \in BOOLEAN : t = OriginToken(p, b)
    BY <1>2
  <2>2. t.is # "spelled"
    BY <2>1, TokenFields
  <2>3. Bytes(t) = OriginBytes(p.n) + (IF b THEN 1 ELSE 0)
    BY <2>1, <2>2, TokenFields DEF Bytes
  <2>4. p.n \in Nat
    BY Zenon DEF PathShapes
  <2>5. OriginBytes(p.n) \in Nat
    BY <2>4 DEF OriginBytes
  <2> QED
    BY <2>3, <2>5
<1>3. CASE t.is \in {"same", "implied", "explicit", "generic", "hex", "children", "broken"}
  <2>1. t.is # "origin" /\ t.is # "spelled"
    BY <1>3
  <2>2. Bytes(t) = [same |-> 5, implied |-> 69, explicit |-> 74, generic |-> 79,
                    hex |-> 34, children |-> 1, broken |-> 1][t.is]
    BY <2>1, Zenon DEF Bytes
  <2>3. Bytes(t) \in {5, 69, 74, 79, 34, 1}
    BY <1>3, <2>2
  <2> QED
    BY <2>3
<1> QED
  BY <1>1, <1>2, <1>3, TokenKinds, TokenFields

(* The length of a text, and of the longest that a payload may unpack to,  *)
(* are numbers, and what begins a text is no longer than the text.         *)
LEMMA CharsGrow ==
  ASSUME NEW text \in Seq(ItemShapes), NEW first \in Seq(ItemShapes),
         Len(first) <= Len(text),
         \A i \in 1 .. Len(first) : first[i] = text[i]
  PROVE  /\ CharsIn(text) \in Nat
         /\ CharsIn(first) \in Nat
         /\ CharsIn(first) <= CharsIn(text)
<1> DEFINE sizes == [i \in DOMAIN text |-> Chars(text[i])]
           starts == [i \in DOMAIN first |-> Chars(first[i])]
<1>1. Len(text) \in Nat /\ Len(first) \in 0 .. Len(text)
  OBVIOUS
<1>2. \A i \in 1 .. Len(text) : sizes[i] \in Nat
  <2> SUFFICES ASSUME NEW i \in 1 .. Len(text) PROVE sizes[i] \in Nat
    OBVIOUS
  <2>1. text[i] \in ItemShapes /\ i \in DOMAIN text
    OBVIOUS
  <2> QED
    BY <2>1, CharsAreNat
<1>3. \A i \in 1 .. Len(first) : starts[i] = sizes[i]
  <2> SUFFICES ASSUME NEW i \in 1 .. Len(first) PROVE starts[i] = sizes[i]
    OBVIOUS
  <2>1. i \in DOMAIN first /\ i \in DOMAIN text /\ first[i] = text[i]
    OBVIOUS
  <2> QED
    BY <2>1
<1>4. CharsIn(text) = Total(sizes, Len(text)) /\ CharsIn(first) = Total(starts, Len(first))
  BY Zenon DEF CharsIn
<1> HIDE DEF sizes, starts
<1> QED
  BY <1>1, <1>2, <1>3, <1>4, TotalGrows

(* The longest text of some bytes is never shorter than 64 characters.     *)
LEMMA LongestIsNat ==
  ASSUME NEW tokens \in Seq(TokenShapes)
  PROVE  LongestText(tokens) \in Nat /\ LongestText(tokens) >= 64
<1> DEFINE sizes == [i \in DOMAIN tokens |-> Bytes(tokens[i])]
<1>1. Len(tokens) \in Nat
  OBVIOUS
<1>2. \A i \in 1 .. Len(tokens) : sizes[i] \in Nat
  <2> SUFFICES ASSUME NEW i \in 1 .. Len(tokens) PROVE sizes[i] \in Nat
    OBVIOUS
  <2>1. tokens[i] \in TokenShapes /\ i \in DOMAIN tokens
    OBVIOUS
  <2> QED
    BY <2>1, BytesAreNat
<1>3. BytesIn(tokens) = Total(sizes, Len(tokens))
  BY Zenon DEF BytesIn
<1>4. PICK f : IsSum(f, sizes, Len(tokens)) /\ Total(sizes, Len(tokens)) = f[Len(tokens)]
  <2> HIDE DEF sizes
  <2> QED
    BY <1>1, <1>2, TotalIsSum
<1>5. BytesIn(tokens) \in Nat
  <2> HIDE DEF sizes
  <2> QED
    BY <1>1, <1>3, <1>4 DEF IsSum
<1> QED
  BY <1>5 DEF LongestText

(* An item is told by its kind and its fields.                             *)
LEMMA ItemIs ==
  ASSUME NEW x \in ItemShapes
  PROVE  /\ x.is \in {"char", "origin", "key", "hex", "children"}
         /\ x.is = "char" => x = Char(x.class) /\ x.class \in Classes
         /\ x.is = "origin" => x = Origin(x.path) /\ x.path \in PathShapes
         /\ x.is = "key" => /\ x = Key(x.known, x.depth, x.child) /\ x \in KeyShapes
                            /\ x.known \in BOOLEAN /\ x.depth \in 0 .. 255
                            /\ x.child \in Steps
         /\ x.is = "hex" => x = OtherItem("hex")
         /\ x.is = "children" => x = OtherItem("children")
<1>1. CASE \E c \in Classes : x = Char(c)
  BY <1>1, ItemFields
<1>2. CASE \E p \in PathShapes : x = Origin(p)
  BY <1>2, ItemFields
<1>3. CASE \E k \in BOOLEAN, d \in 0 .. 255, c \in Steps : x = Key(k, d, c)
  <2>1. PICK k \in BOOLEAN, d \in 0 .. 255, c \in Steps : x = Key(k, d, c)
    BY <1>3
  <2>2. x.is = "key" /\ x.known = k /\ x.depth = d /\ x.child = c
    BY <2>1, ItemFields
  <2>3. x \in KeyShapes
    BY <2>1 DEF KeyShapes
  <2> QED
    BY <2>1, <2>2, <2>3
<1>4. CASE x = OtherItem("hex")
  BY <1>4, ItemFields
<1>5. CASE x = OtherItem("children")
  BY <1>5, ItemFields
<1> QED
  BY <1>1, <1>2, <1>3, <1>4, <1>5, ItemKinds

-----------------------------------------------------------------------------
(* Pack, item by item *)

PackStates == [out : Seq(TokenShapes), path : PathShapes, originEnd : Nat]

(* The fields of what pack keeps between two items.                        *)
LEMMA PackStateFields ==
  ASSUME NEW p \in PackStates
  PROVE  p.out \in Seq(TokenShapes) /\ p.path \in PathShapes /\ p.originEnd \in Nat
BY DEF PackStates

(* The path without steps is a path.                                       *)
LEMMA RootIsPath == Root \in PathShapes
<1>1. 0 \in Nat /\ "0" \in Steps
  BY DEF Steps
<1> QED
  BY <1>1, Zenon DEF Root, PathShapes

(* Every item is packed as a token, by whichever rule matches.             *)
LEMMA PackedAsIsToken ==
  ASSUME NEW text \in Seq(ItemShapes), NEW p, NEW i \in 1 .. Len(text)
  PROVE  PackedAs(text, p, i) \in TokenShapes
<1>1. text[i] \in ItemShapes
  OBVIOUS
<1>2. FALSE \in BOOLEAN
  OBVIOUS
<1>3. ASSUME text[i].is = "origin" PROVE OriginOf(text[i].path, p) \in TokenShapes
  <2>1. text[i].path \in PathShapes
    BY <1>1, <1>3, ItemIs
  <2> QED
    BY <1>2, <2>1, ShapedTokens DEF OriginOf
<1>4. ASSUME text[i].is = "key", NEW path, NEW behind
      PROVE  KeyToken(text[i], path, behind) \in TokenShapes
  <2>1. text[i] \in KeyShapes /\ text[i].depth \in 0 .. 255 /\ text[i].child \in Steps
    BY <1>1, <1>4, ItemIs
  <2>2. Explicit(text[i]) = ExplicitToken(text[i].depth, text[i].child)
    BY Zenon DEF Explicit, ExplicitToken
  <2> QED
    BY <2>1, <2>2, ShapedTokens DEF KeyToken
<1>5. HexToken \in TokenShapes /\ ChildrenToken \in TokenShapes /\ Spelled(text[i]) \in TokenShapes
  BY <1>1, ShapedTokens
<1>6. MatchExtended(text, i) => text[i].is = "key"
  BY DEF MatchExtended
<1>7. CASE text[i].is = "origin"
  BY <1>3, <1>7 DEF PackedAs
<1>8. CASE text[i].is # "origin" /\ MatchExtended(text, i)
  BY <1>4, <1>6, <1>8 DEF PackedAs
<1>9. CASE text[i].is # "origin" /\ ~MatchExtended(text, i)
  BY <1>5, <1>9 DEF PackedAs
<1> QED
  BY <1>7, <1>8, <1>9

(* One item adds its token, and only an origin changes what pack           *)
(* remembers.                                                              *)
LEMMA PackNextFields ==
  ASSUME NEW text, NEW p, NEW i
  PROVE  LET q == PackNext(text, p, i) IN
         /\ q.out = Append(p.out, PackedAs(text, p, i))
         /\ text[i].is = "origin" => q.path = text[i].path /\ q.originEnd = i + 1
         /\ text[i].is # "origin" => q.path = p.path /\ q.originEnd = p.originEnd
BY Zenon DEF PackNext

(* What pack keeps stays of its type behind an item.                       *)
LEMMA PackNextIsState ==
  ASSUME NEW text \in Seq(ItemShapes), NEW p \in PackStates, NEW i \in 1 .. Len(text)
  PROVE  PackNext(text, p, i) \in PackStates
<1> DEFINE token == PackedAs(text, p, i)
           path == IF text[i].is = "origin" THEN text[i].path ELSE p.path
           end == IF text[i].is = "origin" THEN i + 1 ELSE p.originEnd
<1>1. token \in TokenShapes
  BY PackedAsIsToken
<1>2. p.out \in Seq(TokenShapes) /\ p.path \in PathShapes /\ p.originEnd \in Nat
  BY PackStateFields
<1>3. Append(p.out, token) \in Seq(TokenShapes)
  <2> HIDE DEF token
  <2> QED
    BY <1>1, <1>2
<1>4. path \in PathShapes
  <2>1. text[i] \in ItemShapes
    OBVIOUS
  <2> QED
    BY <1>2, <2>1, ItemIs
<1>5. end \in Nat
  BY <1>2
<1>6. PackNext(text, p, i) = [out |-> Append(p.out, token), path |-> path, originEnd |-> end]
  BY Zenon DEF PackNext
<1> HIDE DEF token, path, end
<1> QED
  BY <1>3, <1>4, <1>5, <1>6 DEF PackStates

\* The states of the loop over the items of a text.
IsPacking(p, text) ==
    /\ p \in [0 .. Len(text) -> PackStates]
    /\ p[0] = PackStart
    /\ \A i \in 1 .. Len(text) : p[i] = PackNext(text, p[i - 1], i)

(* What pack starts with is of its type.                                   *)
LEMMA PackStartIsState == PackStart \in PackStates
<1>1. <<>> \in Seq(TokenShapes) /\ 0 \in Nat
  OBVIOUS
<1> QED
  BY <1>1, RootIsPath, Zenon DEF PackStart, PackStates

(* The packed text is what the loop of pack ends with.                     *)
LEMMA PackIsLoop ==
  ASSUME NEW text \in Seq(ItemShapes)
  PROVE  \E p : IsPacking(p, text) /\ PackText(text) = p[Len(text)].out
<1> DEFINE n == Len(text)
           g == [a \in PackStates \X (1 .. n) |-> PackNext(text, a[1], a[2])]
           Packing(p) ==
               p = [i \in 0 .. n |-> IF i = 0 THEN PackStart ELSE PackNext(text, p[i - 1], i)]
           p == CHOOSE p : Packing(p)
<1>0. n \in Nat
  OBVIOUS
<1>1. g \in [PackStates \X (1 .. n) -> PackStates]
  BY PackNextIsState
<1>2. PICK h : Loop(h, PackStates, PackStart, n, g)
  <2> HIDE DEF g, n
  <2> QED
    BY <1>0, <1>1, LoopExists, PackStartIsState
<1>3. Packing(h)
  <2> HIDE DEF n
  <2>1. h \in [0 .. n -> PackStates] /\ h[0] = PackStart
    BY <1>2 DEF Loop
  <2>2. ASSUME NEW i \in 1 .. n PROVE h[i] = PackNext(text, h[i - 1], i)
    <3>1. h[i] = g[<<h[i - 1], i>>]
      BY <1>2 DEF Loop
    <3>2. i - 1 \in 0 .. n
      BY <1>0
    <3>3. <<h[i - 1], i>> \in PackStates \X (1 .. n)
      BY <2>1, <3>2
    <3> QED
      BY <3>1, <3>3
  <2> QED
    BY <1>0, <2>1, <2>2
<1>4. Packing(p)
  <2> HIDE DEF Packing
  <2> QED
    BY <1>3
<1>5. PackText(text) = p[n].out
  BY DEF PackText
<1> HIDE DEF p, n
<1>6. p[0] = PackStart /\ \A i \in 1 .. n : p[i] = PackNext(text, p[i - 1], i)
  <2>1. 0 \in 0 .. n /\ \A i \in 1 .. n : i \in 0 .. n /\ i # 0
    BY <1>0
  <2> QED
    BY <1>4, <2>1
<1>7. \A i \in 0 .. n : p[i] \in PackStates
  <2> DEFINE Done == {i \in 0 .. n : p[i] \in PackStates}
  <2>1. 0 \in Done
    BY <1>0, <1>6, PackStartIsState
  <2>2. ASSUME NEW i \in 1 .. n, i - 1 \in Done PROVE i \in Done
    <3>1. p[i] \in PackStates
      BY <1>6, <2>2, PackNextIsState DEF n
    <3> QED
      BY <3>1
  <2>3. \A i \in 0 .. n : i \in Done
    <3> HIDE DEF Done
    <3> QED
      BY <1>0, <2>1, <2>2, Rounds
  <2> QED
    BY <2>3
<1>8. p \in [0 .. n -> PackStates]
  BY <1>4, <1>7
<1> QED
  BY <1>5, <1>6, <1>8 DEF IsPacking, n

-----------------------------------------------------------------------------
(* Unpack, token by token *)

ReadStates == [out : Seq(ItemShapes), path : PathShapes, haveOrigin : BOOLEAN,
               afterOrigin : BOOLEAN, error : {"none", "invalid", "too long"}]

(* The fields of what Unpack keeps between two tokens.                     *)
LEMMA ReadStateFields ==
  ASSUME NEW u \in ReadStates
  PROVE  /\ u.out \in Seq(ItemShapes) /\ u.path \in PathShapes
         /\ u.haveOrigin \in BOOLEAN /\ u.afterOrigin \in BOOLEAN
         /\ u.error \in {"none", "invalid", "too long"}
<1>1. u.out \in Seq(ItemShapes) /\ u.path \in PathShapes
  BY DEF ReadStates
<1>2. u.haveOrigin \in BOOLEAN /\ u.afterOrigin \in BOOLEAN
  BY Zenon DEF ReadStates
<1>3. u.error \in {"none", "invalid", "too long"}
  BY DEF ReadStates
<1> QED
  BY <1>1, <1>2, <1>3

(* What each token reads as.                                               *)
LEMMA ReadSpelled ==
  ASSUME NEW u, NEW x
  PROVE  Read(u, Spelled(x)) = {x}
BY TokenFields, Zenon DEF Read

(* An origin token reads as its origin.                                    *)
LEMMA ReadOriginToken ==
  ASSUME NEW u, NEW p, NEW b
  PROVE  Read(u, OriginToken(p, b)) = {Origin(p)}
<1>1. OriginToken(p, b).is = "origin" /\ OriginToken(p, b).path = p
  BY TokenFields
<1> QED
  BY <1>1 DEF Read, Origin

(* The same path again reads as the last origin, if there was one.         *)
LEMMA ReadSame ==
  ASSUME NEW u
  PROVE  /\ u.haveOrigin => Read(u, Same) = {Origin(u.path)}
         /\ ~u.haveOrigin => Read(u, Same) = {}
<1>1. Same.is = "same"
  BY TokenFields
<1>2. Read(u, Same) = {x \in {Origin(u.path)} : u.haveOrigin}
  BY <1>1 DEF Read, Origin
<1> QED
  BY <1>2

(* An implied key reads as the one that the origin right before it gives.  *)
LEMMA ReadImplied ==
  ASSUME NEW u
  PROVE  /\ u.afterOrigin /\ u.path.n <= 255 =>
                Read(u, Implied) = {Key(TRUE, u.path.n, u.path.last)}
         /\ ~(u.afterOrigin /\ u.path.n <= 255) => Read(u, Implied) = {}
<1>1. Implied.is = "implied"
  BY TokenFields
<1>2. Read(u, Implied) = {x \in {Key(TRUE, u.path.n, u.path.last)} :
                             u.afterOrigin /\ u.path.n <= 255}
  BY <1>1 DEF Read
<1> QED
  BY <1>2

(* An explicit key reads as a key of its own depth and child number.       *)
LEMMA ReadExplicit ==
  ASSUME NEW u, NEW d, NEW c
  PROVE  Read(u, ExplicitToken(d, c)) = {Key(TRUE, d, c)}
<1>1. /\ ExplicitToken(d, c).is = "explicit" /\ ExplicitToken(d, c).depth = d
      /\ ExplicitToken(d, c).child = c
  BY TokenFields
<1> QED
  BY <1>1 DEF Read

(* A generic key reads as the key it holds.                                *)
LEMMA ReadGeneric ==
  ASSUME NEW u, NEW k
  PROVE  Read(u, Generic(k)) = {k}
<1>1. Generic(k).is = "generic" /\ Generic(k).key = k
  BY TokenFields
<1> QED
  BY <1>1 DEF Read

(* The tokens of a hex key and of the children read as these, a broken one *)
(* as nothing.                                                             *)
LEMMA ReadOther ==
  ASSUME NEW u
  PROVE  /\ Read(u, HexToken) = {OtherItem("hex")}
         /\ Read(u, ChildrenToken) = {OtherItem("children")}
         /\ Read(u, Broken) = {}
<1>1. HexToken.is = "hex" /\ ChildrenToken.is = "children" /\ Broken.is = "broken"
  BY TokenFields
<1>2. Read(u, HexToken) = {OtherItem("hex")}
  BY <1>1 DEF Read, OtherItem
<1>3. Read(u, ChildrenToken) = {OtherItem("children")}
  BY <1>1 DEF Read, OtherItem
<1>4. Read(u, Broken) = {}
  BY <1>1 DEF Read
<1> QED
  BY <1>2, <1>3, <1>4

IsOriginToken(token) == token.is \in {"origin", "same"}

(* A token reads as one item at most, an origin as an origin.              *)
LEMMA ReadOne ==
  ASSUME NEW u \in ReadStates, NEW t \in TokenShapes
  PROVE  /\ \A x, y \in Read(u, t) : x = y
         /\ \A x \in Read(u, t) : x \in ItemShapes
         /\ \A x \in Read(u, t) : IsOriginToken(t) => x.is = "origin"
<1>0. u.path \in PathShapes /\ u.path.n \in Nat /\ u.path.last \in Steps
  BY ReadStateFields DEF PathShapes
<1>1. CASE \E x \in ItemShapes : t = Spelled(x)
  <2>1. PICK x \in ItemShapes : t = Spelled(x)
    BY <1>1
  <2>2. Read(u, t) = {x}
    BY <2>1, ReadSpelled
  <2>3. t.is = "spelled" /\ x \in ItemShapes
    BY <2>1, TokenFields
  <2> QED
    BY <2>2, <2>3 DEF IsOriginToken
<1>2. CASE \E p \in PathShapes, b \in BOOLEAN : t = OriginToken(p, b)
  <2>1. PICK p \in PathShapes, b \in BOOLEAN : t = OriginToken(p, b)
    BY <1>2
  <2>2. Read(u, t) = {Origin(p)}
    BY <2>1, ReadOriginToken
  <2>3. Origin(p) \in ItemShapes /\ Origin(p).is = "origin"
    BY ItemFields DEF ItemShapes
  <2> QED
    BY <2>2, <2>3
<1>3. CASE t = Same
  <2>1. Origin(u.path) \in ItemShapes /\ Origin(u.path).is = "origin"
    BY <1>0, ItemFields DEF ItemShapes
  <2>2. Read(u, t) = {} \/ Read(u, t) = {Origin(u.path)}
    BY <1>3, ReadSame, Zenon
  <2> QED
    BY <2>1, <2>2
<1>4. CASE t = Implied
  <2>1. Read(u, t) = {} \/ (Read(u, t) = {Key(TRUE, u.path.n, u.path.last)} /\ u.path.n <= 255)
    BY <1>4, ReadImplied, Zenon
  <2>2. u.path.n <= 255 => u.path.n \in 0 .. 255 /\ TRUE \in BOOLEAN
    BY <1>0
  <2>3. u.path.n <= 255 => Key(TRUE, u.path.n, u.path.last) \in ItemShapes
    BY <1>0, <2>2, ShapedItems
  <2>4. ~IsOriginToken(t)
    BY <1>4, TokenFields DEF IsOriginToken
  <2> QED
    BY <2>1, <2>3, <2>4
<1>5. CASE \E d \in 0 .. 255, c \in Steps : t = ExplicitToken(d, c)
  <2>1. PICK d \in 0 .. 255, c \in Steps : t = ExplicitToken(d, c)
    BY <1>5
  <2>2. Read(u, t) = {Key(TRUE, d, c)}
    BY <2>1, ReadExplicit
  <2>3. TRUE \in BOOLEAN
    OBVIOUS
  <2>4. Key(TRUE, d, c) \in ItemShapes
    BY <2>3, ShapedItems
  <2>5. ~IsOriginToken(t)
    BY <2>1, TokenFields DEF IsOriginToken
  <2> QED
    BY <2>2, <2>4, <2>5
<1>6. CASE \E k \in KeyShapes : t = Generic(k)
  <2>1. PICK k \in KeyShapes : t = Generic(k)
    BY <1>6
  <2>2. Read(u, t) = {k}
    BY <2>1, ReadGeneric
  <2>3. k \in ItemShapes
    BY DEF ItemShapes
  <2>4. ~IsOriginToken(t)
    BY <2>1, TokenFields DEF IsOriginToken
  <2> QED
    BY <2>2, <2>3, <2>4
<1>7. CASE t = HexToken \/ t = ChildrenToken
  <2>1. Read(u, t) = {OtherItem("hex")} \/ Read(u, t) = {OtherItem("children")}
    BY <1>7, ReadOther, Zenon
  <2>2. OtherItem("hex") \in ItemShapes /\ OtherItem("children") \in ItemShapes
    BY DEF ItemShapes
  <2>3. ~IsOriginToken(t)
    BY <1>7, TokenFields DEF IsOriginToken
  <2> QED
    BY <2>1, <2>2, <2>3
<1>8. CASE t = Broken
  BY <1>8, ReadOther
<1> QED
  BY <1>1, <1>2, <1>3, <1>4, <1>5, <1>6, <1>7, <1>8, TokenKinds

(* A token read: what it says is added to the text.                        *)
LEMMA UnpackNextReads ==
  ASSUME NEW tokens, NEW u \in ReadStates, NEW t \in TokenShapes, u.error = "none",
         NEW x \in Read(u, t)
  PROVE  LET v == UnpackNext(tokens, u, t) IN
         /\ v \in ReadStates
         /\ v.out = Append(u.out, x)
         /\ v.path = IF IsOriginToken(t) THEN x.path ELSE u.path
         /\ v.haveOrigin = (u.haveOrigin \/ IsOriginToken(t))
         /\ v.afterOrigin = IsOriginToken(t)
         /\ TooLong(v.out, tokens) => v.error = "too long"
         /\ ~TooLong(v.out, tokens) => v.error = "none"
<1>1. x \in ItemShapes /\ (IsOriginToken(t) => x.is = "origin")
  BY ReadOne
<1>2. x = CHOOSE i \in Read(u, t) : TRUE
  <2> DEFINE y == CHOOSE i \in Read(u, t) : TRUE
  <2>1. y \in Read(u, t)
    OBVIOUS
  <2>2. \A a, b \in Read(u, t) : a = b
    BY ReadOne
  <2> HIDE DEF y
  <2>3. x = y
    BY <2>1, <2>2
  <2> QED
    BY <2>3 DEF y
<1> DEFINE out == Append(u.out, x)
           path == IF IsOriginToken(t) THEN x.path ELSE u.path
           have == u.haveOrigin \/ IsOriginToken(t)
           error == IF TooLong(out, tokens) THEN "too long" ELSE "none"
           v == [out |-> out, path |-> path, haveOrigin |-> have,
                 afterOrigin |-> IsOriginToken(t), error |-> error]
<1>3. UnpackNext(tokens, u, t) = v
  <2>1. Read(u, t) # {}
    OBVIOUS
  <2> QED
    BY <1>2, <2>1, Zenon DEF UnpackNext, IsOriginToken
<1>4. u.out \in Seq(ItemShapes) /\ u.path \in PathShapes
  BY ReadStateFields
<1>5. out \in Seq(ItemShapes)
  BY <1>1, <1>4
<1>6. path \in PathShapes
  <2>1. x.is = "origin" => x.path \in PathShapes
    BY <1>1, ItemIs
  <2> QED
    BY <1>1, <1>4, <2>1
<1>7. have \in BOOLEAN /\ IsOriginToken(t) \in BOOLEAN
  <2>1. have \in BOOLEAN
    OBVIOUS
  <2>2. IsOriginToken(t) \in BOOLEAN
    BY DEF IsOriginToken
  <2> QED
    BY <2>1, <2>2
<1>8. error \in {"none", "invalid", "too long"}
  BY Zenon
<1> HIDE DEF out, path, have, error
<1>9. v \in ReadStates
  BY <1>5, <1>6, <1>7, <1>8, Zenon DEF ReadStates
<1>10. /\ v.out = out /\ v.path = path /\ v.haveOrigin = have
       /\ v.afterOrigin = IsOriginToken(t) /\ v.error = error
  BY Zenon
<1> QED
  BY <1>3, <1>9, <1>10, Zenon DEF out, path, have, error

(* A token that says nothing is an error, and an error stays.              *)
LEMMA UnpackNextFails ==
  ASSUME NEW tokens, NEW u \in ReadStates, NEW t
  PROVE  LET v == UnpackNext(tokens, u, t) IN
         /\ u.error # "none" => v = u
         /\ u.error = "none" /\ Read(u, t) = {} =>
                v \in ReadStates /\ v.error = "invalid" /\ v.out = u.out
<1>1. ASSUME u.error # "none" PROVE UnpackNext(tokens, u, t) = u
  BY <1>1, Zenon DEF UnpackNext
<1>2. ASSUME u.error = "none", Read(u, t) = {}
      PROVE  /\ UnpackNext(tokens, u, t) \in ReadStates
             /\ UnpackNext(tokens, u, t).error = "invalid"
             /\ UnpackNext(tokens, u, t).out = u.out
  <2>1. UnpackNext(tokens, u, t) = [u EXCEPT !.error = "invalid"]
    BY <1>2, Zenon DEF UnpackNext
  <2>2. [u EXCEPT !.error = "invalid"] \in ReadStates
    BY DEF ReadStates
  <2>3. [u EXCEPT !.error = "invalid"].error = "invalid" /\ [u EXCEPT !.error = "invalid"].out = u.out
    BY DEF ReadStates
  <2> QED
    BY <2>1, <2>2, <2>3, Zenon
<1> QED
  BY <1>1, <1>2, Zenon

(* What Unpack keeps stays of its type behind a token.                     *)
LEMMA UnpackNextIsState ==
  ASSUME NEW tokens, NEW u \in ReadStates, NEW t \in TokenShapes
  PROVE  UnpackNext(tokens, u, t) \in ReadStates
<1>1. CASE u.error = "none" /\ Read(u, t) # {}
  <2>1. PICK x \in Read(u, t) : TRUE
    BY <1>1
  <2> QED
    BY <1>1, <2>1, UnpackNextReads
<1>2. CASE u.error = "none" /\ Read(u, t) = {}
  BY <1>2, UnpackNextFails, Zenon
<1>3. CASE u.error # "none"
  <2>1. UnpackNext(tokens, u, t) = u
    BY <1>3, UnpackNextFails, Zenon
  <2> QED
    BY <2>1
<1> QED
  BY <1>1, <1>2, <1>3

\* The states of the loop over the tokens.
IsReading(u, tokens) ==
    /\ u \in [0 .. Len(tokens) -> ReadStates]
    /\ u[0] = ReadStart
    /\ \A i \in 1 .. Len(tokens) : u[i] = UnpackNext(tokens, u[i - 1], tokens[i])

(* What Unpack starts with, and that it is of its type.                    *)
LEMMA ReadStartIsState ==
  /\ ReadStart \in ReadStates
  /\ ReadStart.out = <<>> /\ ReadStart.error = "none" /\ ReadStart.path = Root
  /\ ReadStart.haveOrigin = FALSE /\ ReadStart.afterOrigin = FALSE
<1>1. <<>> \in Seq(ItemShapes) /\ FALSE \in BOOLEAN /\ "none" \in {"none", "invalid", "too long"}
  OBVIOUS
<1>2. ReadStart \in ReadStates
  BY <1>1, RootIsPath, Zenon DEF ReadStart, ReadStates
<1> QED
  BY <1>2, Zenon DEF ReadStart

(* What is read of the tokens is what the loop of Unpack ends with.        *)
LEMMA ReadIsLoop ==
  ASSUME NEW tokens \in Seq(TokenShapes)
  PROVE  \E u : IsReading(u, tokens) /\ ReadAll(tokens) = u[Len(tokens)]
<1> DEFINE n == Len(tokens)
           g == [a \in ReadStates \X (1 .. n) |-> UnpackNext(tokens, a[1], tokens[a[2]])]
           Reading(u) == u = [i \in 0 .. n |-> IF i = 0 THEN ReadStart
                                               ELSE UnpackNext(tokens, u[i - 1], tokens[i])]
           u == CHOOSE u : Reading(u)
<1>0. n \in Nat /\ \A i \in 1 .. n : tokens[i] \in TokenShapes
  OBVIOUS
<1>1. g \in [ReadStates \X (1 .. n) -> ReadStates]
  <2> HIDE DEF n
  <2> QED
    BY <1>0, UnpackNextIsState
<1>2. PICK h : Loop(h, ReadStates, ReadStart, n, g)
  <2> HIDE DEF g, n
  <2> QED
    BY <1>0, <1>1, LoopExists, ReadStartIsState
<1>3. Reading(h)
  <2> HIDE DEF n
  <2>1. h \in [0 .. n -> ReadStates] /\ h[0] = ReadStart
    BY <1>2 DEF Loop
  <2>2. ASSUME NEW i \in 1 .. n PROVE h[i] = UnpackNext(tokens, h[i - 1], tokens[i])
    <3>1. h[i] = g[<<h[i - 1], i>>]
      BY <1>2 DEF Loop
    <3>2. i - 1 \in 0 .. n
      BY <1>0
    <3>3. <<h[i - 1], i>> \in ReadStates \X (1 .. n)
      BY <2>1, <3>2
    <3> QED
      BY <3>1, <3>3
  <2> QED
    BY <1>0, <2>1, <2>2
<1>4. Reading(u)
  <2> HIDE DEF Reading
  <2> QED
    BY <1>3
<1>5. ReadAll(tokens) = u[n]
  BY DEF ReadAll
<1> HIDE DEF u, n
<1>6. u[0] = ReadStart /\ \A i \in 1 .. n : u[i] = UnpackNext(tokens, u[i - 1], tokens[i])
  <2>1. 0 \in 0 .. n /\ \A i \in 1 .. n : i \in 0 .. n /\ i # 0
    BY <1>0
  <2> QED
    BY <1>4, <2>1
<1>7. \A i \in 0 .. n : u[i] \in ReadStates
  <2> DEFINE Done == {i \in 0 .. n : u[i] \in ReadStates}
  <2>1. 0 \in Done
    BY <1>0, <1>6, ReadStartIsState
  <2>2. ASSUME NEW i \in 1 .. n, i - 1 \in Done PROVE i \in Done
    <3>1. u[i] \in ReadStates
      BY <1>0, <1>6, <2>2, UnpackNextIsState
    <3> QED
      BY <3>1
  <2>3. \A i \in 0 .. n : i \in Done
    <3> HIDE DEF Done
    <3> QED
      BY <1>0, <2>1, <2>2, Rounds
  <2> QED
    BY <2>3
<1>8. u \in [0 .. n -> ReadStates]
  BY <1>4, <1>7
<1> QED
  BY <1>5, <1>6, <1>8 DEF IsReading, n

-----------------------------------------------------------------------------
(* One after the other *)

(* The packer has put out one token for each item so far.                  *)
LEMMA PackedTokens ==
  ASSUME NEW text \in Seq(ItemShapes), NEW p, IsPacking(p, text)
  PROVE  \A i \in 0 .. Len(text) :
            /\ Len(p[i].out) = i
            /\ \A j \in 1 .. i : p[i].out[j] = PackedAs(text, p[j - 1], j)
<1> DEFINE n == Len(text)
           Good(i) == /\ Len(p[i].out) = i
                      /\ \A j \in 1 .. i : p[i].out[j] = PackedAs(text, p[j - 1], j)
           Done == {i \in 0 .. n : Good(i)}
<1>0. n \in Nat
  OBVIOUS
<1>1. 0 \in Done
  <2>1. p[0].out = <<>>
    <3>1. p[0] = PackStart
      BY DEF IsPacking
    <3>2. PackStart.out = <<>>
      BY Zenon DEF PackStart
    <3> QED
      BY <3>1, <3>2, Zenon
  <2>2. Len(<<>>) = 0
    OBVIOUS
  <2>3. Len(p[0].out) = 0
    BY <2>1, <2>2, Zenon
  <2> QED
    BY <1>0, <2>3
<1>2. ASSUME NEW i \in 1 .. n, i - 1 \in Done PROVE i \in Done
  <2> DEFINE q == p[i - 1]
             token == PackedAs(text, q, i)
  <2>1. q \in PackStates
    <3>1. i - 1 \in 0 .. n
      BY <1>0
    <3> QED
      BY <3>1 DEF IsPacking
  <2>2. q.out \in Seq(TokenShapes)
    BY <2>1, PackStateFields
  <2>3. Len(q.out) = i - 1 /\ \A j \in 1 .. i - 1 : q.out[j] = PackedAs(text, p[j - 1], j)
    BY <1>2
  <2>4. p[i].out = Append(q.out, token)
    <3>1. p[i] = PackNext(text, q, i)
      BY DEF IsPacking
    <3>2. PackNext(text, q, i).out = Append(q.out, token)
      BY PackNextFields
    <3> QED
      BY <3>1, <3>2, Zenon
  <2> HIDE DEF q, token
  <2>5. Len(p[i].out) = i /\ p[i].out[i] = token /\ \A j \in 1 .. i - 1 : p[i].out[j] = q.out[j]
    BY <1>0, <2>2, <2>3, <2>4
  <2>6. ASSUME NEW j \in 1 .. i PROVE p[i].out[j] = PackedAs(text, p[j - 1], j)
    <3>1. CASE j = i
      BY <2>5, <3>1 DEF token, q
    <3>2. CASE j # i
      <4>1. j \in 1 .. i - 1
        BY <1>0, <3>2
      <4> QED
        BY <2>3, <2>5, <4>1
    <3> QED
      BY <3>1, <3>2
  <2> QED
    BY <1>0, <2>5, <2>6
<1>3. \A i \in 0 .. n : i \in Done
  <2> HIDE DEF Done, n
  <2> QED
    BY <1>0, <1>1, <1>2, Rounds
<1> QED
  BY <1>3

(* Behind i items, both loops know the same origin.                        *)
Follows(u, p, i) ==
    /\ u.path = p.path
    /\ u.haveOrigin <=> p.originEnd > 0
    /\ u.afterOrigin <=> p.originEnd = i + 1
    /\ p.originEnd <= i + 1

(* Both loops start without an origin.                                     *)
LEMMA FollowsAtFirst == Follows(ReadStart, PackStart, 0)
<1>1. PackStart.path = Root /\ PackStart.originEnd = 0
  BY Zenon DEF PackStart
<1> QED
  BY <1>1, ReadStartIsState DEF Follows

(* What is packed of an item reads as that item.                           *)
LEMMA PackedReadsBack ==
  ASSUME NEW text \in Seq(ItemShapes), NEW i \in 1 .. Len(text),
         NEW p \in PackStates, NEW u \in ReadStates, Follows(u, p, i - 1)
  PROVE  /\ text[i] \in Read(u, PackedAs(text, p, i))
         /\ IsOriginToken(PackedAs(text, p, i)) <=> text[i].is = "origin"
<1> DEFINE x == text[i]
           t == PackedAs(text, p, i)
<1>1. x \in ItemShapes /\ i \in Nat /\ i - 1 + 1 = i
  OBVIOUS
<1>2. CASE x.is = "origin"
  <2>1. x = Origin(x.path)
    BY <1>1, <1>2, ItemIs
  <2>2. t = OriginOf(x.path, p)
    BY <1>2 DEF PackedAs
  <2>3. CASE p.originEnd > 0 /\ x.path = p.path
    <3>1. t = Same
      BY <2>2, <2>3, Zenon DEF OriginOf
    <3>2. u.haveOrigin /\ u.path = x.path
      BY <2>3 DEF Follows
    <3>3. Read(u, Same) = {Origin(u.path)}
      BY <3>2, ReadSame
    <3>4. IsOriginToken(Same)
      BY TokenFields DEF IsOriginToken
    <3> HIDE DEF x, t
    <3>5. x \in Read(u, t) /\ IsOriginToken(t)
      BY <2>1, <3>1, <3>2, <3>3, <3>4
    <3> QED
      BY <1>2, <3>5 DEF x, t
  <2>4. CASE ~(p.originEnd > 0 /\ x.path = p.path)
    <3>1. t = OriginToken(x.path, FALSE)
      BY <2>2, <2>4, Zenon DEF OriginOf
    <3>2. Read(u, OriginToken(x.path, FALSE)) = {Origin(x.path)}
      BY ReadOriginToken
    <3>3. OriginToken(x.path, FALSE).is = "origin"
      BY Zenon DEF OriginToken
    <3> HIDE DEF x, t
    <3>4. x \in Read(u, t) /\ IsOriginToken(t)
      BY <2>1, <3>1, <3>2, <3>3 DEF IsOriginToken
    <3> QED
      BY <1>2, <3>4 DEF x, t
  <2> QED
    BY <2>3, <2>4
<1>3. CASE x.is # "origin" /\ MatchExtended(text, i)
  <2>1. x.is = "key"
    BY <1>3 DEF MatchExtended
  <2>2. x = Key(x.known, x.depth, x.child) /\ x.known \in BOOLEAN /\ x.depth \in 0 .. 255
    BY <1>1, <2>1, ItemIs
  <2>3. t = KeyToken(x, p.path, AfterOrigin(p, i))
    BY <1>3 DEF PackedAs
  <2> HIDE DEF x, t
  <2>4. CASE ~x.known
    <3>1. t = Generic(x)
      BY <2>3, <2>4, Zenon DEF KeyToken
    <3>2. Read(u, Generic(x)) = {x} /\ ~IsOriginToken(Generic(x))
      BY ReadGeneric, TokenFields DEF IsOriginToken
    <3> QED
      BY <2>1, <3>1, <3>2 DEF x, t
  <2>5. CASE x.known /\ AfterOrigin(p, i) /\ Gives(p.path, x)
    <3>1. t = Implied
      BY <2>3, <2>5, Zenon DEF KeyToken
    <3>2. x.depth = p.path.n /\ x.child = p.path.last
      BY <2>5 DEF Gives
    <3>3. u.afterOrigin /\ u.path = p.path
      BY <1>1, <2>5 DEF Follows, AfterOrigin
    <3>4. u.path.n <= 255
      <4>1. u.path.n = x.depth
        BY <3>2, <3>3, Zenon
      <4>2. \A d \in 0 .. 255 : d <= 255
        OBVIOUS
      <4> QED
        BY <2>2, <4>1, <4>2, Zenon
    <3>5. Read(u, Implied) = {Key(TRUE, u.path.n, u.path.last)}
      BY <3>3, <3>4, ReadImplied
    <3>6. x = Key(TRUE, u.path.n, u.path.last)
      <4>1. x.known = TRUE
        BY <2>2, <2>5
      <4> QED
        BY <2>2, <3>2, <3>3, <4>1, Zenon
    <3>7. ~IsOriginToken(Implied)
      BY TokenFields DEF IsOriginToken
    <3> QED
      BY <2>1, <3>1, <3>5, <3>6, <3>7 DEF x, t
  <2>6. CASE x.known /\ ~(AfterOrigin(p, i) /\ Gives(p.path, x))
    <3>1. t = ExplicitToken(x.depth, x.child)
      BY <2>3, <2>6, Zenon DEF KeyToken, Explicit, ExplicitToken
    <3>2. x = Key(TRUE, x.depth, x.child)
      <4>1. x.known = TRUE
        BY <2>2, <2>6
      <4> QED
        BY <2>2, <4>1, Zenon
    <3>3. Read(u, t) = {Key(TRUE, x.depth, x.child)}
      BY <3>1, ReadExplicit
    <3>4. t.is = "explicit"
      BY <3>1, TokenFields
    <3> QED
      BY <2>1, <3>2, <3>3, <3>4 DEF x, t, IsOriginToken
  <2> QED
    BY <2>4, <2>5, <2>6
<1>4. CASE x.is # "origin" /\ ~MatchExtended(text, i) /\ MatchHex(text, i)
  <2>1. x.is = "hex" /\ x = OtherItem("hex")
    BY <1>1, <1>4, ItemIs DEF MatchHex
  <2>2. t = HexToken
    BY <1>4 DEF PackedAs
  <2>3. Read(u, HexToken) = {OtherItem("hex")} /\ ~IsOriginToken(HexToken)
    BY ReadOther, TokenFields DEF IsOriginToken
  <2> HIDE DEF x, t
  <2> QED
    BY <2>1, <2>2, <2>3 DEF x, t
<1>5. CASE x.is = "children"
  <2>1. x = OtherItem("children")
    BY <1>1, <1>5, ItemIs
  <2>2. t = ChildrenToken
    BY <1>5 DEF PackedAs, MatchExtended, MatchHex
  <2>3. Read(u, ChildrenToken) = {OtherItem("children")} /\ ~IsOriginToken(ChildrenToken)
    BY ReadOther, TokenFields DEF IsOriginToken
  <2> HIDE DEF x, t
  <2> QED
    BY <1>5, <2>1, <2>2, <2>3 DEF x, t
<1>6. CASE x.is \notin {"origin", "children"} /\ ~MatchExtended(text, i) /\ ~MatchHex(text, i)
  <2>1. t = Spelled(x)
    BY <1>6 DEF PackedAs
  <2>2. Read(u, t) = {x} /\ t.is = "spelled"
    BY <2>1, ReadSpelled, TokenFields
  <2> QED
    BY <1>6, <2>2 DEF IsOriginToken
<1> QED
  BY <1>2, <1>3, <1>4, <1>5, <1>6

(* And the item and its token leave both loops with the same origin.       *)
LEMMA FollowsOn ==
  ASSUME NEW text, NEW tokens, NEW i \in Nat \ {0}, NEW p \in PackStates,
         NEW u \in ReadStates, NEW t \in TokenShapes,
         Follows(u, p, i - 1), u.error = "none", text[i] \in Read(u, t),
         IsOriginToken(t) <=> text[i].is = "origin"
  PROVE  Follows(UnpackNext(tokens, u, t), PackNext(text, p, i), i)
<1> DEFINE v == UnpackNext(tokens, u, t)
           q == PackNext(text, p, i)
           x == text[i]
<1>1. /\ v.path = IF IsOriginToken(t) THEN x.path ELSE u.path
      /\ v.haveOrigin = (u.haveOrigin \/ IsOriginToken(t))
      /\ v.afterOrigin = IsOriginToken(t)
  BY UnpackNextReads
<1>2. /\ x.is = "origin" => q.path = x.path /\ q.originEnd = i + 1
      /\ x.is # "origin" => q.path = p.path /\ q.originEnd = p.originEnd
  BY PackNextFields
<1>3. p.originEnd \in Nat
  BY PackStateFields
<1>4. /\ u.path = p.path
      /\ u.haveOrigin <=> p.originEnd > 0
      /\ p.originEnd <= i
  BY DEF Follows
<1> HIDE DEF v, q, x
<1>5. CASE IsOriginToken(t)
  <2>1. x.is = "origin"
    BY <1>5 DEF x
  <2>2. v.path = x.path /\ v.haveOrigin /\ v.afterOrigin
    BY <1>1, <1>5, Zenon
  <2>3. q.path = x.path /\ q.originEnd = i + 1
    BY <1>2, <2>1
  <2>4. q.originEnd > 0 /\ q.originEnd <= i + 1
    BY <2>3
  <2> QED
    BY <2>2, <2>3, <2>4, Zenon DEF Follows, v, q
<1>6. CASE ~IsOriginToken(t)
  <2>1. x.is # "origin"
    BY <1>6 DEF x
  <2>2. v.path = u.path /\ ~v.afterOrigin
    BY <1>1, <1>6, Zenon
  <2>3. v.haveOrigin <=> u.haveOrigin
    BY <1>1, <1>6, Zenon
  <2>4. q.path = p.path /\ q.originEnd = p.originEnd
    BY <1>2, <2>1
  <2>5. q.originEnd <= i + 1 /\ q.originEnd # i + 1
    BY <1>3, <1>4, <2>4
  <2>6. v.haveOrigin <=> q.originEnd > 0
    BY <1>4, <2>3, <2>4, Zenon
  <2>7. v.path = q.path
    BY <1>4, <2>2, <2>4, Zenon
  <2> QED
    BY <2>2, <2>5, <2>6, <2>7, Zenon DEF Follows, v, q
<1> QED
  BY <1>5, <1>6

(* s is what the text begins with.                                         *)
Begins(s, text, i) == Len(s) = i /\ \A j \in 1 .. i : s[j] = text[j]

(* What begins a text still does with the next item of the text behind it. *)
LEMMA BeginsOn ==
  ASSUME NEW S, NEW s \in Seq(S), NEW text, NEW x \in S, NEW i \in Nat \ {0},
         Begins(s, text, i - 1), x = text[i]
  PROVE  Begins(Append(s, x), text, i)
<1>1. Len(s) = i - 1 /\ \A j \in 1 .. i - 1 : s[j] = text[j]
  BY DEF Begins
<1>2. Len(Append(s, x)) = i /\ Append(s, x)[i] = x
      /\ \A j \in 1 .. i - 1 : Append(s, x)[j] = s[j]
  BY <1>1
<1>3. ASSUME NEW j \in 1 .. i PROVE Append(s, x)[j] = text[j]
  <2>1. j = i \/ j \in 1 .. i - 1
    OBVIOUS
  <2> QED
    BY <1>1, <1>2, <2>1
<1> QED
  BY <1>2, <1>3 DEF Begins

(* What begins a text and is as long is the text.                          *)
LEMMA BeginsAll ==
  ASSUME NEW S, NEW s \in Seq(S), NEW text \in Seq(S), Begins(s, text, Len(text))
  PROVE  s = text
BY DEF Begins

(* Before anything is read nothing is too long.                            *)
LEMMA NothingIsTooLong ==
  ASSUME NEW tokens \in Seq(TokenShapes), NEW text \in Seq(ItemShapes), Len(text) = 0
  PROVE  ~TooLong(text, tokens)
<1>1. LongestText(tokens) \in Nat
  BY LongestIsNat
<1>2. CharsIn(text) = 0
  <2> DEFINE sizes == [i \in DOMAIN text |-> Chars(text[i])]
  <2>1. CharsIn(text) = Total(sizes, 0)
    BY Zenon DEF CharsIn
  <2> HIDE DEF sizes
  <2>2. 0 \in Nat /\ \A i \in 1 .. 0 : sizes[i] \in Nat
    OBVIOUS
  <2>3. PICK f : IsSum(f, sizes, 0) /\ Total(sizes, 0) = f[0]
    BY <2>2, TotalIsSum
  <2> QED
    BY <2>1, <2>3 DEF IsSum
<1> QED
  BY <1>1, <1>2 DEF TooLong

(* Where the beginning of a text is too long, so is the text.              *)
LEMMA TooLongStays ==
  ASSUME NEW tokens \in Seq(TokenShapes), NEW text \in Seq(ItemShapes),
         NEW s \in Seq(ItemShapes), NEW i \in 0 .. Len(text), Begins(s, text, i),
         TooLong(s, tokens)
  PROVE  TooLong(text, tokens)
<1>1. Len(s) <= Len(text) /\ \A j \in 1 .. Len(s) : s[j] = text[j]
  BY DEF Begins
<1>2. CharsIn(text) \in Nat /\ CharsIn(s) \in Nat /\ CharsIn(s) <= CharsIn(text)
  BY <1>1, CharsGrow
<1>3. LongestText(tokens) \in Nat
  BY LongestIsNat
<1> QED
  BY <1>2, <1>3 DEF TooLong

\* What Unpack has read of a packed text, or that the text is too long.
ReadsText(u, p, text, tokens, i) ==
    \/ /\ u.error = "none"
       /\ Begins(u.out, text, i)
       /\ ~TooLong(u.out, tokens)
       /\ Follows(u, p, i)
    \/ u.error = "too long" /\ TooLong(text, tokens)

(* Unpack reads a packed text item by item, unless the text is too long.   *)
LEMMA ReadsPacked ==
  ASSUME NEW text \in Seq(ItemShapes), NEW p, IsPacking(p, text),
         NEW tokens \in Seq(TokenShapes), tokens = p[Len(text)].out,
         NEW u, IsReading(u, tokens)
  PROVE  /\ Len(tokens) = Len(text)
         /\ \A i \in 0 .. Len(text) : ReadsText(u[i], p[i], text, tokens, i)
<1> DEFINE n == Len(text)
           Done == {i \in 0 .. n : ReadsText(u[i], p[i], text, tokens, i)}
<1>0. n \in Nat
  OBVIOUS
<1>1. Len(tokens) = n /\ \A j \in 1 .. n : tokens[j] = PackedAs(text, p[j - 1], j)
  <2>1. n \in 0 .. n
    BY <1>0
  <2> QED
    BY <2>1, PackedTokens
<1>2. p \in [0 .. n -> PackStates] /\ u \in [0 .. n -> ReadStates]
  BY <1>1 DEF IsPacking, IsReading
<1>3. 0 \in Done
  <2>1. u[0] = ReadStart /\ p[0] = PackStart
    BY DEF IsReading, IsPacking
  <2>2. u[0].error = "none" /\ u[0].out = <<>>
    BY <2>1, ReadStartIsState, Zenon
  <2>3. Len(<<>>) = 0 /\ <<>> \in Seq(ItemShapes)
    OBVIOUS
  <2>4. ~TooLong(<<>>, tokens)
    BY <2>3, NothingIsTooLong
  <2>5. Begins(<<>>, text, 0)
    BY <2>3 DEF Begins
  <2>6. Follows(u[0], p[0], 0)
    BY <2>1, FollowsAtFirst, Zenon
  <2>7. 0 \in 0 .. n
    BY <1>0
  <2> QED
    BY <2>2, <2>4, <2>5, <2>6, <2>7, Zenon DEF ReadsText
<1>4. ASSUME NEW i \in 1 .. n, i - 1 \in Done PROVE i \in Done
  <2> DEFINE r == u[i - 1]
             q == p[i - 1]
             t == tokens[i]
             v == u[i]
  <2>1. i - 1 \in 0 .. n /\ i \in 0 .. n /\ i \in Nat \ {0}
    BY <1>0
  <2>2. r \in ReadStates /\ q \in PackStates /\ v \in ReadStates /\ t \in TokenShapes
        /\ text[i] \in ItemShapes
    <3>1. t \in TokenShapes /\ text[i] \in ItemShapes
      BY <1>1
    <3> QED
      BY <1>2, <2>1, <3>1
  <2>3. t = PackedAs(text, q, i)
    BY <1>1
  <2>4. v = UnpackNext(tokens, r, t) /\ p[i] = PackNext(text, q, i)
    BY <1>1 DEF IsReading, IsPacking
  <2>5. ReadsText(r, q, text, tokens, i - 1)
    BY <1>4
  <2>6. i \in 1 .. Len(text)
    OBVIOUS
  <2> HIDE DEF r, q, t, v, n
  <2>7. CASE r.error = "none" /\ Begins(r.out, text, i - 1) /\ Follows(r, q, i - 1)
    <3>1. text[i] \in Read(r, t) /\ (IsOriginToken(t) <=> text[i].is = "origin")
      BY <2>2, <2>3, <2>6, <2>7, PackedReadsBack
    <3>2. /\ v.out = Append(r.out, text[i])
          /\ TooLong(v.out, tokens) => v.error = "too long"
          /\ ~TooLong(v.out, tokens) => v.error = "none"
      <4> DEFINE w == UnpackNext(tokens, r, t)
      <4>1. /\ w.out = Append(r.out, text[i])
            /\ TooLong(w.out, tokens) => w.error = "too long"
            /\ ~TooLong(w.out, tokens) => w.error = "none"
        <5>1. r \in ReadStates /\ t \in TokenShapes /\ r.error = "none"
          BY <2>2, <2>7
        <5>2. text[i] \in Read(r, t)
          BY <3>1
        <5> QED
          BY <5>1, <5>2, UnpackNextReads, Zenon
      <4>2. v = w
        BY <2>4
      <4> HIDE DEF w
      <4> QED
        BY <4>1, <4>2
    <3>3. Follows(v, p[i], i)
      BY <2>1, <2>2, <2>4, <2>7, <3>1, FollowsOn
    <3>4. r.out \in Seq(ItemShapes) /\ v.out \in Seq(ItemShapes)
      BY <2>2, ReadStateFields
    <3>5. Begins(v.out, text, i)
      BY <2>1, <2>2, <2>7, <3>2, <3>4, BeginsOn
    <3>6. TooLong(v.out, tokens) => TooLong(text, tokens)
      BY <2>1, <3>4, <3>5, TooLongStays DEF n
    <3> QED
      BY <2>1, <3>2, <3>3, <3>5, <3>6, Zenon DEF ReadsText, v
  <2>8. CASE r.error = "too long" /\ TooLong(text, tokens)
    <3>1. v = r
      <4>1. r.error # "none"
        BY <2>8
      <4>2. UnpackNext(tokens, r, t) = r
        BY <2>2, <4>1, UnpackNextFails
      <4> QED
        BY <2>4, <4>2
    <3> QED
      BY <2>1, <2>8, <3>1, Zenon DEF ReadsText, v
  <2> QED
    BY <2>5, <2>7, <2>8 DEF ReadsText
<1>5. \A i \in 0 .. n : i \in Done
  <2> HIDE DEF Done, n
  <2> QED
    BY <1>0, <1>3, <1>4, Rounds
<1> QED
  BY <1>1, <1>5

(* A packed text is read whole, unless it is too long.                     *)
LEMMA UnpacksPacked ==
  ASSUME NEW text \in Seq(ItemShapes)
  PROVE  LET tokens == PackText(text)
             u == ReadAll(tokens)
         IN  /\ tokens \in Seq(TokenShapes)
             /\ ~TooLong(text, tokens) => u.error = "none" /\ u.out = text
             /\ TooLong(text, tokens) => u.error = "too long"
<1> DEFINE tokens == PackText(text)
           n == Len(text)
<1>1. PICK p : IsPacking(p, text) /\ tokens = p[n].out
  BY PackIsLoop
<1>2. n \in Nat /\ n \in 0 .. n
  OBVIOUS
<1>3. tokens \in Seq(TokenShapes)
  <2>1. p[n] \in PackStates
    BY <1>1, <1>2 DEF IsPacking
  <2> QED
    BY <1>1, <2>1, PackStateFields
<1> HIDE DEF tokens
<1>4. PICK u : IsReading(u, tokens) /\ ReadAll(tokens) = u[Len(tokens)]
  BY <1>3, ReadIsLoop
<1>5. Len(tokens) = n /\ ReadsText(u[n], p[n], text, tokens, n)
  BY <1>1, <1>2, <1>3, <1>4, ReadsPacked
<1>6. u[n] \in ReadStates
  BY <1>2, <1>4, <1>5 DEF IsReading
<1>7. u[n].out \in Seq(ItemShapes)
  BY <1>6, ReadStateFields
<1>8. Begins(u[n].out, text, n) => u[n].out = text
  BY <1>7, BeginsAll
<1>9. CASE u[n].error = "none" /\ Begins(u[n].out, text, n) /\ ~TooLong(u[n].out, tokens)
  <2>1. u[n].out = text /\ ~TooLong(text, tokens)
    BY <1>8, <1>9
  <2> QED
    BY <1>3, <1>4, <1>5, <1>9, <2>1, Zenon DEF tokens
<1>10. CASE u[n].error = "too long" /\ TooLong(text, tokens)
  BY <1>3, <1>4, <1>5, <1>10, Zenon DEF tokens
<1> QED
  BY <1>5, <1>9, <1>10 DEF ReadsText

(* The two answers of Pack and of Unpack.                                  *)
LEMMA Answers ==
  /\ \A e : Refused(e).error = e
  /\ \A s : Given(s).error = "none" /\ Given(s).out = s
BY Zenon DEF Refused, Given

(* What Pack takes, Unpack gives back, and it refuses no text for its      *)
(* length that Unpack would take.                                          *)
LEMMA TextReturns ==
  ASSUME NEW text \in Seq(ItemShapes)
  PROVE  LET packed == Pack(text)
         IN  /\ packed.error = "none" => Unpack(packed.out) = Given(text)
             /\ packed.error = "too long" <=>
                    (Readable(text) /\ Unpack(PackText(text)).error = "too long")
<1> DEFINE tokens == PackText(text)
           u == ReadAll(tokens)
<1>1. /\ ~TooLong(text, tokens) => u.error = "none" /\ u.out = text
      /\ TooLong(text, tokens) => u.error = "too long"
  BY UnpacksPacked, Zenon
<1>2. CASE ~Readable(text)
  <2>1. Pack(text) = Refused("invalid")
    BY <1>2, Zenon DEF Pack
  <2>2. Pack(text).error = "invalid"
    BY <2>1, Answers, Zenon
  <2> QED
    BY <1>2, <2>2
<1>3. CASE Readable(text) /\ TooLong(text, tokens)
  <2>1. Pack(text) = Refused("too long")
    BY <1>3, Zenon DEF Pack
  <2>2. Unpack(tokens) = Refused("too long")
    <3>1. u.error = "too long"
      BY <1>1, <1>3, Zenon
    <3>2. u.error # "none"
      BY <3>1
    <3> QED
      BY <3>1, <3>2, Zenon DEF Unpack
  <2>3. Pack(text).error = "too long" /\ Unpack(tokens).error = "too long"
    BY <2>1, <2>2, Answers, Zenon
  <2> HIDE DEF tokens
  <2> QED
    BY <1>3, <2>3 DEF tokens
<1>4. CASE Readable(text) /\ ~TooLong(text, tokens)
  <2>1. Pack(text) = Given(tokens)
    BY <1>4, Zenon DEF Pack
  <2>2. u.error = "none" /\ u.out = text
    BY <1>1, <1>4, Zenon
  <2>3. Unpack(tokens) = Given(text)
    BY <1>4, <2>2, Zenon DEF Unpack
  <2>4. /\ Pack(text).error = "none" /\ Pack(text).out = tokens
        /\ Unpack(tokens).error = "none"
    BY <2>1, <2>3, Answers, Zenon
  <2> HIDE DEF tokens
  <2> QED
    BY <2>3, <2>4 DEF tokens
<1> QED
  BY <1>2, <1>3, <1>4

-----------------------------------------------------------------------------
(* What the tokens tell *)

(* Behind i tokens, Unpack knows the origin that the tokens tell.          *)
Tells(u, tokens, i) ==
    /\ u.haveOrigin => PathBefore(tokens, i + 1) = {u.path}
    /\ ~u.haveOrigin => PathBefore(tokens, i + 1) = {}
    /\ IsOrigin(tokens, i) <=> u.afterOrigin
    /\ u.afterOrigin => u.haveOrigin

(* The path that the tokens tell is that of the last origin token.         *)
LEMMA PathBeforeOn ==
  ASSUME NEW tokens, NEW i \in Nat \ {0}
  PROVE  /\ tokens[i].is = "origin" => PathBefore(tokens, i + 1) = {tokens[i].path}
         /\ tokens[i].is # "origin" => PathBefore(tokens, i + 1) = PathBefore(tokens, i)
<1> DEFINE before == {j \in 1 .. i - 1 : tokens[j].is = "origin"}
           upto == {j \in 1 .. i : tokens[j].is = "origin"}
           Last(S) == {tokens[j].path : j \in {x \in S : \A y \in S : y <= x}}
<1>1. PathBefore(tokens, i) = Last(before)
  BY DEF PathBefore
<1>2. PathBefore(tokens, i + 1) = Last(upto)
  <2>1. (i + 1) - 1 = i
    OBVIOUS
  <2>2. PathBefore(tokens, i + 1) =
           LET origins == {j \in 1 .. (i + 1) - 1 : tokens[j].is = "origin"}
           IN  {tokens[j].path : j \in {x \in origins : \A y \in origins : y <= x}}
    BY DEF PathBefore
  <2> QED
    BY <2>1, <2>2
<1>3. CASE tokens[i].is = "origin"
  <2>1. i \in upto /\ \A y \in upto : y <= i
    BY <1>3
  <2>2. \A x \in upto : (\A y \in upto : y <= x) => x = i
    <3> SUFFICES ASSUME NEW x \in upto, \A y \in upto : y <= x PROVE x = i
      OBVIOUS
    <3>1. i <= x /\ x <= i /\ x \in Int
      BY <2>1
    <3> QED
      BY <3>1
  <2> HIDE DEF upto
  <2>3. {x \in upto : \A y \in upto : y <= x} = {i}
    BY <2>1, <2>2
  <2>4. Last(upto) = {tokens[i].path}
    BY <2>3
  <2> HIDE DEF Last
  <2> QED
    BY <1>2, <1>3, <2>4
<1>4. CASE tokens[i].is # "origin"
  <2>1. upto = before
    <3>1. \A j \in 1 .. i : j = i \/ j \in 1 .. i - 1
      OBVIOUS
    <3>2. 1 .. i - 1 \subseteq 1 .. i
      OBVIOUS
    <3> QED
      BY <1>4, <3>1, <3>2
  <2> HIDE DEF upto, before, Last
  <2> QED
    BY <1>1, <1>2, <1>4, <2>1
<1> QED
  BY <1>3, <1>4

(* Before the first token there is no origin to tell.                      *)
LEMMA TellsAtFirst ==
  ASSUME NEW tokens \in Seq(TokenShapes)
  PROVE  Tells(ReadStart, tokens, 0)
<1>1. PathBefore(tokens, 0 + 1) = {}
  <2>1. 1 .. (0 + 1) - 1 = {}
    OBVIOUS
  <2> QED
    BY <2>1 DEF PathBefore
<1>2. 0 \notin DOMAIN tokens
  OBVIOUS
<1>3. ~IsOrigin(tokens, 0)
  BY <1>2 DEF IsOrigin
<1> QED
  BY <1>1, <1>3, ReadStartIsState DEF Tells

(* An origin's token gives it, and the same again gives the one before.    *)
LEMMA ReadOriginPath ==
  ASSUME NEW u \in ReadStates, NEW t \in TokenShapes, NEW x \in Read(u, t)
  PROVE  /\ t.is = "origin" => x.path = t.path
         /\ t.is = "same" => x.path = u.path /\ u.haveOrigin
<1>1. ASSUME t.is = "origin" PROVE x.path = t.path
  <2>1. Read(u, t) = {[is |-> "origin", path |-> t.path]}
    BY <1>1 DEF Read
  <2>2. x = [is |-> "origin", path |-> t.path]
    BY <2>1
  <2> QED
    BY <2>2
<1>2. ASSUME t.is = "same" PROVE x.path = u.path /\ u.haveOrigin
  <2>1. Read(u, t) = {y \in {[is |-> "origin", path |-> u.path]} : u.haveOrigin}
    BY <1>2 DEF Read
  <2>2. x = [is |-> "origin", path |-> u.path] /\ u.haveOrigin
    BY <2>1
  <2> QED
    BY <2>2
<1> QED
  BY <1>1, <1>2

(* A token that is read keeps what Unpack knows and what the tokens tell   *)
(* alike.                                                                  *)
LEMMA TellsOn ==
  ASSUME NEW tokens \in Seq(TokenShapes), NEW i \in 1 .. Len(tokens), NEW u \in ReadStates,
         Tells(u, tokens, i - 1), u.error = "none", NEW x \in Read(u, tokens[i])
  PROVE  Tells(UnpackNext(tokens, u, tokens[i]), tokens, i)
<1> DEFINE t == tokens[i]
           v == UnpackNext(tokens, u, t)
<1>1. t \in TokenShapes /\ i \in DOMAIN tokens /\ i \in Nat \ {0} /\ i - 1 + 1 = i
  OBVIOUS
<1>2. /\ v.path = IF IsOriginToken(t) THEN x.path ELSE u.path
      /\ v.haveOrigin = (u.haveOrigin \/ IsOriginToken(t))
      /\ v.afterOrigin = IsOriginToken(t)
  BY <1>1, UnpackNextReads
<1>3. /\ t.is = "origin" => PathBefore(tokens, i + 1) = {t.path}
      /\ t.is # "origin" => PathBefore(tokens, i + 1) = PathBefore(tokens, i)
  BY <1>1, PathBeforeOn
<1>4. /\ u.haveOrigin => PathBefore(tokens, i) = {u.path}
      /\ ~u.haveOrigin => PathBefore(tokens, i) = {}
  BY <1>1, Zenon DEF Tells
<1>5. /\ t.is = "origin" => x.path = t.path
      /\ t.is = "same" => x.path = u.path /\ u.haveOrigin
  BY <1>1, ReadOriginPath
<1>6. IsOrigin(tokens, i) <=> IsOriginToken(t)
  BY <1>1 DEF IsOrigin, IsOriginToken
<1> HIDE DEF v, t
<1>7. (IsOrigin(tokens, i) <=> v.afterOrigin) /\ (v.afterOrigin => v.haveOrigin)
  BY <1>2, <1>6, Zenon
<1>8. CASE t.is = "origin"
  <2>1. IsOriginToken(t)
    BY <1>8 DEF IsOriginToken
  <2>2. v.path = t.path /\ v.haveOrigin
    BY <1>2, <1>5, <1>8, <2>1, Zenon
  <2> QED
    BY <1>3, <1>7, <1>8, <2>2, Zenon DEF Tells, v, t
<1>9. CASE t.is = "same"
  <2>1. IsOriginToken(t) /\ t.is # "origin"
    BY <1>9 DEF IsOriginToken
  <2>2. v.path = u.path /\ v.haveOrigin /\ u.haveOrigin
    BY <1>2, <1>5, <1>9, <2>1, Zenon
  <2> QED
    BY <1>3, <1>4, <1>7, <2>1, <2>2, Zenon DEF Tells, v, t
<1>10. CASE t.is # "origin" /\ t.is # "same"
  <2>1. ~IsOriginToken(t)
    BY <1>10 DEF IsOriginToken
  <2>2. v.path = u.path /\ (v.haveOrigin <=> u.haveOrigin)
    BY <1>2, <2>1, Zenon
  <2> QED
    BY <1>3, <1>4, <1>7, <1>10, <2>2, Zenon DEF Tells, v, t
<1> QED
  BY <1>8, <1>9, <1>10

-----------------------------------------------------------------------------
(* Neighbours *)

KeyKinds == {"key", "implied", "explicit", "generic", "hex"}

\* The token says an item of one of the kinds, or a character of one of the
\* classes: Touches of a neighbour.
Says(t, classes, others) ==
    \/ t.is \in others
    \/ /\ t.is = "spelled"
       /\ \/ t.item.is \in others
          \/ /\ t.item.is = "char"
             /\ t.item.class \in classes

(* The kind of the item that a token says.                                 *)
LEMMA ReadKind ==
  ASSUME NEW u \in ReadStates, NEW t \in TokenShapes, NEW x \in Read(u, t)
  PROVE  /\ t.is = "spelled" => x = t.item
         /\ t.is \in {"origin", "same"} => x.is = "origin"
         /\ t.is \in {"implied", "explicit", "generic"} => x.is = "key"
         /\ t.is \in {"hex", "children", "broken"} => t.is # "broken" /\ x.is = t.is
<1>1. ASSUME t.is = "spelled" PROVE x = t.item
  <2>1. Read(u, t) = {t.item}
    BY <1>1 DEF Read
  <2> QED
    BY <2>1
<1>2. ASSUME t.is \in {"origin", "same"} PROVE x.is = "origin"
  BY <1>2, ReadOne DEF IsOriginToken
<1>3. ASSUME t.is \in {"implied", "explicit", "generic"} PROVE x.is = "key"
  <2>1. CASE t = Implied
    <3>1. Read(u, t) = {} \/ Read(u, t) = {Key(TRUE, u.path.n, u.path.last)}
      BY <2>1, ReadImplied, Zenon
    <3>2. x = Key(TRUE, u.path.n, u.path.last)
      BY <3>1
    <3>3. Key(TRUE, u.path.n, u.path.last).is = "key"
      BY Zenon DEF Key
    <3> QED
      BY <3>2, <3>3
  <2>2. CASE \E d \in 0 .. 255, c \in Steps : t = ExplicitToken(d, c)
    <3>1. PICK d \in 0 .. 255, c \in Steps : t = ExplicitToken(d, c)
      BY <2>2
    <3>2. Read(u, t) = {Key(TRUE, d, c)}
      BY <3>1, ReadExplicit
    <3>3. x = Key(TRUE, d, c)
      BY <3>2
    <3>4. Key(TRUE, d, c).is = "key"
      BY Zenon DEF Key
    <3> QED
      BY <3>3, <3>4
  <2>3. CASE \E k \in KeyShapes : t = Generic(k)
    <3>1. PICK k \in KeyShapes : t = Generic(k)
      BY <2>3
    <3>2. Read(u, t) = {k}
      BY <3>1, ReadGeneric
    <3>3. x = k
      BY <3>2
    <3>4. PICK a \in BOOLEAN, d \in 0 .. 255, c \in Steps : k = Key(a, d, c)
      BY DEF KeyShapes
    <3>5. Key(a, d, c).is = "key"
      BY Zenon DEF Key
    <3> QED
      BY <3>3, <3>4, <3>5
  <2> QED
    BY <1>3, <2>1, <2>2, <2>3, TokenIs
<1>4. ASSUME t.is \in {"hex", "children", "broken"} PROVE t.is # "broken" /\ x.is = t.is
  <2>1. Read(u, t) = {y \in {[is |-> t.is]} : t.is \in {"hex", "children"}}
    BY <1>4 DEF Read
  <2>2. x = [is |-> t.is] /\ t.is \in {"hex", "children"}
    BY <2>1
  <2> QED
    BY <2>2
<1> QED
  BY <1>1, <1>2, <1>3, <1>4

(* A token and its item are alike to the matches beside them.              *)
LEMMA SaysItsItem ==
  ASSUME NEW u \in ReadStates, NEW t \in TokenShapes, NEW x \in Read(u, t)
  PROVE  /\ Says(t, {"both", "base58"}, KeyKinds) <=> Base58(x)
         /\ Says(t, {"both", "hex"}, {"hex"}) <=> HexDigit(x)
<1>1. CASE t.is = "spelled"
  <2>1. x = t.item
    BY <1>1, ReadKind
  <2>2. x.is \in {"char", "origin", "key", "hex", "children"}
    BY ReadOne, ItemIs
  <2> QED
    BY <1>1, <2>1, <2>2 DEF Says, Base58, HexDigit, KeyKinds
<1>2. CASE t.is \in {"origin", "same"}
  <2>1. x.is = "origin"
    BY <1>2, ReadKind
  <2> QED
    BY <1>2, <2>1 DEF Says, Base58, HexDigit, KeyKinds
<1>3. CASE t.is \in {"implied", "explicit", "generic"}
  <2>1. x.is = "key"
    BY <1>3, ReadKind
  <2> QED
    BY <1>3, <2>1 DEF Says, Base58, HexDigit, KeyKinds
<1>4. CASE t.is \in {"hex", "children", "broken"}
  <2>1. x.is = t.is /\ t.is # "broken"
    BY <1>4, ReadKind
  <2> QED
    BY <1>4, <2>1 DEF Says, Base58, HexDigit, KeyKinds
<1> QED
  BY <1>1, <1>2, <1>3, <1>4, TokenIs

\* The items that the tokens say, one each.
ItemsOf(text, tokens, u) ==
    /\ Len(text) = Len(tokens)
    /\ \A i \in 1 .. Len(tokens) : text[i] \in Read(u[i - 1], tokens[i])

(* A key or a hex key has the same neighbours among the items as among     *)
(* the tokens.                                                             *)
LEMMA SameNeighbours ==
  ASSUME NEW tokens \in Seq(TokenShapes), NEW text \in Seq(ItemShapes), NEW u,
         IsReading(u, tokens), ItemsOf(text, tokens, u), NEW i \in 1 .. Len(tokens)
  PROVE  /\ TouchesBase58(tokens, i) <=> \E x \in Neighbours(text, i) : Base58(x)
         /\ TouchesHex(tokens, i) <=> \E x \in Neighbours(text, i) : HexDigit(x)
<1>1. /\ DOMAIN text = 1 .. Len(tokens)
      /\ DOMAIN tokens = 1 .. Len(tokens)
      /\ Len(tokens) \in Nat
  BY DEF ItemsOf
<1>2. ASSUME NEW j \in 1 .. Len(tokens)
      PROVE  /\ Says(tokens[j], {"both", "base58"}, KeyKinds) <=> Base58(text[j])
             /\ Says(tokens[j], {"both", "hex"}, {"hex"}) <=> HexDigit(text[j])
  <2>1. u[j - 1] \in ReadStates
    <3>1. j - 1 \in 0 .. Len(tokens)
      BY <1>1
    <3> QED
      BY <3>1 DEF IsReading
  <2>2. tokens[j] \in TokenShapes /\ text[j] \in Read(u[j - 1], tokens[j])
    BY <1>1 DEF ItemsOf
  <2> QED
    BY <2>1, <2>2, SaysItsItem
<1>3. TouchesBase58(tokens, i) <=>
          \E j \in {i - 1, i + 1} \cap DOMAIN tokens :
              Says(tokens[j], {"both", "base58"}, KeyKinds)
  BY Zenon DEF TouchesBase58, Touches, Says, KeyKinds
<1>4. TouchesHex(tokens, i) <=>
          \E j \in {i - 1, i + 1} \cap DOMAIN tokens : Says(tokens[j], {"both", "hex"}, {"hex"})
  BY Zenon DEF TouchesHex, Touches, Says
<1>5. DOMAIN text = DOMAIN tokens
  BY <1>1
<1>6. \A j \in DOMAIN tokens :
          /\ Says(tokens[j], {"both", "base58"}, KeyKinds) <=> Base58(text[j])
          /\ Says(tokens[j], {"both", "hex"}, {"hex"}) <=> HexDigit(text[j])
  BY <1>1, <1>2, Zenon
<1>7. Neighbours(text, i) = {text[j] : j \in {i - 1, i + 1} \cap DOMAIN tokens}
  BY <1>5, Zenon DEF Neighbours
<1>8. TouchesBase58(tokens, i) <=> \E x \in Neighbours(text, i) : Base58(x)
  <2>1. TouchesBase58(tokens, i) <=>
            \E j \in {i - 1, i + 1} \cap DOMAIN tokens : Base58(text[j])
    BY <1>3, <1>6, Zenon
  <2> QED
    BY <1>7, <2>1, Zenon
<1>9. TouchesHex(tokens, i) <=> \E x \in Neighbours(text, i) : HexDigit(x)
  <2>1. TouchesHex(tokens, i) <=>
            \E j \in {i - 1, i + 1} \cap DOMAIN tokens : HexDigit(text[j])
    BY <1>4, <1>6, Zenon
  <2> QED
    BY <1>7, <2>1, Zenon
<1> QED
  BY <1>8, <1>9

-----------------------------------------------------------------------------
(* The packed form *)

(* The token of an item, by its neighbours.                                *)
LEMMA PackedByKind ==
  ASSUME NEW text, NEW p, NEW i, NEW near58, NEW nearHex,
         near58 <=> \E x \in Neighbours(text, i) : Base58(x),
         nearHex <=> \E x \in Neighbours(text, i) : HexDigit(x)
  PROVE  LET x == text[i]
             t == PackedAs(text, p, i)
         IN  /\ x.is = "origin" => t = OriginOf(x.path, p)
             /\ x.is = "key" /\ ~near58 => t = KeyToken(x, p.path, AfterOrigin(p, i))
             /\ x.is = "key" /\ near58 => t = Spelled(x)
             /\ x.is = "hex" /\ ~nearHex => t = HexToken
             /\ x.is = "hex" /\ nearHex => t = Spelled(x)
             /\ x.is = "children" => t = ChildrenToken
             /\ x.is = "char" => t = Spelled(x)
<1>1. MatchExtended(text, i) <=> text[i].is = "key" /\ ~near58
  BY DEF MatchExtended
<1>2. MatchHex(text, i) <=> text[i].is = "hex" /\ ~nearHex
  BY DEF MatchHex
<1> QED
  BY <1>1, <1>2 DEF PackedAs

(* A path is its number of steps and the last one.                         *)
LEMMA PathIs ==
  ASSUME NEW path \in PathShapes, NEW d, NEW c
  PROVE  [n |-> d, last |-> c] = path <=> d = path.n /\ c = path.last
BY DEF PathShapes

\* Behind i - 1 items: what the loops know of an item, of its token and of
\* what is beside them.
AtItem(text, tokens, u, p, i, near58, nearHex) ==
    /\ u \in ReadStates /\ p \in PackStates
    /\ i \in Nat \ {0} /\ i - 1 + 1 = i
    /\ Follows(u, p, i - 1) /\ Tells(u, tokens, i - 1)
    /\ text[i] \in ItemShapes /\ tokens[i] \in TokenShapes
    /\ text[i] \in Read(u, tokens[i])
    /\ near58 \in BOOLEAN /\ nearHex \in BOOLEAN
    /\ near58 <=> \E x \in Neighbours(text, i) : Base58(x)
    /\ nearHex <=> \E x \in Neighbours(text, i) : HexDigit(x)
    /\ near58 <=> TouchesBase58(tokens, i)
    /\ nearHex <=> TouchesHex(tokens, i)

(* An origin is in packed form exactly where it is the token that pack     *)
(* writes.                                                                 *)
LEMMA OriginForm ==
  ASSUME NEW text, NEW tokens, NEW u, NEW p, NEW i, NEW near58, NEW nearHex,
         AtItem(text, tokens, u, p, i, near58, nearHex),
         tokens[i].is \in {"origin", "same"}
  PROVE  InPackedForm(tokens, i) <=> tokens[i] = PackedAs(text, p, i)
<1> DEFINE x == text[i]
           t == tokens[i]
<1>1. /\ u \in ReadStates /\ t \in TokenShapes /\ x \in Read(u, t)
      /\ Follows(u, p, i - 1) /\ Tells(u, tokens, i - 1) /\ i - 1 + 1 = i
  BY DEF AtItem
<1>2. x.is = "origin"
  BY <1>1, ReadOne DEF IsOriginToken
<1>3. PackedAs(text, p, i) = OriginOf(x.path, p)
  BY <1>2 DEF PackedAs
<1>4. /\ t.is = "origin" => x.path = t.path
      /\ t.is = "same" => x.path = u.path /\ u.haveOrigin
  BY <1>1, ReadOriginPath
<1>5. u.path = p.path /\ (u.haveOrigin <=> p.originEnd > 0)
  BY <1>1 DEF Follows
<1>6. /\ u.haveOrigin => PathBefore(tokens, i) = {u.path}
      /\ ~u.haveOrigin => PathBefore(tokens, i) = {}
  BY <1>1, Zenon DEF Tells
<1> HIDE DEF x, t
<1>7. CASE t.is = "same"
  <2>1. InPackedForm(tokens, i)
    <3>1. PathBefore(tokens, i) # {}
      BY <1>4, <1>6, <1>7
    <3> QED
      BY <1>7, <3>1 DEF InPackedForm, t
  <2>2. t = Same
    BY <1>1, <1>7, TokenIs
  <2>3. OriginOf(x.path, p) = Same
    BY <1>4, <1>5, <1>7, Zenon DEF OriginOf
  <2> QED
    BY <1>3, <2>1, <2>2, <2>3, Zenon DEF t
<1>8. CASE t.is = "origin"
  <2>1. PICK path \in PathShapes, b \in BOOLEAN : t = OriginToken(path, b)
    BY <1>1, <1>8, TokenIs
  <2>2. OriginToken(path, b).path = path /\ OriginToken(path, b).padded = b
    BY Zenon DEF OriginToken
  <2>3. t.path = path /\ t.padded = b
    BY <2>1, <2>2, Zenon
  <2>4. InPackedForm(tokens, i) <=> ~b /\ path \notin PathBefore(tokens, i)
    BY <1>8, <2>3 DEF InPackedForm, t
  <2>5. x.path = path
    BY <1>4, <1>8, <2>3
  <2>6. CASE u.haveOrigin /\ path = u.path
    <3>1. OriginOf(x.path, p) = Same
      BY <1>5, <2>5, <2>6, Zenon DEF OriginOf
    <3>2. t # Same
      BY <1>8, TokenFields
    <3>3. path \in PathBefore(tokens, i)
      BY <1>6, <2>6
    <3> QED
      BY <1>3, <2>4, <3>1, <3>2, <3>3, Zenon DEF t
  <2>7. CASE ~(u.haveOrigin /\ path = u.path)
    <3>1. OriginOf(x.path, p) = OriginToken(path, FALSE)
      BY <1>5, <2>5, <2>7, Zenon DEF OriginOf
    <3>2. path \notin PathBefore(tokens, i)
      BY <1>6, <2>7
    <3>3. t = OriginToken(path, FALSE) <=> ~b
      <4>1. OriginToken(path, FALSE).padded = FALSE
        BY Zenon DEF OriginToken
      <4>2. CASE b = FALSE
        BY <2>1, <4>2
      <4>3. CASE b = TRUE
        BY <2>3, <4>1, <4>3, Zenon
      <4> QED
        BY <4>2, <4>3
    <3> QED
      BY <1>3, <2>4, <3>1, <3>2, <3>3, Zenon DEF t
  <2> QED
    BY <2>6, <2>7
<1> QED
  BY <1>7, <1>8 DEF t

(* A key token is in packed form exactly where it is the one that pack     *)
(* writes.                                                                 *)
LEMMA KeyForm ==
  ASSUME NEW text, NEW tokens, NEW u, NEW p, NEW i, NEW near58, NEW nearHex,
         AtItem(text, tokens, u, p, i, near58, nearHex),
         tokens[i].is \in {"implied", "explicit", "generic"}
  PROVE  InPackedForm(tokens, i) <=> tokens[i] = PackedAs(text, p, i)
<1> DEFINE x == text[i]
           t == tokens[i]
           behind == AfterOrigin(p, i)
<1>1. /\ u \in ReadStates /\ t \in TokenShapes /\ x \in Read(u, t)
      /\ Follows(u, p, i - 1) /\ Tells(u, tokens, i - 1) /\ i - 1 + 1 = i
      /\ near58 \in BOOLEAN
      /\ near58 <=> TouchesBase58(tokens, i)
  BY DEF AtItem
<1>2. /\ x.is = "key" /\ ~near58 => PackedAs(text, p, i) = KeyToken(x, p.path, behind)
      /\ x.is = "key" /\ near58 => PackedAs(text, p, i) = Spelled(x)
  BY PackedByKind DEF AtItem
<1>3. u.path = p.path /\ (behind <=> u.afterOrigin) /\ u.path \in PathShapes
  BY <1>1, ReadStateFields DEF Follows, AfterOrigin
<1>4. IsOrigin(tokens, i - 1) <=> behind
  BY <1>1, <1>3 DEF Tells
<1>5. behind => PathBefore(tokens, i) = {p.path}
  <2>1. behind => u.haveOrigin
    <3>1. i > 0
      BY DEF AtItem
    <3> QED
      BY <1>1, <3>1 DEF Follows, AfterOrigin
  <2> QED
    BY <1>1, <1>3, <2>1, Zenon DEF Tells
<1>6. Spelled(x) # t
  BY TokenFields
<1> HIDE DEF x, t, behind
<1>7. CASE t.is = "implied"
  <2>1. t = Implied
    BY <1>1, <1>7, TokenIs
  <2>2. /\ u.afterOrigin /\ u.path.n <= 255
        /\ x = Key(TRUE, u.path.n, u.path.last)
    <3>1. u.afterOrigin /\ u.path.n <= 255
      BY <1>1, <2>1, ReadImplied
    <3>2. Read(u, t) = {Key(TRUE, u.path.n, u.path.last)}
      BY <2>1, <3>1, ReadImplied
    <3> QED
      BY <1>1, <3>1, <3>2
  <2>3. x.is = "key" /\ x.known = TRUE /\ x.depth = p.path.n /\ x.child = p.path.last
    <3> DEFINE k == Key(TRUE, u.path.n, u.path.last)
    <3>1. k.is = "key" /\ k.known = TRUE /\ k.depth = u.path.n /\ k.child = u.path.last
      BY Zenon DEF Key
    <3> HIDE DEF k
    <3>2. x = k
      BY <2>2 DEF k
    <3> QED
      BY <1>3, <3>1, <3>2, Zenon
  <2>4. InPackedForm(tokens, i) <=> ~near58
    <3>1. \A q \in PathBefore(tokens, i) : q.n <= 255
      BY <1>3, <1>5, <2>2
    <3>2. IsOrigin(tokens, i - 1)
      BY <1>3, <1>4, <2>2
    <3> QED
      BY <1>1, <1>7, <3>1, <3>2 DEF InPackedForm, t
  <2>5. KeyToken(x, p.path, behind) = Implied
    BY <1>3, <2>2, <2>3, Zenon DEF KeyToken, Gives
  <2>6. CASE near58
    BY <1>2, <1>6, <2>3, <2>4, <2>6 DEF t
  <2>7. CASE ~near58
    BY <1>2, <2>1, <2>3, <2>4, <2>5, <2>7 DEF t
  <2> QED
    BY <2>6, <2>7
<1>8. CASE t.is = "explicit"
  <2>1. PICK d \in 0 .. 255, c \in Steps : t = ExplicitToken(d, c)
    BY <1>1, <1>8, TokenIs
  <2>2. x = Key(TRUE, d, c)
    <3>1. Read(u, t) = {Key(TRUE, d, c)}
      BY <2>1, ReadExplicit
    <3> QED
      BY <1>1, <3>1
  <2>3. x.is = "key" /\ x.known = TRUE /\ x.depth = d /\ x.child = c
    <3>1. /\ Key(TRUE, d, c).is = "key" /\ Key(TRUE, d, c).known = TRUE
          /\ Key(TRUE, d, c).depth = d /\ Key(TRUE, d, c).child = c
      BY Zenon DEF Key
    <3> QED
      BY <2>2, <3>1, Zenon
  <2>4. t.depth = d /\ t.child = c
    <3>1. ExplicitToken(d, c).depth = d /\ ExplicitToken(d, c).child = c
      BY Zenon DEF ExplicitToken
    <3> QED
      BY <2>1, <3>1, Zenon
  <2>5. [n |-> d, last |-> c] = p.path <=> Gives(p.path, x)
    <3>1. [n |-> d, last |-> c] = p.path <=> d = p.path.n /\ c = p.path.last
      BY <1>3, PathIs
    <3> QED
      BY <2>3, <3>1, Zenon DEF Gives
  <2>6. InPackedForm(tokens, i) <=> ~(behind /\ Gives(p.path, x)) /\ ~near58
    <3>1. InPackedForm(tokens, i) <=>
             /\ IsOrigin(tokens, i - 1) => [n |-> d, last |-> c] \notin PathBefore(tokens, i)
             /\ ~TouchesBase58(tokens, i)
      BY <1>8, <2>4 DEF InPackedForm, t
    <3>2. CASE behind
      <4>1. [n |-> d, last |-> c] \in PathBefore(tokens, i) <=> [n |-> d, last |-> c] = p.path
        BY <1>5, <3>2
      <4> QED
        BY <1>1, <1>4, <2>5, <3>1, <3>2, <4>1, Zenon
    <3>3. CASE ~behind
      BY <1>1, <1>4, <3>1, <3>3, Zenon
    <3> QED
      BY <3>2, <3>3
  <2>7. KeyToken(x, p.path, behind) = IF behind /\ Gives(p.path, x) THEN Implied ELSE t
    <3>1. Explicit(x) = ExplicitToken(d, c)
      BY <2>3, Zenon DEF Explicit, ExplicitToken
    <3> QED
      BY <2>1, <2>3, <3>1, Zenon DEF KeyToken
  <2>8. t # Implied
    BY <1>8, TokenFields
  <2>9. CASE near58
    BY <1>2, <1>6, <2>3, <2>6, <2>9 DEF t
  <2>10. CASE ~near58 /\ behind /\ Gives(p.path, x)
    BY <1>2, <2>3, <2>6, <2>7, <2>8, <2>10 DEF t
  <2>11. CASE ~near58 /\ ~(behind /\ Gives(p.path, x))
    BY <1>2, <2>3, <2>6, <2>7, <2>11 DEF t
  <2> QED
    BY <2>9, <2>10, <2>11
<1>9. CASE t.is = "generic"
  <2>1. PICK k \in KeyShapes : t = Generic(k)
    BY <1>1, <1>9, TokenIs
  <2>2. x = k /\ x.is = "key"
    <3>1. Read(u, t) = {k}
      BY <2>1, ReadGeneric
    <3>2. PICK a \in BOOLEAN, d \in 0 .. 255, c \in Steps : k = Key(a, d, c)
      BY DEF KeyShapes
    <3>3. Key(a, d, c).is = "key"
      BY Zenon DEF Key
    <3> QED
      BY <1>1, <3>1, <3>2, <3>3
  <2>3. t.key = k
    <3>1. Generic(k).key = k
      BY Zenon DEF Generic
    <3> QED
      BY <2>1, <3>1, Zenon
  <2>4. InPackedForm(tokens, i) <=> ~x.known /\ ~near58
    BY <1>1, <1>9, <2>2, <2>3 DEF InPackedForm, t
  <2>5. ~x.known => KeyToken(x, p.path, behind) = t
    BY <2>1, <2>2, Zenon DEF KeyToken
  <2>6. x.known => KeyToken(x, p.path, behind) # t
    <3>1. ASSUME x.known PROVE KeyToken(x, p.path, behind) \in {Implied, Explicit(x)}
      BY <3>1, Zenon DEF KeyToken
    <3>2. Explicit(x).is = "explicit"
      BY Zenon DEF Explicit
    <3> QED
      BY <1>9, <3>1, <3>2, TokenFields
  <2>7. CASE near58
    BY <1>2, <1>6, <2>2, <2>4, <2>7 DEF t
  <2>8. CASE ~near58
    BY <1>2, <2>2, <2>4, <2>5, <2>6, <2>8 DEF t
  <2> QED
    BY <2>7, <2>8
<1> QED
  BY <1>7, <1>8, <1>9 DEF t

BadChar == [is |-> "char", class |-> "bad"]

(* Any other token is in packed form exactly where it is the one that pack *)
(* writes.                                                                 *)
LEMMA OtherForm ==
  ASSUME NEW text, NEW tokens, NEW u, NEW p, NEW i, NEW near58, NEW nearHex,
         AtItem(text, tokens, u, p, i, near58, nearHex),
         tokens[i].is \in {"hex", "children", "spelled", "broken"},
         text[i] # BadChar
  PROVE  InPackedForm(tokens, i) <=> tokens[i] = PackedAs(text, p, i)
<1> DEFINE x == text[i]
           t == tokens[i]
<1>1. /\ u \in ReadStates /\ t \in TokenShapes /\ x \in Read(u, t) /\ x \in ItemShapes
      /\ near58 \in BOOLEAN /\ nearHex \in BOOLEAN
      /\ near58 <=> TouchesBase58(tokens, i)
      /\ nearHex <=> TouchesHex(tokens, i)
  BY DEF AtItem
<1>2. /\ x.is = "origin" => PackedAs(text, p, i) = OriginOf(x.path, p)
      /\ x.is = "key" /\ ~near58 =>
             PackedAs(text, p, i) = KeyToken(x, p.path, AfterOrigin(p, i))
      /\ x.is = "key" /\ near58 => PackedAs(text, p, i) = Spelled(x)
      /\ x.is = "hex" /\ ~nearHex => PackedAs(text, p, i) = HexToken
      /\ x.is = "hex" /\ nearHex => PackedAs(text, p, i) = Spelled(x)
      /\ x.is = "children" => PackedAs(text, p, i) = ChildrenToken
      /\ x.is = "char" => PackedAs(text, p, i) = Spelled(x)
  BY PackedByKind DEF AtItem
<1> HIDE DEF x, t
<1>3. CASE t.is = "hex"
  <2>1. t = HexToken
    BY <1>1, <1>3, TokenIs
  <2>2. x.is = "hex"
    <3>1. Read(u, t) = {OtherItem("hex")} /\ OtherItem("hex").is = "hex"
      BY <2>1, ReadOther, ItemFields
    <3> QED
      BY <1>1, <3>1
  <2>3. InPackedForm(tokens, i) <=> ~nearHex
    BY <1>1, <1>3 DEF InPackedForm, t
  <2>4. Spelled(x) # t
    BY <1>3, TokenFields
  <2>5. CASE nearHex
    BY <1>2, <2>2, <2>3, <2>4, <2>5 DEF t
  <2>6. CASE ~nearHex
    BY <1>2, <2>1, <2>2, <2>3, <2>6 DEF t
  <2> QED
    BY <2>5, <2>6
<1>4. CASE t.is = "children"
  <2>1. t = ChildrenToken
    BY <1>1, <1>4, TokenIs
  <2>2. x.is = "children"
    <3>1. Read(u, t) = {OtherItem("children")} /\ OtherItem("children").is = "children"
      BY <2>1, ReadOther, ItemFields
    <3> QED
      BY <1>1, <3>1
  <2>3. InPackedForm(tokens, i)
    BY <1>4 DEF InPackedForm, t
  <2> QED
    BY <1>2, <2>1, <2>2, <2>3 DEF t
<1>5. CASE t.is = "spelled"
  <2>1. PICK y \in ItemShapes : t = Spelled(y)
    BY <1>1, <1>5, TokenIs
  <2>2. x = y /\ t = Spelled(x)
    <3>1. Read(u, t) = {y}
      BY <2>1, ReadSpelled
    <3> QED
      BY <1>1, <2>1, <3>1
  <2>3. t.item = x
    <3>1. Spelled(x).item = x
      BY Zenon DEF Spelled
    <3> QED
      BY <2>2, <3>1, Zenon
  <2>4. InPackedForm(tokens, i) <=>
            \/ x.is = "char" /\ x.class # "bad"
            \/ x.is = "key" /\ near58
            \/ x.is = "hex" /\ nearHex
    BY <1>1, <1>5, <2>3 DEF InPackedForm, t
  <2>5. x.is = "char" => x.class # "bad"
    <3> SUFFICES ASSUME x.is = "char", x.class = "bad" PROVE FALSE
      OBVIOUS
    <3>1. x = Char(x.class)
      BY <1>1, ItemIs
    <3>2. x = Char("bad")
      BY <3>1
    <3> QED
      BY <3>2 DEF x, Char, BadChar
  <2>6. CASE x.is = "char"
    BY <1>2, <2>2, <2>4, <2>5, <2>6 DEF t
  <2>7. CASE x.is = "origin"
    <3>1. OriginOf(x.path, p) \in {Same, OriginToken(x.path, FALSE)}
      BY DEF OriginOf
    <3>2. OriginToken(x.path, FALSE).is = "origin"
      BY Zenon DEF OriginToken
    <3>3. OriginOf(x.path, p) # t
      BY <1>5, <3>1, <3>2, TokenFields
    <3> QED
      BY <1>2, <2>4, <2>7, <3>3 DEF t
  <2>8. CASE x.is = "key" /\ near58
    BY <1>2, <2>2, <2>4, <2>8 DEF t
  <2>9. CASE x.is = "key" /\ ~near58
    <3>1. KeyToken(x, p.path, AfterOrigin(p, i)) \in {Generic(x), Implied, Explicit(x)}
      BY DEF KeyToken
    <3>2. Explicit(x).is = "explicit" /\ Generic(x).is = "generic"
      BY Zenon DEF Explicit, Generic
    <3>3. KeyToken(x, p.path, AfterOrigin(p, i)) # t
      BY <1>5, <3>1, <3>2, TokenFields
    <3> QED
      BY <1>2, <2>4, <2>9, <3>3 DEF t
  <2>10. CASE x.is = "hex" /\ nearHex
    BY <1>2, <2>2, <2>4, <2>10 DEF t
  <2>11. CASE x.is = "hex" /\ ~nearHex
    <3>1. HexToken # t
      BY <1>5, TokenFields
    <3> QED
      BY <1>2, <2>4, <2>11, <3>1 DEF t
  <2>12. CASE x.is = "children"
    <3>1. ChildrenToken # t
      BY <1>5, TokenFields
    <3> QED
      BY <1>2, <2>4, <2>12, <3>1 DEF t
  <2> QED
    BY <1>1, <2>6, <2>7, <2>8, <2>9, <2>10, <2>11, <2>12, ItemIs
<1>6. CASE t.is = "broken"
  <2>1. t = Broken
    BY <1>1, <1>6, TokenIs
  <2>2. Read(u, t) = {}
    BY <2>1, ReadOther
  <2> QED
    BY <1>1, <2>2
<1> QED
  BY <1>3, <1>4, <1>5, <1>6 DEF t

(* A token that was read is in packed form exactly when it is what Pack    *)
(* makes of its item.                                                      *)
LEMMA FormIsPacked ==
  ASSUME NEW text, NEW tokens, NEW u, NEW p, NEW i, NEW near58, NEW nearHex,
         AtItem(text, tokens, u, p, i, near58, nearHex), text[i] # BadChar
  PROVE  InPackedForm(tokens, i) <=> tokens[i] = PackedAs(text, p, i)
<1>1. tokens[i] \in TokenShapes
  BY DEF AtItem
<1>2. tokens[i].is \in {"origin", "same"} \/ tokens[i].is \in {"implied", "explicit", "generic"}
      \/ tokens[i].is \in {"hex", "children", "spelled", "broken"}
  BY <1>1, TokenIs
<1> QED
  BY <1>2, OriginForm, KeyForm, OtherForm

(* A token in packed form reads as an item of some text.                   *)
LEMMA FormReads ==
  ASSUME NEW tokens, NEW i \in Nat \ {0}, NEW u \in ReadStates, Tells(u, tokens, i - 1),
         tokens[i] \in TokenShapes, InPackedForm(tokens, i)
  PROVE  /\ Read(u, tokens[i]) # {}
         /\ \A x \in Read(u, tokens[i]) : x # BadChar
<1> DEFINE t == tokens[i]
<1>1. /\ u.haveOrigin => PathBefore(tokens, i) = {u.path}
      /\ ~u.haveOrigin => PathBefore(tokens, i) = {}
      /\ IsOrigin(tokens, i - 1) <=> u.afterOrigin
      /\ u.afterOrigin => u.haveOrigin
  <2>1. i - 1 + 1 = i
    OBVIOUS
  <2> QED
    BY <2>1, Zenon DEF Tells
<1>2. BadChar.is = "char" /\ BadChar.class = "bad"
  BY Zenon DEF BadChar
<1>3. CASE t.is = "same"
  <2>1. t = Same /\ PathBefore(tokens, i) # {}
    BY <1>3, TokenIs DEF InPackedForm
  <2>2. u.haveOrigin
    BY <1>1, <2>1
  <2>3. Read(u, t) = {Origin(u.path)} /\ Origin(u.path).is = "origin"
    BY <2>1, <2>2, ReadSame, ItemFields
  <2> QED
    BY <1>2, <2>3
<1>4. CASE t.is = "implied"
  <2>1. t = Implied /\ IsOrigin(tokens, i - 1) /\ \A q \in PathBefore(tokens, i) : q.n <= 255
    BY <1>4, TokenIs DEF InPackedForm
  <2>2. u.afterOrigin
    BY <1>1, <2>1
  <2>3. u.path.n <= 255
    BY <1>1, <2>1, <2>2
  <2>4. Read(u, Implied) = {Key(TRUE, u.path.n, u.path.last)}
    BY <2>2, <2>3, ReadImplied
  <2>5. Key(TRUE, u.path.n, u.path.last).is = "key"
    BY Zenon DEF Key
  <2> HIDE DEF t
  <2> QED
    BY <1>2, <2>1, <2>4, <2>5 DEF t
<1>5. CASE t.is \notin {"same", "implied"}
  <2>1. Read(u, t) # {}
    <3>1. t.is # "broken"
      BY DEF InPackedForm
    <3>2. t.is \in {"spelled", "origin", "explicit", "generic", "hex", "children"}
      BY <1>5, <3>1, TokenIs
    <3> QED
      BY <3>2 DEF Read
  <2>2. ASSUME NEW x \in Read(u, t) PROVE x # BadChar
    <3>1. CASE t.is = "spelled"
      <4>1. x = t.item
        BY <3>1, ReadKind
      <4>2. t.item.is = "char" => t.item.class # "bad"
        BY <3>1 DEF InPackedForm
      <4> QED
        BY <1>2, <4>1, <4>2
    <3>2. CASE t.is # "spelled"
      <4>1. x.is # "char"
        BY <3>2, ReadKind, TokenIs
      <4> QED
        BY <1>2, <4>1
    <3> QED
      BY <3>1, <3>2
  <2> QED
    BY <2>1, <2>2
<1> QED
  BY <1>3, <1>4, <1>5

(* An error stays to the last token.                                       *)
LEMMA ErrorStays ==
  ASSUME NEW tokens \in Seq(TokenShapes), NEW u, IsReading(u, tokens),
         NEW a \in 0 .. Len(tokens), u[a].error # "none"
  PROVE  u[Len(tokens)].error = u[a].error
<1> DEFINE n == Len(tokens)
           Done == {i \in 0 .. n : i < a \/ u[i] = u[a]}
<1>0. n \in Nat /\ a \in 0 .. n
  OBVIOUS
<1>1. 0 \in Done
  <2>1. 0 < a \/ 0 = a
    BY <1>0
  <2> QED
    BY <1>0, <2>1
<1>2. ASSUME NEW i \in 1 .. n, i - 1 \in Done PROVE i \in Done
  <2>1. CASE i < a \/ i = a
    BY <2>1
  <2>2. CASE i > a
    <3>1. u[i - 1] = u[a]
      BY <1>0, <1>2, <2>2
    <3>2. u[i - 1] \in ReadStates
      <4>1. i - 1 \in 0 .. n
        BY <1>0
      <4> QED
        BY <4>1 DEF IsReading
    <3>3. u[i] = UnpackNext(tokens, u[i - 1], tokens[i])
      BY DEF IsReading
    <3>4. u[i - 1].error # "none"
      BY <3>1
    <3>5. UnpackNext(tokens, u[i - 1], tokens[i]) = u[i - 1]
      BY <3>2, <3>4, UnpackNextFails
    <3> QED
      BY <1>0, <3>1, <3>3, <3>5
  <2> QED
    BY <1>0, <2>1, <2>2
<1>3. \A i \in 0 .. n : i \in Done
  <2> HIDE DEF Done, n
  <2> QED
    BY <1>0, <1>1, <1>2, Rounds
<1>4. n \in 0 .. n /\ ~(n < a)
  BY <1>0
<1> QED
  BY <1>3, <1>4

(* The text that was read without an error, behind i tokens.               *)
ReadWell(u, tokens, i) ==
    /\ u[i].error = "none"
    /\ Len(u[i].out) = i
    /\ \A j \in 1 .. i : u[i].out[j] \in Read(u[j - 1], tokens[j])
    /\ Tells(u[i], tokens, i)

(* Before the first token nothing went wrong.                              *)
LEMMA ReadWellAtFirst ==
  ASSUME NEW tokens \in Seq(TokenShapes), NEW u, IsReading(u, tokens)
  PROVE  ReadWell(u, tokens, 0)
<1>1. u[0] = ReadStart
  BY DEF IsReading
<1>2. Len(<<>>) = 0
  OBVIOUS
<1>3. u[0].error = "none" /\ Len(u[0].out) = 0
  BY <1>1, <1>2, ReadStartIsState, Zenon
<1>4. Tells(u[0], tokens, 0)
  BY <1>1, TellsAtFirst
<1>5. 1 .. 0 = {}
  OBVIOUS
<1> QED
  BY <1>3, <1>4, <1>5, Zenon DEF ReadWell

ReadsOn(u, tokens, i) == Read(u[i - 1], tokens[i]) # {} /\ u[i].error # "too long"

(* Where token i reads on, so far nothing went wrong.                      *)
LEMMA ReadWellOn ==
  ASSUME NEW tokens \in Seq(TokenShapes), NEW u, IsReading(u, tokens),
         NEW i \in 1 .. Len(tokens), ReadWell(u, tokens, i - 1),
         ReadsOn(u, tokens, i)
  PROVE  ReadWell(u, tokens, i)
<1>0. i \in Nat \ {0} /\ tokens[i] \in TokenShapes /\ i - 1 \in 0 .. Len(tokens)
  <2>1. Len(tokens) \in Nat
    OBVIOUS
  <2> QED
    BY <2>1
<1> DEFINE r == u[i - 1]
           t == tokens[i]
           v == u[i]
<1>1. r \in ReadStates /\ t \in TokenShapes /\ i \in Nat \ {0}
  <2>1. r \in ReadStates
    BY <1>0 DEF IsReading
  <2> QED
    BY <1>0, <2>1
<1>2. v = UnpackNext(tokens, r, t)
  BY DEF IsReading
<1>3. PICK x : x \in Read(r, t)
  BY DEF ReadsOn
<1>4. /\ r.error = "none" /\ Len(r.out) = i - 1
      /\ \A j \in 1 .. i - 1 : r.out[j] \in Read(u[j - 1], tokens[j])
      /\ Tells(r, tokens, i - 1)
  BY Zenon DEF ReadWell
<1> DEFINE w == UnpackNext(tokens, r, t)
<1>5. /\ w.out = Append(r.out, x)
      /\ TooLong(w.out, tokens) => w.error = "too long"
      /\ ~TooLong(w.out, tokens) => w.error = "none"
  <2> HIDE DEF r, t
  <2>1. r \in ReadStates /\ t \in TokenShapes /\ r.error = "none" /\ x \in Read(r, t)
    BY <1>1, <1>3, <1>4
  <2> QED
    BY <2>1, UnpackNextReads, Zenon
<1>6. Tells(w, tokens, i)
  <2> USE DEF r, t, w
  <2> QED
    BY <1>1, <1>3, <1>4, TellsOn
<1> HIDE DEF r, t, w
<1>7. v.error = "none" /\ v.out = Append(r.out, x)
  <2>1. v.error # "too long"
    BY DEF ReadsOn
  <2> HIDE DEF v
  <2> QED
    BY <1>2, <1>5, <2>1 DEF w
<1>8. x \in ItemShapes /\ r.out \in Seq(ItemShapes)
  BY <1>1, <1>3, ReadOne, ReadStateFields
<1>9. Len(v.out) = i /\ v.out[i] = x /\ \A j \in 1 .. i - 1 : v.out[j] = r.out[j]
  <2> HIDE DEF v
  <2> QED
    BY <1>1, <1>4, <1>7, <1>8
<1>10. ASSUME NEW j \in 1 .. i PROVE v.out[j] \in Read(u[j - 1], tokens[j])
  <2>1. CASE j = i
    BY <1>3, <1>9, <2>1 DEF r, t
  <2>2. CASE j # i
    <3>1. j \in 1 .. i - 1
      BY <1>1, <2>2
    <3> QED
      BY <1>4, <1>9, <3>1
  <2> QED
    BY <2>1, <2>2
<1>11. Tells(v, tokens, i)
  BY <1>2, <1>6 DEF w
<1> QED
  BY <1>7, <1>9, <1>10, <1>11, Zenon DEF ReadWell

(* Where every token reads on, the tokens are read whole.                  *)
LEMMA AllReadWell ==
  ASSUME NEW tokens \in Seq(TokenShapes), NEW u, IsReading(u, tokens),
         \A i \in 1 .. Len(tokens) : ReadWell(u, tokens, i - 1) => ReadsOn(u, tokens, i)
  PROVE  \A i \in 0 .. Len(tokens) : ReadWell(u, tokens, i)
<1> DEFINE n == Len(tokens)
           Done == {i \in 0 .. n : ReadWell(u, tokens, i)}
<1>0. n \in Nat /\ 0 \in 0 .. n
  OBVIOUS
<1>1. 0 \in Done
  BY <1>0, ReadWellAtFirst
<1>2. ASSUME NEW i \in 1 .. n, i - 1 \in Done PROVE i \in Done
  <2>1. ReadWell(u, tokens, i - 1)
    BY <1>2
  <2>2. ReadsOn(u, tokens, i)
    BY <2>1
  <2>3. ReadWell(u, tokens, i)
    BY <2>1, <2>2, ReadWellOn
  <2>4. i \in 0 .. n
    BY <1>0
  <2> QED
    BY <2>3, <2>4
<1>3. \A i \in 0 .. n : i \in Done
  <2> HIDE DEF Done, n
  <2> QED
    BY <1>0, <1>1, <1>2, Rounds
<1> QED
  BY <1>3

\* A text that was read whole, and what Pack makes of it.
WholeText(text, tokens, u, p) ==
    /\ tokens \in Seq(TokenShapes) /\ text \in Seq(ItemShapes)
    /\ Len(text) = Len(tokens)
    /\ IsReading(u, tokens) /\ IsPacking(p, text)
    /\ \A i \in 0 .. Len(tokens) : ReadWell(u, tokens, i)
    /\ ItemsOf(text, tokens, u)
    /\ Readable(text)

(* Where the loops follow one another, item i and token i are what         *)
(* FormIsPacked is about.                                                  *)
LEMMA WholeIsAtItem ==
  ASSUME NEW text, NEW tokens, NEW u, NEW p, WholeText(text, tokens, u, p),
         NEW i \in 1 .. Len(tokens), Follows(u[i - 1], p[i - 1], i - 1)
  PROVE  /\ \E a, b : AtItem(text, tokens, u[i - 1], p[i - 1], i, a, b)
         /\ text[i] # BadChar
         /\ u[i - 1].error = "none"
<1> DEFINE n == Len(tokens)
           near58 == \E x \in Neighbours(text, i) : Base58(x)
           nearHex == \E x \in Neighbours(text, i) : HexDigit(x)
<1>1. tokens \in Seq(TokenShapes) /\ text \in Seq(ItemShapes) /\ Len(text) = n
  BY DEF WholeText
<1>2. /\ n \in Nat /\ i - 1 \in 0 .. n /\ i \in Nat \ {0} /\ i - 1 + 1 = i
      /\ text[i] \in ItemShapes /\ tokens[i] \in TokenShapes /\ i \in DOMAIN text
  <2>1. n \in Nat
    BY <1>1
  <2>2. i - 1 \in 0 .. n /\ i \in Nat \ {0} /\ i - 1 + 1 = i
    BY <2>1
  <2>3. i \in DOMAIN text
    BY <1>1, <2>1
  <2> QED
    BY <1>1, <2>1, <2>2, <2>3
<1>3. u[i - 1] \in ReadStates /\ p[i - 1] \in PackStates
  BY <1>1, <1>2 DEF WholeText, IsReading, IsPacking
<1>4. ReadWell(u, tokens, i - 1)
  BY <1>2 DEF WholeText
<1>5. Tells(u[i - 1], tokens, i - 1) /\ u[i - 1].error = "none"
  BY <1>4, Zenon DEF ReadWell
<1>6. text[i] \in Read(u[i - 1], tokens[i])
  BY <1>1 DEF WholeText, ItemsOf
<1>7. text[i] # BadChar
  BY <1>2 DEF WholeText, Readable, BadChar
<1>8. (near58 <=> TouchesBase58(tokens, i)) /\ (nearHex <=> TouchesHex(tokens, i))
  BY <1>1, SameNeighbours DEF WholeText
<1>9. near58 \in BOOLEAN /\ nearHex \in BOOLEAN
  OBVIOUS
<1>10. AtItem(text, tokens, u[i - 1], p[i - 1], i, near58, nearHex)
  BY <1>2, <1>3, <1>5, <1>6, <1>8, <1>9, Zenon DEF AtItem
<1> QED
  BY <1>5, <1>7, <1>10

(* In a text that was read whole, the tokens up to the next in packed form *)
(* are those that Pack makes, and so is the next one.                      *)
LEMMA WholeGoesOn ==
  ASSUME NEW text, NEW tokens, NEW u, NEW p, WholeText(text, tokens, u, p),
         NEW i \in 1 .. Len(tokens), Follows(u[i - 1], p[i - 1], i - 1)
  PROVE  /\ InPackedForm(tokens, i) <=> tokens[i] = PackedAs(text, p[i - 1], i)
         /\ tokens[i] = PackedAs(text, p[i - 1], i) => Follows(u[i], p[i], i)
<1> DEFINE r == u[i - 1]
           q == p[i - 1]
           t == tokens[i]
<1>1. PICK a, b : AtItem(text, tokens, r, q, i, a, b)
  BY WholeIsAtItem
<1>2. text[i] # BadChar /\ r.error = "none"
  BY WholeIsAtItem
<1>3. /\ r \in ReadStates /\ q \in PackStates /\ t \in TokenShapes
      /\ text[i] \in Read(r, t) /\ i \in Nat \ {0}
  BY <1>1 DEF AtItem
<1>4. Follows(r, q, i - 1)
  OBVIOUS
<1>5. text \in Seq(ItemShapes) /\ i \in 1 .. Len(text)
  BY DEF WholeText
<1>6. u[i] = UnpackNext(tokens, r, t) /\ p[i] = PackNext(text, q, i)
  BY <1>5 DEF WholeText, IsReading, IsPacking
<1> HIDE DEF r, q
<1>7. InPackedForm(tokens, i) <=> t = PackedAs(text, q, i)
  BY <1>1, <1>2, FormIsPacked
<1> HIDE DEF t
<1>8. ASSUME t = PackedAs(text, q, i) PROVE Follows(u[i], p[i], i)
  <2>1. IsOriginToken(t) <=> text[i].is = "origin"
    BY <1>3, <1>4, <1>5, <1>8, PackedReadsBack
  <2>2. Follows(UnpackNext(tokens, r, t), PackNext(text, q, i), i)
    BY <1>2, <1>3, <1>4, <2>1, FollowsOn
  <2> QED
    BY <1>6, <2>2
<1> QED
  BY <1>7, <1>8 DEF r, q, t

(* A text that was read whole is packed to the same tokens exactly when    *)
(* all of them are in packed form.                                         *)
LEMMA FormOfWhole ==
  ASSUME NEW text, NEW tokens, NEW u, NEW p, WholeText(text, tokens, u, p)
  PROVE  (\A i \in 1 .. Len(tokens) : InPackedForm(tokens, i)) <=> p[Len(text)].out = tokens
<1> DEFINE n == Len(tokens)
           Formed(i) == InPackedForm(tokens, i)
           Packed(i) == tokens[i] = PackedAs(text, p[i - 1], i)
           Done == {i \in 0 .. n : Follows(u[i], p[i], i)}
<1>0. tokens \in Seq(TokenShapes) /\ text \in Seq(ItemShapes) /\ Len(text) = n
  BY DEF WholeText
<1>1. n \in Nat /\ 0 \in 0 .. n /\ n \in 0 .. n
  BY <1>0
<1>2. p[n].out = tokens <=> \A i \in 1 .. n : Packed(i)
  <2> DEFINE out == p[n].out
  <2>1. Len(out) = n /\ \A j \in 1 .. n : out[j] = PackedAs(text, p[j - 1], j)
    BY <1>0, <1>1, PackedTokens DEF WholeText
  <2>2. out \in Seq(TokenShapes)
    <3>1. p[n] \in PackStates
      BY <1>0, <1>1 DEF WholeText, IsPacking
    <3> QED
      BY <3>1, PackStateFields
  <2> HIDE DEF out
  <2>3. ASSUME out = tokens PROVE \A i \in 1 .. n : Packed(i)
    BY <2>1, <2>3
  <2>4. ASSUME \A i \in 1 .. n : Packed(i) PROVE out = tokens
    <3>1. \A i \in 1 .. n : out[i] = tokens[i]
      BY <2>1, <2>4
    <3> QED
      BY <1>0, <2>1, <2>2, <3>1
  <2> QED
    BY <2>3, <2>4 DEF out
<1>3. Follows(u[0], p[0], 0)
  <2>1. u[0] = ReadStart /\ p[0] = PackStart
    BY DEF WholeText, IsReading, IsPacking
  <2> QED
    BY <2>1, FollowsAtFirst, Zenon
<1>4. \A i \in 1 .. n : Follows(u[i - 1], p[i - 1], i - 1) =>
          (Formed(i) <=> Packed(i)) /\ (Packed(i) => Follows(u[i], p[i], i))
  BY WholeGoesOn
<1> HIDE DEF Formed, Packed
<1>5. ASSUME \A i \in 1 .. n : Formed(i) \/ Packed(i)
      PROVE  \A i \in 1 .. n : Formed(i) <=> Packed(i)
  <2>1. 0 \in Done
    BY <1>1, <1>3
  <2>2. ASSUME NEW i \in 1 .. n, i - 1 \in Done PROVE i \in Done
    <3>1. Follows(u[i - 1], p[i - 1], i - 1)
      BY <2>2
    <3>2. Follows(u[i], p[i], i)
      BY <1>4, <1>5, <3>1, Zenon
    <3>3. i \in 0 .. n
      BY <1>1
    <3> QED
      BY <3>2, <3>3
  <2>3. \A i \in 0 .. n : i \in Done
    <3> HIDE DEF Done, n
    <3> QED
      BY <1>1, <2>1, <2>2, Rounds
  <2>4. ASSUME NEW i \in 1 .. n PROVE Formed(i) <=> Packed(i)
    <3>1. i - 1 \in 0 .. n
      BY <1>1
    <3>2. Follows(u[i - 1], p[i - 1], i - 1)
      BY <2>3, <3>1
    <3> QED
      BY <1>4, <3>2, Zenon
  <2> QED
    BY <2>4
<1>6. (\A i \in 1 .. n : Formed(i)) <=> \A i \in 1 .. n : Packed(i)
  BY <1>5, Zenon
<1> QED
  BY <1>0, <1>2, <1>6 DEF Formed, n

(* The reading does not end because the text is too long.                  *)
EndsWithin(u, tokens) == u[Len(tokens)].error # "too long"

(* Tokens that are all in packed form are read whole, or up to where they  *)
(* are too long.                                                           *)
LEMMA FormedReadsOn ==
  ASSUME NEW tokens \in Seq(TokenShapes), NEW u, IsReading(u, tokens),
         NEW i \in 1 .. Len(tokens), ReadWell(u, tokens, i - 1), InPackedForm(tokens, i),
         EndsWithin(u, tokens)
  PROVE  ReadsOn(u, tokens, i)
<1>1. i \in Nat \ {0} /\ i \in 0 .. Len(tokens) /\ i - 1 \in 0 .. Len(tokens)
  OBVIOUS
<1>2. u[i - 1] \in ReadStates /\ tokens[i] \in TokenShapes
  BY <1>1 DEF IsReading
<1>3. Tells(u[i - 1], tokens, i - 1)
  BY Zenon DEF ReadWell
<1>4. Read(u[i - 1], tokens[i]) # {}
  BY <1>1, <1>2, <1>3, FormReads
<1>5. u[i].error # "too long"
  <2> SUFFICES ASSUME u[i].error = "too long" PROVE FALSE
    OBVIOUS
  <2>1. u[i].error # "none"
    OBVIOUS
  <2>2. u[Len(tokens)].error = u[i].error
    BY <1>1, <2>1, ErrorStays
  <2> QED
    BY <2>2, Zenon DEF EndsWithin
<1> QED
  BY <1>4, <1>5, Zenon DEF ReadsOn

(* The reading ends with no error.                                         *)
EndsWell(u, tokens) == u[Len(tokens)].error = "none"

(* Where the reading ends with no error, every token was read.             *)
LEMMA ReadToTheEnd ==
  ASSUME NEW tokens \in Seq(TokenShapes), NEW u, IsReading(u, tokens),
         NEW i \in 1 .. Len(tokens), ReadWell(u, tokens, i - 1), EndsWell(u, tokens)
  PROVE  ReadsOn(u, tokens, i)
<1>1. i \in Nat \ {0} /\ i \in 0 .. Len(tokens) /\ i - 1 \in 0 .. Len(tokens)
  OBVIOUS
<1>2. u[i - 1] \in ReadStates
  BY <1>1 DEF IsReading
<1>3. u[i].error = "none"
  <2>1. u[i].error # "none" => u[Len(tokens)].error = u[i].error
    BY <1>1, ErrorStays
  <2> QED
    BY <2>1, Zenon DEF EndsWell
<1>4. u[i - 1].error = "none"
  BY Zenon DEF ReadWell
<1>5. u[i] = UnpackNext(tokens, u[i - 1], tokens[i])
  BY <1>1 DEF IsReading
<1>6. Read(u[i - 1], tokens[i]) # {}
  <2> SUFFICES ASSUME Read(u[i - 1], tokens[i]) = {} PROVE FALSE
    OBVIOUS
  <2>1. UnpackNext(tokens, u[i - 1], tokens[i]).error = "invalid"
    BY <1>2, <1>4, UnpackNextFails
  <2>2. u[i].error = "invalid"
    BY <1>5, <2>1, Zenon
  <2> QED
    BY <1>3, <2>2
<1>7. u[i].error # "too long"
  BY <1>3
<1> QED
  BY <1>6, <1>7, Zenon DEF ReadsOn

(* Unpack takes the tokens in packed form and no others.                   *)
LEMMA TakenIsFormed ==
  ASSUME NEW tokens \in Seq(TokenShapes)
  PROVE  Unpack(tokens).error = "none" <=>
            /\ \A i \in DOMAIN tokens : InPackedForm(tokens, i)
            /\ Unpack(tokens).error # "too long"
<1> DEFINE n == Len(tokens)
           Formed == \A i \in 1 .. n : InPackedForm(tokens, i)
           end == ReadAll(tokens)
           text == end.out
<1>0. n \in Nat /\ n \in 0 .. n /\ DOMAIN tokens = 1 .. n
  OBVIOUS
<1>1. PICK u : IsReading(u, tokens) /\ end = u[n]
  BY ReadIsLoop
<1>2. end \in ReadStates
  BY <1>0, <1>1 DEF IsReading
<1>3. end.error \in {"none", "invalid", "too long"} /\ text \in Seq(ItemShapes)
  BY <1>2, ReadStateFields
<1>4. /\ end.error # "none" => Unpack(tokens).error = end.error
      /\ end.error = "none" /\ ~Readable(text) => Unpack(tokens).error = "invalid"
      /\ end.error = "none" /\ Readable(text) /\ PackText(text) # tokens =>
             Unpack(tokens).error = "not packed"
      /\ end.error = "none" /\ Readable(text) /\ PackText(text) = tokens =>
             Unpack(tokens).error = "none"
  <2>1. CASE end.error # "none"
    <3>1. Unpack(tokens) = Refused(end.error)
      BY <2>1, Zenon DEF Unpack
    <3> QED
      BY <2>1, <3>1, Answers, Zenon
  <2>2. CASE end.error = "none" /\ ~Readable(text)
    <3>1. Unpack(tokens) = Refused("invalid")
      BY <2>2, Zenon DEF Unpack
    <3> QED
      BY <2>2, <3>1, Answers, Zenon
  <2>3. CASE end.error = "none" /\ Readable(text) /\ PackText(text) # tokens
    <3>1. Unpack(tokens) = Refused("not packed")
      BY <2>3, Zenon DEF Unpack
    <3> QED
      BY <2>3, <3>1, Answers, Zenon
  <2>4. CASE end.error = "none" /\ Readable(text) /\ PackText(text) = tokens
    <3>1. Unpack(tokens) = Given(text)
      BY <2>4, Zenon DEF Unpack
    <3> QED
      BY <2>4, <3>1, Answers, Zenon
  <2> QED
    BY <2>1, <2>2, <2>3, <2>4
<1>5. ASSUME end.error # "too long", Formed \/ end.error = "none"
      PROVE  \A i \in 0 .. n : ReadWell(u, tokens, i)
  <2>1. EndsWithin(u, tokens)
    <3> HIDE DEF end
    <3> QED
      BY <1>1, <1>5, Zenon DEF EndsWithin, n
  <2>2. ASSUME NEW i \in 1 .. n, ReadWell(u, tokens, i - 1) PROVE ReadsOn(u, tokens, i)
    <3>1. CASE Formed
      <4>1. InPackedForm(tokens, i)
        BY <3>1
      <4> QED
        BY <1>1, <2>1, <2>2, <4>1, FormedReadsOn
    <3>2. CASE end.error = "none"
      <4>1. EndsWell(u, tokens)
        <5> HIDE DEF end
        <5> QED
          BY <1>1, <3>2, Zenon DEF EndsWell, n
      <4> QED
        BY <1>1, <2>2, <4>1, ReadToTheEnd
    <3> QED
      BY <1>5, <3>1, <3>2
  <2> QED
    BY <1>1, <2>2, AllReadWell
<1> HIDE DEF end, Formed
<1>6. CASE end.error = "too long"
  BY <1>4, <1>6
<1>7. CASE end.error = "invalid"
  <2>1. ~Formed
    <3> SUFFICES ASSUME Formed PROVE FALSE
      OBVIOUS
    <3>1. ReadWell(u, tokens, n)
      BY <1>0, <1>5, <1>7
    <3>2. u[n].error = "none"
      BY <3>1, Zenon DEF ReadWell
    <3> QED
      BY <1>1, <1>7, <3>2
  <2> QED
    BY <1>0, <1>4, <1>7, <2>1 DEF Formed
<1>8. CASE end.error = "none"
  <2>1. \A i \in 0 .. n : ReadWell(u, tokens, i)
    BY <1>5, <1>8
  <2>2. Len(text) = n /\ \A i \in 1 .. n : text[i] \in Read(u[i - 1], tokens[i])
    <3>1. ReadWell(u, tokens, n)
      BY <1>0, <2>1
    <3> HIDE DEF n
    <3> QED
      BY <1>1, <3>1, Zenon DEF ReadWell
  <2>3. ItemsOf(text, tokens, u)
    BY <2>2 DEF ItemsOf
  <2>4. Formed => Readable(text)
    <3> SUFFICES ASSUME Formed PROVE Readable(text)
      OBVIOUS
    <3>1. ASSUME NEW i \in 1 .. n PROVE text[i] # BadChar
      <4>1. i \in Nat \ {0} /\ i - 1 \in 0 .. n /\ tokens[i] \in TokenShapes
        BY <1>0
      <4>2. u[i - 1] \in ReadStates
        BY <1>1, <4>1 DEF IsReading
      <4>3. Tells(u[i - 1], tokens, i - 1)
        <5>1. ReadWell(u, tokens, i - 1)
          BY <2>1, <4>1
        <5> QED
          BY <5>1, Zenon DEF ReadWell
      <4>4. InPackedForm(tokens, i)
        BY DEF Formed
      <4>5. \A x \in Read(u[i - 1], tokens[i]) : x # BadChar
        BY <4>1, <4>2, <4>3, <4>4, FormReads
      <4> QED
        BY <2>2, <4>5
    <3>2. DOMAIN text = 1 .. n
      <4>1. \A t \in Seq(ItemShapes) : DOMAIN t = 1 .. Len(t)
        OBVIOUS
      <4> HIDE DEF text, n
      <4> QED
        BY <1>3, <2>2, <4>1, Zenon
    <3> QED
      BY <3>1, <3>2 DEF Readable, BadChar
  <2>5. CASE ~Readable(text)
    BY <1>0, <1>4, <1>8, <2>4, <2>5 DEF Formed
  <2>6. CASE Readable(text)
    <3>1. PICK p : IsPacking(p, text) /\ PackText(text) = p[Len(text)].out
      BY <1>3, PackIsLoop
    <3>2. WholeText(text, tokens, u, p)
      BY <1>1, <1>3, <2>1, <2>2, <2>3, <2>6, <3>1 DEF WholeText
    <3>3. Formed <=> PackText(text) = tokens
      BY <3>1, <3>2, FormOfWhole DEF Formed
    <3> QED
      BY <1>0, <1>4, <1>8, <2>6, <3>3 DEF Formed
  <2> QED
    BY <2>5, <2>6
<1> QED
  BY <1>3, <1>6, <1>7, <1>8

-----------------------------------------------------------------------------
(* The payload *)

TypeOK == /\ made \in {"text", "tokens"}
          /\ made = "text" => payload \in Seq(Items)
          /\ made = "tokens" => payload \in Seq(Tokens)

(* A payload is a text of items or a sequence of tokens, of any length.    *)
THEOREM PayloadTypeCorrect == PayloadSpec => []TypeOK
<1>1. PayloadInit => TypeOK
  <2> SUFFICES ASSUME PayloadInit PROVE TypeOK
    OBVIOUS
  <2>1. <<>> \in Seq(Items) /\ <<>> \in Seq(Tokens)
    OBVIOUS
  <2> QED
    BY <2>1, Zenon DEF PayloadInit, TypeOK
<1>2. TypeOK /\ [PayloadNext]_payloadVars => TypeOK'
  <2> SUFFICES ASSUME TypeOK, [PayloadNext]_payloadVars PROVE TypeOK'
    OBVIOUS
  <2>1. CASE AddItem
    <3>1. made = "text" /\ made' = "text" /\ payload \in Seq(Items)
      BY <2>1 DEF TypeOK, AddItem
    <3>2. PICK i \in Items : payload' = Append(payload, i)
      BY <2>1 DEF AddItem
    <3> QED
      BY <3>1, <3>2 DEF TypeOK
  <2>2. CASE AddToken
    <3>1. made = "tokens" /\ made' = "tokens" /\ payload \in Seq(Tokens)
      BY <2>2 DEF TypeOK, AddToken
    <3>2. PICK t \in Tokens : payload' = Append(payload, t)
      BY <2>2 DEF AddToken
    <3> QED
      BY <3>1, <3>2 DEF TypeOK
  <2>3. CASE UNCHANGED payloadVars
    BY <2>3 DEF payloadVars, TypeOK
  <2> QED
    BY <2>1, <2>2, <2>3 DEF PayloadNext
<1> QED
  BY <1>1, <1>2, PTL DEF PayloadSpec

(* Every text that Pack takes is the one Unpack gives back, and Pack       *)
(* refuses for its length exactly the texts that Unpack would refuse:      *)
(* whatever the paths and keys, and however long the text.                 *)
THEOREM PackedTextReturns == PayloadSpec => []RoundTrip
<1>1. TypeOK => RoundTrip
  <2> SUFFICES ASSUME TypeOK, made = "text" PROVE RoundTrip
    BY DEF RoundTrip
  <2>1. payload \in Seq(ItemShapes)
    <3>1. payload \in Seq(Items)
      BY DEF TypeOK
    <3> QED
      BY <3>1, ItemsHaveShape
  <2> QED
    BY <2>1, TextReturns DEF RoundTrip
<1>2. PayloadSpec => []TypeOK
  BY PayloadTypeCorrect
<1> QED
  BY <1>1, <1>2, PTL

(* Whatever bytes a receiver is given, those it takes are the packed form  *)
(* of a text, token by token, and every packed form that is not too long   *)
(* is taken: whatever the paths and keys, and however many the tokens.     *)
THEOREM OneFormIsTaken == PayloadSpec => []OnePackedForm
<1>1. TypeOK => OnePackedForm
  <2> SUFFICES ASSUME TypeOK, made = "tokens" PROVE OnePackedForm
    BY DEF OnePackedForm
  <2>1. payload \in Seq(TokenShapes)
    <3>1. payload \in Seq(Tokens)
      BY DEF TypeOK
    <3> QED
      BY <3>1, TokensHaveShape
  <2> QED
    BY <2>1, TakenIsFormed DEF OnePackedForm
<1>2. PayloadSpec => []TypeOK
  BY PayloadTypeCorrect
<1> QED
  BY <1>1, <1>2, PTL
=============================================================================
