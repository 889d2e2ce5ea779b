--------------------------- MODULE Recover_proofs ---------------------------
(***************************************************************************)
(* Proofs about descbackup recover and replace, for every input and all    *)
(* values of the constants.  IInv is inductive: Types; Grouped, what the   *)
(* groups hold while they are made and after; LeftOut, what is reported    *)
(* as left out; Opening, from which shares each set was solved and with    *)
(* what right; Blamed, what is said of the shares of each set; and Ending, *)
(* what the command leaves behind.  Standing is inductive beside it: what  *)
(* became of each set so far, and the choices left for the one that is     *)
(* open, agree with the shares of it that the input holds.                 *)
(***************************************************************************)
EXTENDS Recover, ShareSets_proofs

Errors == {"ok", "id", "stopped", "content"}

Types ==
    /\ TypeOK
    /\ input \in Inputs
    /\ args \in [x : 1 .. 255, n : 0 .. 255]
    /\ groups \in Seq(Seq(DOMAIN input))
    /\ todo \in Seq(Seq(DOMAIN input))
    /\ opened \in [err : Errors \cup {"none", "too few"}, solving : Seq(DOMAIN input)]
    /\ results \in Seq([set : Nat, err : Errors, solving : Seq(DOMAIN input)])

\* What joins a group, and the set of a group.
Joins(p) == At(p) # Undecoded /\ Parses(At(p))
KeyOf(g) == At(groups[g][1]).set

Grouped ==
    /\ \A g \in DOMAIN groups : \A p \in ToSet(groups[g]) :
          Joins(p) /\ p < i /\ At(p).set = KeyOf(g)
    /\ \A p \in DOMAIN input : Joins(p) /\ p < i =>
          \E g \in DOMAIN groups : p \in ToSet(groups[g])
    /\ \A g, h \in DOMAIN groups : KeyOf(g) = KeyOf(h) => g = h
    /\ \A g \in DOMAIN groups : \A m, n \in DOMAIN groups[g] :
          m < n => groups[g][m] < groups[g][n]
    /\ \A g, h \in DOMAIN groups : g < h => groups[g][1] < groups[h][1]

FaultyAt == {p \in DOMAIN input : At(p) # Undecoded /\ ~Parses(At(p))}

LeftOut ==
    /\ pc = "group" => /\ ToSet(rejected) = {p \in FaultyAt : p < i}
                       /\ j = 1 /\ results = <<>>
    /\ pc # "group" => i = Len(input) + 1
    /\ \A p \in DOMAIN input :
          /\ At(p) = Undecoded /\ p < i => Says("undecoded", 0, p) \in said
          /\ Says("left out", 0, p) \in said
                <=> pc # "group" /\ p \in FaultyAt \cup DisputedAt

\* The shares a set may be solved from: those at undisputed x, and others of it.
From(c, ps) ==
    /\ ToSet(c) \subseteq ToSet(ps)
    /\ \A p \in ToSet(ps) : At(p).x \notin Disputed(GroupOf(ps)) => p \in ToSet(c)

\* The set of group g was opened with this error, from these shares.
Solved(err, c, g) ==
    /\ From(c, groups[g])
    /\ err \in {"ok", "content"} =>
          /\ Cardinality(RightXs(GroupOf(c))) >= K
          /\ (err = "ok") <=> (KeyOf(g) \in Descriptors)

Opening ==
    /\ pc \in {"choose", "report"} =>
          /\ j \in DOMAIN groups
          /\ opened.err # "none"
          /\ Solved(opened.err, opened.solving, j)
    /\ pc = "choose" => /\ opened.err = "too few"
                        /\ \A c \in ToSet(todo) : From(c, groups[j])
    /\ \A n \in DOMAIN results :
          /\ results[n].set \in DOMAIN groups /\ results[n].set < j
          /\ Solved(results[n].err, results[n].solving, results[n].set)
    /\ \A m, n \in DOMAIN results : m < n => results[m].set < results[n].set

\* Exactly the wrong shares of the set are blamed, and the right ones of differing texts named.
ExactIn(g) ==
    \A p \in ToSet(groups[g]) :
        /\ (Says("is wrong", g, p) \in said) <=> (At(p).text # Right)
        /\ (Says("is right", g, p) \in said)
              <=> (At(p).text = Right /\ At(p).x \in Disputed(GroupOf(groups[g])))

Blamed ==
    /\ \A n \in DOMAIN results : results[n].err = "ok" => ExactIn(results[n].set)
    /\ \A l \in said : l.kind \in {"is wrong", "is right"} => l.set \in 1 .. j - 1

\* What recover prints.
Printout == [r \in DOMAIN Recovered |-> [set |-> SetOf(Recovered[r]), x |-> 0, n |-> 0]]

Ending ==
    /\ (pc = "exited") <=> (exit # "none")
    /\ pc # "exited" => printed = <<>>
    /\ pc = "exited" => j = Len(groups) + 1
    /\ pc = "exited" /\ command = "recover" /\ input # <<>> =>
          /\ printed = Printout
          /\ (exit = "ok") <=> (results # <<>> /\ Recovered = results)
    /\ pc = "exited" /\ command = "replace" /\ printed # <<>> =>
          /\ Len(results) = 1 /\ results[1].err = "ok"
          /\ exit = "ok"
          /\ \E n \in {0} \cup K .. 255 :
                /\ n # 0 => args.x <= n
                /\ printed = <<[set |-> SetOf(results[1]), x |-> args.x, n |-> n]>>

IInv == Types /\ Grouped /\ LeftOut /\ Opening /\ Blamed /\ Ending

\* While the choices for the set s are tried, each can be solved, and with no
\* bound on work one that comes out is still among them if any did.
Choosing(s) ==
    /\ Cardinality(OneText(s)) < K
    /\ \A c \in ToSet(todo) : Cardinality(Undisputed(GroupOf(c))) >= K
    /\ todo # <<>> => NumberOfChoices(s) <= MaxChoices
    /\ \/ MayStop
       \/ Cardinality(RightHeld(s)) < K
       \/ NumberOfChoices(s) > MaxChoices
       \/ \E c \in ToSet(todo) : Cardinality(RightXs(GroupOf(c))) >= K

\* What has become of each set so far may become of its shares alone.
Standing ==
    pc # "group" => \A s \in Sets :
        /\ \A n \in DOMAIN results : KeyOf(results[n].set) = s => results[n].err \in Fitting(s)
        /\ \A g \in DOMAIN groups :
              /\ KeyOf(g) = s /\ g < j
              /\ \A n \in DOMAIN results : results[n].set # g
              => "too few" \in Fitting(s)
        /\ pc = "report" /\ KeyOf(j) = s => opened.err \in Fitting(s)
        /\ pc = "choose" /\ KeyOf(j) = s => Choosing(s)

-----------------------------------------------------------------------------
(* What a sequence over a set is, and one with another element behind it.  *)
LEMMA SeqHas ==
  ASSUME NEW T, NEW s \in Seq(T)
  PROVE  /\ Len(s) \in Nat /\ DOMAIN s = 1 .. Len(s)
         /\ \A n \in DOMAIN s : s[n] \in T
OBVIOUS

LEMMA SeqWiden ==
  ASSUME NEW S, NEW T, S \subseteq T, NEW s \in Seq(S)
  PROVE  s \in Seq(T)
OBVIOUS

LEMMA AppendHas ==
  ASSUME NEW T, NEW s \in Seq(T), NEW e \in T
  PROVE  /\ Append(s, e) \in Seq(T)
         /\ Len(Append(s, e)) = Len(s) + 1
         /\ DOMAIN Append(s, e) = 1 .. Len(s) + 1
         /\ \A n \in DOMAIN s : Append(s, e)[n] = s[n]
         /\ Append(s, e)[Len(s) + 1] = e
OBVIOUS

(* The positions that join a group are those of shares that pass step 1.   *)
LEMMA JoinsGood ==
  ASSUME input \in Inputs, NEW p \in DOMAIN input, Joins(p)
  PROVE  At(p) \in Good /\ At(p) \in Shares
<1>1. At(p) \in Shares \cup {Undecoded}
  BY InputsAssumption DEF At
<1>2. At(p) \in Good \/ At(p) \in Faulty
  BY <1>1 DEF Joins, Shares
<1>3. At(p) \notin Faulty
  BY FaultsAssumption DEF Joins, Parses, Faulty
<1> QED
  BY <1>2, <1>3 DEF Shares

(* The shares at some positions of one set are a group as ShareSets means  *)
(* it.                                                                     *)
LEMMA GroupOfTyped ==
  ASSUME input \in Inputs, NEW ps \in Seq(DOMAIN input), \A p \in ToSet(ps) : Joins(p)
  PROVE  /\ GroupOf(ps) \in Seq(Good) /\ GroupOf(ps) \in Seq(Shares)
         /\ DOMAIN GroupOf(ps) = DOMAIN ps /\ Len(GroupOf(ps)) = Len(ps)
         /\ \A n \in DOMAIN ps : GroupOf(ps)[n] = At(ps[n]) /\ GroupOf(ps)[n] \in Good
<1>1. DOMAIN ps = 1 .. Len(ps) /\ Len(ps) \in Nat
  OBVIOUS
<1>2. ASSUME NEW n \in DOMAIN ps PROVE At(ps[n]) \in Good
  BY JoinsGood DEF ToSet
<1>3. GroupOf(ps) = [n \in 1 .. Len(ps) |-> At(ps[n])]
  BY <1>1 DEF GroupOf
<1>4. Good \subseteq Shares
  BY DEF Shares
<1> QED
  BY <1>1, <1>2, <1>3, <1>4

(* The x of such a group, and which of them are disputed, in terms of the  *)
(* positions.                                                              *)
LEMMA GroupOfXs ==
  ASSUME input \in Inputs, NEW ps \in Seq(DOMAIN input), \A p \in ToSet(ps) : Joins(p)
  PROVE  /\ XsOf(GroupOf(ps)) = {At(p).x : p \in ToSet(ps)}
         /\ XsOf(GroupOf(ps)) \subseteq 1 .. 255
         /\ \A x : TextsAt(GroupOf(ps), x) = {At(p).text : p \in {q \in ToSet(ps) : At(q).x = x}}
         /\ \A x : x \in Disputed(GroupOf(ps)) <=>
               \E p, q \in ToSet(ps) : At(p).x = x /\ At(q).x = x /\ At(p).text # At(q).text
<1>1. /\ GroupOf(ps) \in Seq(Shares) /\ DOMAIN GroupOf(ps) = DOMAIN ps
      /\ \A n \in DOMAIN ps : GroupOf(ps)[n] = At(ps[n]) /\ GroupOf(ps)[n] \in Good
  BY GroupOfTyped
<1>2. \A n \in DOMAIN ps : GroupOf(ps)[n].x \in 1 .. 255
  <2> SUFFICES ASSUME NEW n \in DOMAIN ps PROVE GroupOf(ps)[n].x \in 1 .. 255
    OBVIOUS
  <2>1. GroupOf(ps)[n].x \in Xs
    BY <1>1 DEF Good
  <2> QED
    BY <2>1, XsAssumption
<1>3. ASSUME NEW x
      PROVE  TextsAt(GroupOf(ps), x) = {At(p).text : p \in {q \in ToSet(ps) : At(q).x = x}}
  BY <1>1 DEF TextsAt, ToSet
<1>4. ASSUME NEW x
      PROVE  x \in Disputed(GroupOf(ps)) <=>
               \E p, q \in ToSet(ps) : At(p).x = x /\ At(q).x = x /\ At(p).text # At(q).text
  <2>1. x \in Disputed(GroupOf(ps)) <=>
            \E m, n \in DOMAIN ps : /\ At(ps[m]).x = x /\ At(ps[n]).x = x
                                    /\ At(ps[m]).text # At(ps[n]).text
    BY <1>1, DisputedDiffer
  <2> QED
    BY <2>1 DEF ToSet
<1>5. XsOf(GroupOf(ps)) = {At(p).x : p \in ToSet(ps)}
  BY <1>1 DEF XsOf, ToSet
<1>6. XsOf(GroupOf(ps)) \subseteq 1 .. 255
  BY <1>1, <1>2 DEF XsOf
<1> QED
  BY <1>3, <1>4, <1>5, <1>6

(* The group that a set of positions makes when they are typed.            *)
LEMMA GroupsJoin ==
  ASSUME Types, Grouped, NEW g \in DOMAIN groups
  PROVE  /\ input \in Inputs /\ groups[g] \in Seq(DOMAIN input) /\ groups[g] # <<>>
         /\ \A p \in ToSet(groups[g]) : Joins(p) /\ p \in DOMAIN input /\ At(p).set = KeyOf(g)
         /\ groups[g][1] \in ToSet(groups[g])
<1>1. /\ input \in Inputs /\ groups[g] \in Seq(DOMAIN input) /\ groups[g] # <<>>
  BY DEF Types, TypeOK
<1>2. 1 \in DOMAIN groups[g]
  BY <1>1
<1> QED
  BY <1>1, <1>2 DEF Grouped, ToSet

-----------------------------------------------------------------------------
(* What choices makes                                                      *)

IsMade(f, ps, xs, m) ==
    f = [n \in 0 .. m |->
            IF n = 0 THEN <<BaseChoice(ps)>> ELSE ChoicesWith(ps, f[n - 1], xs[n])]

LEMMA MadeExists ==
  ASSUME NEW ps, NEW xs, NEW m \in Nat
  PROVE  \E f : IsMade(f, ps, xs, m)
<1> DEFINE Without == {n \in Nat : ~ \E f : IsMade(f, ps, xs, n)}
<1>1. 0 \notin Without
  <2>1. IsMade([n \in 0 .. 0 |-> <<BaseChoice(ps)>>], ps, xs, 0)
    BY DEF IsMade
  <2> QED
    BY <2>1
<1>2. ASSUME NEW n \in Nat, n \notin Without PROVE n + 1 \notin Without
  <2>1. PICK f : IsMade(f, ps, xs, n)
    BY <1>2
  <2> DEFINE last == ChoicesWith(ps, f[n], xs[n + 1])
             h == [l \in 0 .. n + 1 |-> IF l = n + 1 THEN last ELSE f[l]]
  <2>2. h = [l \in 0 .. n + 1 |->
                IF l = 0 THEN <<BaseChoice(ps)>> ELSE ChoicesWith(ps, h[l - 1], xs[l])]
    <3> SUFFICES ASSUME NEW l \in 0 .. n + 1
                 PROVE  h[l] = IF l = 0 THEN <<BaseChoice(ps)>>
                               ELSE ChoicesWith(ps, h[l - 1], xs[l])
      OBVIOUS
    <3>1. CASE l = n + 1
      <4>1. h[l] = last /\ l # 0 /\ l - 1 = n /\ n \in 0 .. n + 1 /\ n # n + 1
        BY <3>1
      <4>2. h[l - 1] = f[n]
        BY <4>1
      <4> QED
        BY <3>1, <4>1, <4>2
    <3>2. CASE l # n + 1
      <4>1. l \in 0 .. n /\ (l # 0 => l - 1 \in 0 .. n + 1 /\ l - 1 # n + 1)
        BY <3>2
      <4>2. f[l] = IF l = 0 THEN <<BaseChoice(ps)>> ELSE ChoicesWith(ps, f[l - 1], xs[l])
        BY <2>1, <4>1 DEF IsMade
      <4>3. h[l] = f[l] /\ (l # 0 => h[l - 1] = f[l - 1])
        BY <3>2, <4>1
      <4> QED
        BY <4>2, <4>3
    <3> QED
      BY <3>1, <3>2
  <2>3. IsMade(h, ps, xs, n + 1)
    BY <2>2 DEF IsMade
  <2> QED
    BY <2>3
<1>3. Without \subseteq Nat
  OBVIOUS
<1>4. Without = {}
  <2> HIDE DEF Without
  <2> QED
    BY <1>1, <1>2, <1>3, NoCounterexample
<1> QED
  BY <1>4

(* choices is a loop over the disputed x, in their order.                  *)
InOrder(ps) == Ascending(Disputed(GroupOf(ps)))
IsLoop(f, ps) ==
    /\ ChoiceSeq(ps) = f[Len(InOrder(ps))]
    /\ f[0] = <<BaseChoice(ps)>>
    /\ \A n \in 1 .. Len(InOrder(ps)) : f[n] = ChoicesWith(ps, f[n - 1], InOrder(ps)[n])
LEMMA ChoicesLoop ==
  ASSUME NEW ps, Len(InOrder(ps)) \in Nat
  PROVE  \E f : IsLoop(f, ps)
<1> DEFINE m == Len(InOrder(ps))
           f == CHOOSE f : IsMade(f, ps, InOrder(ps), m)
<1>1. IsMade(f, ps, InOrder(ps), m)
  BY MadeExists
<1>2. ChoiceSeq(ps) = f[m]
  BY DEF ChoiceSeq, IsMade, InOrder
<1>3. f[0] = <<BaseChoice(ps)>>
  <2>1. 0 \in 0 .. m
    OBVIOUS
  <2> HIDE DEF f, m
  <2> QED
    BY <1>1, <2>1 DEF IsMade
<1>4. ASSUME NEW n \in 1 .. m PROVE f[n] = ChoicesWith(ps, f[n - 1], InOrder(ps)[n])
  <2>1. n \in 0 .. m /\ n # 0
    OBVIOUS
  <2> HIDE DEF f, m
  <2> QED
    BY <1>1, <2>1 DEF IsMade
<1>5. IsLoop(f, ps)
  <2> HIDE DEF f
  <2> QED
    BY <1>2, <1>3, <1>4 DEF IsLoop
<1> QED
  BY <1>5

(* The places of each choice with each text.                               *)
Row(n, t) == ((n - 1) \div t) + 1
Column(n, t) == ((n - 1) % t) + 1
LEMMA Places ==
  ASSUME NEW a \in Nat, NEW t \in Nat
  PROVE  /\ a * t \in Nat
         /\ \A n \in 1 .. a * t : Row(n, t) \in 1 .. a /\ Column(n, t) \in 1 .. t
         /\ \A c \in 1 .. a, d \in 1 .. t : \E n \in 1 .. a * t :
               Row(n, t) = c /\ Column(n, t) = d
<1>1. a * t \in Nat
  OBVIOUS
<1>2. ASSUME NEW n \in 1 .. a * t
      PROVE  Row(n, t) \in 1 .. a /\ Column(n, t) \in 1 .. t
  <2>1. t \in Nat \ {0}
    OBVIOUS
  <2> DEFINE q == (n - 1) \div t
             r == (n - 1) % t
  <2>2. q \in Int /\ r \in 0 .. t - 1 /\ n - 1 = t * q + r
    BY <2>1
  <2> HIDE DEF q, r
  <2>3. q >= 0
    <3> SUFFICES ASSUME q <= -1 PROVE FALSE
      BY <2>2
    <3>1. t * q <= t * (-1)
      BY <2>1, <2>2
    <3> QED
      BY <2>1, <2>2, <3>1
  <2>4. q <= a - 1
    <3> SUFFICES ASSUME q >= a PROVE FALSE
      BY <2>2
    <3>1. t * q >= t * a
      BY <2>1, <2>2
    <3>2. t * a = a * t
      OBVIOUS
    <3> QED
      BY <2>1, <2>2, <3>1, <3>2
  <2>5. q + 1 \in 1 .. a /\ r + 1 \in 1 .. t
    BY <2>1, <2>2, <2>3, <2>4
  <2> QED
    BY <2>5 DEF q, r, Row, Column
<1>3. ASSUME NEW c \in 1 .. a, NEW d \in 1 .. t
      PROVE  \E n \in 1 .. a * t : Row(n, t) = c /\ Column(n, t) = d
  <2> DEFINE m == t * (c - 1) + (d - 1)
  <2>1. m >= 0 /\ m < a * t /\ m \in Int
    <3>1. t * (c - 1) >= 0
      OBVIOUS
    <3>2. t * (c - 1) <= t * (a - 1)
      OBVIOUS
    <3>3. t * (a - 1) = a * t - t
      OBVIOUS
    <3> QED
      BY <3>1, <3>2, <3>3
  <2>2. m \div t = c - 1 /\ m % t = d - 1
    <3>1. t \in Nat \ {0} /\ d - 1 \in 0 .. t - 1
      OBVIOUS
    <3>2. /\ m \div t \in Int /\ m % t \in 0 .. t - 1
          /\ m = t * (m \div t) + (m % t)
      BY <2>1, <3>1
    <3> DEFINE q == m \div t
               r == m % t
    <3> HIDE DEF q, r
    <3>3. q \in Int /\ r \in 0 .. t - 1 /\ t * q + r = t * (c - 1) + (d - 1)
      BY <3>2 DEF q, r, m
    <3>4. q = c - 1
      <4>1. CASE q < c - 1
        <5>1. q + 1 <= c - 1
          BY <3>3, <4>1
        <5>2. t * (q + 1) <= t * (c - 1)
          BY <3>1, <3>3, <5>1
        <5>3. t * (q + 1) = t * q + t
          BY <3>3
        <5> QED
          BY <3>1, <3>3, <5>2, <5>3
      <4>2. CASE q > c - 1
        <5>1. c <= q
          BY <3>3, <4>2
        <5>2. t * c <= t * q
          BY <3>1, <3>3, <5>1
        <5>3. t * c = t * (c - 1) + t
          OBVIOUS
        <5> QED
          BY <3>1, <3>3, <5>2, <5>3
      <4> QED
        BY <3>3, <4>1, <4>2
    <3> QED
      BY <3>3, <3>4 DEF q, r
  <2>3. m + 1 \in 1 .. a * t /\ (m + 1) - 1 = m
    BY <1>1, <2>1
  <2> HIDE DEF m
  <2>4. Row(m + 1, t) = c /\ Column(m + 1, t) = d
    BY <2>2, <2>3 DEF Row, Column
  <2> QED
    BY <2>3, <2>4
<1> QED
  BY <1>1, <1>2, <1>3

(* Every choice with every text, and nothing else.                         *)
LEMMA WithEachAppends ==
  ASSUME NEW T, NEW all \in Seq(Seq(T)), NEW texts \in Seq(T)
  PROVE  /\ WithEach(all, texts) \in Seq(Seq(T))
         /\ Len(WithEach(all, texts)) = Len(all) * Len(texts)
         /\ \A e \in ToSet(WithEach(all, texts)) :
               \E c \in ToSet(all), t \in ToSet(texts) : e = Append(c, t)
         /\ \A c \in ToSet(all), t \in ToSet(texts) :
               Append(c, t) \in ToSet(WithEach(all, texts))
<1> DEFINE C(n) == Row(n, Len(texts))
           D(n) == Column(n, Len(texts))
           w == WithEach(all, texts)
           size == Len(all) * Len(texts)
<1>1. Len(all) \in Nat /\ Len(texts) \in Nat /\ DOMAIN all = 1 .. Len(all)
      /\ DOMAIN texts = 1 .. Len(texts)
  OBVIOUS
<1>2. /\ size \in Nat
      /\ \A n \in 1 .. size : C(n) \in DOMAIN all /\ D(n) \in DOMAIN texts
      /\ \A c \in DOMAIN all, d \in DOMAIN texts : \E n \in 1 .. size : C(n) = c /\ D(n) = d
  <2> DEFINE a == Len(all)
             t == Len(texts)
  <2>1. a \in Nat /\ t \in Nat /\ DOMAIN all = 1 .. a /\ DOMAIN texts = 1 .. t
    BY <1>1
  <2> HIDE DEF a, t
  <2>2. /\ a * t \in Nat
        /\ \A n \in 1 .. a * t : Row(n, t) \in 1 .. a /\ Column(n, t) \in 1 .. t
        /\ \A c \in 1 .. a, d \in 1 .. t : \E n \in 1 .. a * t :
               Row(n, t) = c /\ Column(n, t) = d
    BY <2>1, Places, Zenon
  <2> QED
    BY <2>1, <2>2, Zenon DEF a, t
<1>3. w = [n \in 1 .. size |-> Append(all[C(n)], texts[D(n)])]
  BY DEF WithEach, Row, Column
<1> HIDE DEF C, D, w, size
<1>4. ASSUME NEW n \in 1 .. size PROVE Append(all[C(n)], texts[D(n)]) \in Seq(T)
  <2>1. all[C(n)] \in Seq(T) /\ texts[D(n)] \in T
    BY <1>2
  <2> QED
    BY <2>1
<1>5. w \in Seq(Seq(T)) /\ Len(w) = size /\ DOMAIN w = 1 .. size
  BY <1>2, <1>3, <1>4
<1>6. \A e \in ToSet(w) : \E c \in ToSet(all), t \in ToSet(texts) : e = Append(c, t)
  <2> SUFFICES ASSUME NEW n \in 1 .. size
               PROVE  \E c \in ToSet(all), t \in ToSet(texts) : w[n] = Append(c, t)
    BY <1>5 DEF ToSet
  <2>1. all[C(n)] \in ToSet(all) /\ texts[D(n)] \in ToSet(texts)
    BY <1>2 DEF ToSet
  <2> QED
    BY <1>3, <2>1
<1>7. \A c \in ToSet(all), t \in ToSet(texts) : Append(c, t) \in ToSet(w)
  <2> SUFFICES ASSUME NEW c \in DOMAIN all, NEW d \in DOMAIN texts
               PROVE  Append(all[c], texts[d]) \in ToSet(w)
    BY DEF ToSet
  <2>1. PICK n \in 1 .. size : C(n) = c /\ D(n) = d
    BY <1>2
  <2>2. w[n] = Append(all[c], texts[d])
    BY <1>3, <2>1
  <2> QED
    BY <1>5, <2>2 DEF ToSet
<1> QED
  BY <1>5, <1>6, <1>7 DEF w, size

(* What one more disputed x adds to the choices, within the bound.         *)
LEMMA ChoicesWithAppends ==
  ASSUME NEW T, NEW ps \in Seq(T), NEW all \in Seq(Seq(T)), NEW x
  PROVE  /\ ChoicesWith(ps, all, x) \in Seq(Seq(T))
         /\ Len(ChoicesWith(ps, all, x)) <= MaxChoices
         /\ \A e \in ToSet(ChoicesWith(ps, all, x)) :
               \E c \in ToSet(all), t \in ToSet(FirstTexts(ps, x)) : e = Append(c, t)
         /\ Len(all) * Len(FirstTexts(ps, x)) <= MaxChoices =>
               /\ Len(ChoicesWith(ps, all, x)) = Len(all) * Len(FirstTexts(ps, x))
               /\ \A c \in ToSet(all), t \in ToSet(FirstTexts(ps, x)) :
                     Append(c, t) \in ToSet(ChoicesWith(ps, all, x))
         /\ Len(all) * Len(FirstTexts(ps, x)) > MaxChoices =>
               Len(ChoicesWith(ps, all, x)) = 0
<1>1. FirstTexts(ps, x) \in Seq(T)
  BY OnlyKeeps DEF FirstTexts
<1> DEFINE texts == FirstTexts(ps, x)
           w == WithEach(all, texts)
<1>2. /\ w \in Seq(Seq(T))
      /\ Len(w) = Len(all) * Len(texts)
      /\ \A e \in ToSet(w) : \E c \in ToSet(all), t \in ToSet(texts) : e = Append(c, t)
      /\ \A c \in ToSet(all), t \in ToSet(texts) : Append(c, t) \in ToSet(w)
  BY <1>1, WithEachAppends
<1>3. ChoicesWith(ps, all, x) = IF Len(w) > MaxChoices THEN <<>> ELSE w
  BY DEF ChoicesWith
<1>4. Len(w) \in Nat /\ MaxChoices \in Nat
  BY <1>2, MaxChoicesAssumption
<1> HIDE DEF w, texts
<1>5. CASE Len(w) > MaxChoices
  <2>1. ToSet(<<>>) = {}
    BY DEF ToSet
  <2> QED
    BY <1>2, <1>3, <1>4, <1>5, <2>1 DEF texts
<1>6. CASE ~ (Len(w) > MaxChoices)
  <2>1. ChoicesWith(ps, all, x) = w /\ Len(w) <= MaxChoices
    BY <1>3, <1>4, <1>6
  <2> QED
    BY <1>2, <1>4, <2>1 DEF texts
<1> QED
  BY <1>5, <1>6

(* Each choice holds what is not disputed, and texts of the set besides.   *)
LEMMA ChoicesFrom ==
  ASSUME NEW T, NEW ps \in Seq(T), InOrder(ps) \in Seq(Nat)
  PROVE  /\ ChoiceSeq(ps) \in Seq(Seq(T))
         /\ Len(ChoiceSeq(ps)) <= MaxChoices
         /\ \A c \in ToSet(ChoiceSeq(ps)) : From(c, ps)
<1> DEFINE xs == InOrder(ps)
<1>1. Len(xs) \in Nat
  OBVIOUS
<1>2. PICK f : IsLoop(f, ps)
  BY <1>1, ChoicesLoop
<1>3. /\ ChoiceSeq(ps) = f[Len(xs)]
      /\ f[0] = <<BaseChoice(ps)>>
      /\ \A n \in 1 .. Len(xs) : f[n] = ChoicesWith(ps, f[n - 1], xs[n])
  BY <1>2 DEF IsLoop
<1> HIDE DEF xs
<1>4. /\ BaseChoice(ps) \in Seq(T) /\ From(BaseChoice(ps), ps)
  <2> DEFINE S == {p \in ToSet(ps) : At(p).x \notin Disputed(GroupOf(ps))}
  <2>1. BaseChoice(ps) \in Seq(T) /\ ToSet(BaseChoice(ps)) = ToSet(ps) \cap S
    BY OnlyKeeps DEF BaseChoice
  <2> QED
    BY <2>1 DEF From
<1> DEFINE Fine(n) == /\ f[n] \in Seq(Seq(T)) /\ Len(f[n]) <= MaxChoices
                      /\ \A c \in ToSet(f[n]) : From(c, ps)
           Off == {n \in 0 .. Len(xs) : ~ Fine(n)}
<1>5. Fine(0)
  <2>1. ToSet(f[0]) = {BaseChoice(ps)} /\ Len(f[0]) = 1 /\ f[0] \in Seq(Seq(T))
    BY <1>3, <1>4 DEF ToSet
  <2>2. 1 <= MaxChoices
    BY MaxChoicesAssumption
  <2> QED
    BY <1>4, <2>1, <2>2
<1>6. ASSUME NEW n \in Nat, n + 1 \in 1 .. Len(xs), Fine(n) PROVE Fine(n + 1)
  <2>1. f[n + 1] = ChoicesWith(ps, f[n], xs[n + 1])
    <3>1. (n + 1) - 1 = n
      OBVIOUS
    <3> QED
      BY <1>3, <1>6, <3>1
  <2>2. /\ f[n + 1] \in Seq(Seq(T)) /\ Len(f[n + 1]) <= MaxChoices
        /\ \A e \in ToSet(f[n + 1]) :
               \E c \in ToSet(f[n]), t \in ToSet(FirstTexts(ps, xs[n + 1])) : e = Append(c, t)
    BY <1>6, <2>1, ChoicesWithAppends
  <2>3. ToSet(FirstTexts(ps, xs[n + 1])) \subseteq ToSet(ps)
    BY OnlyKeeps DEF FirstTexts
  <2>4. ASSUME NEW e \in ToSet(f[n + 1]) PROVE From(e, ps)
    <3>1. PICK c \in ToSet(f[n]), t \in ToSet(ps) : e = Append(c, t)
      BY <2>2, <2>3
    <3>2. c \in Seq(T)
      BY <1>6 DEF ToSet
    <3>3. ToSet(e) = ToSet(c) \cup {t}
      BY <3>1, <3>2, AppendAdds
    <3> QED
      BY <1>6, <3>1, <3>3 DEF From
  <2> QED
    BY <2>2, <2>4
<1>7. Off = {}
  <2>1. Off \subseteq Nat /\ 0 \notin Off
    BY <1>5
  <2>2. ASSUME NEW n \in Nat, n + 1 \in Off PROVE n \in Off
    <3>1. n \in 0 .. Len(xs) /\ n + 1 \in 1 .. Len(xs)
      BY <1>1, <2>2
    <3> HIDE DEF Fine
    <3> QED
      BY <1>6, <2>2, <3>1
  <2> HIDE DEF Off
  <2> QED
    BY <2>1, <2>2, NoCounterexample
<1>8. Fine(Len(xs))
  <2>1. Len(xs) \in 0 .. Len(xs)
    BY <1>1
  <2> HIDE DEF Fine
  <2> QED
    BY <1>7, <2>1
<1> QED
  BY <1>3, <1>8

(* The disputed x of a group, listed.                                      *)
LEMMA InOrderTyped ==
  ASSUME input \in Inputs, NEW ps \in Seq(DOMAIN input), \A p \in ToSet(ps) : Joins(p)
  PROVE  /\ InOrder(ps) \in Seq(Nat)
         /\ ToSet(InOrder(ps)) = Disputed(GroupOf(ps))
         /\ \A a, b \in DOMAIN InOrder(ps) : a < b => InOrder(ps)[a] < InOrder(ps)[b]
<1> DEFINE S == Disputed(GroupOf(ps))
<1>1. S \subseteq 1 .. 255
  <2>1. XsOf(GroupOf(ps)) \subseteq 1 .. 255
    BY GroupOfXs
  <2> QED
    BY <2>1 DEF Disputed
<1> HIDE DEF S
<1>2. 255 \in Nat
  OBVIOUS
<1>3. /\ Ascending(S) \in Seq(S) /\ ToSet(Ascending(S)) = S
      /\ \A a, b \in DOMAIN Ascending(S) : a < b => Ascending(S)[a] < Ascending(S)[b]
  BY <1>1, <1>2, AscendingLists
<1>4. S \subseteq Nat
  BY <1>1
<1>5. Ascending(S) \in Seq(Nat)
  BY <1>3, <1>4, SeqWiden
<1> QED
  BY <1>3, <1>5 DEF S, InOrder

-----------------------------------------------------------------------------
(* Types                                                                   *)

LEMMA InitTypes == Init => Types
<1> SUFFICES ASSUME Init PROVE Types
  OBVIOUS
<1>1. input \in Seq(Shares \cup {Undecoded}) /\ input \in Inputs
  BY InputsAssumption DEF Init
<1>2. Len(input) \in Nat /\ i \in 1 .. Len(input) + 1 /\ Len(groups) = 0
  BY <1>1 DEF Init
<1>3. args \in [x : 1 .. 255, n : 0 .. 255]
  <2>1. 1 \in 1 .. 255 /\ 0 \in 0 .. 255
    OBVIOUS
  <2>2. [x |-> 1, n |-> 0] \in [x : 1 .. 255, n : 0 .. 255]
    BY <2>1
  <2> QED
    BY <2>2, ArgsAssumption DEF Init
<1>4. Unopened \in [err : Errors \cup {"none", "too few"}, solving : Seq(DOMAIN input)]
  BY DEF Unopened
<1>5. Unopened.err = "none"
  BY DEF Unopened
<1>6. TypeOK
  BY <1>1, <1>2, <1>5, MaxChoicesAssumption DEF Init, TypeOK
<1>7. /\ groups = <<>> /\ todo = <<>> /\ results = <<>> /\ opened = Unopened
  BY DEF Init
<1>8. /\ groups \in Seq(Seq(DOMAIN input)) /\ todo \in Seq(Seq(DOMAIN input))
      /\ results \in Seq([set : Nat, err : Errors, solving : Seq(DOMAIN input)])
  BY <1>7
<1> QED
  BY <1>1, <1>3, <1>4, <1>6, <1>7, <1>8 DEF Types

(* What Combine and descriptorOf may give for a group.                     *)
LEMMA SolvesTyped ==
  ASSUME NEW g, NEW how \in Solves(g), NEW ps
  PROVE  /\ how \in {"ok", "too few", "id", "stopped"}
         /\ (IF how = "ok" THEN Content(ps) ELSE how) \in Errors \cup {"too few"}
<1>1. how \in {"ok", "too few", "id", "stopped"}
  BY DEF Solves
<1>2. Content(ps) \in {"ok", "content"}
  BY DEF Content
<1> QED
  BY <1>1, <1>2 DEF Errors

(* A result more.                                                          *)
Results == [set : Nat, err : Errors, solving : Seq(DOMAIN input)]
LEMMA ResultAdded ==
  ASSUME Types, j \in DOMAIN groups, NEW err \in Errors, NEW ps \in Seq(DOMAIN input),
         NEW e, e = [set |-> j, err |-> err, solving |-> ps], results' = Append(results, e)
  PROVE  /\ results' \in Seq(Results)
         /\ \A r \in DOMAIN results' : results'[r].set \in DOMAIN groups
         /\ DOMAIN results' = 1 .. Len(results) + 1 /\ Len(results) \in Nat
         /\ DOMAIN results = 1 .. Len(results)
         /\ \A r \in DOMAIN results : results'[r] = results[r]
         /\ results'[Len(results) + 1] = e
<1>1. groups \in Seq(Seq(DOMAIN input)) /\ results \in Seq(Results)
  BY DEF Types, Results
<1>2. j \in Nat
  <2>1. DOMAIN groups = 1 .. Len(groups) /\ Len(groups) \in Nat
    BY <1>1, SeqHas
  <2> QED
    BY <2>1
<1>3. e \in Results
  BY <1>2 DEF Results
<1>4. e.set = j
  OBVIOUS
<1>5. \A r \in DOMAIN results : results[r].set \in DOMAIN groups
  BY DEF Types, TypeOK
<1>6. DOMAIN results = 1 .. Len(results) /\ Len(results) \in Nat
  BY <1>1, SeqHas
<1>7. /\ results' \in Seq(Results) /\ DOMAIN results' = 1 .. Len(results) + 1
      /\ \A r \in DOMAIN results : results'[r] = results[r]
      /\ results'[Len(results) + 1] = e
  BY <1>1, <1>3, AppendHas
<1> QED
  BY <1>4, <1>5, <1>6, <1>7

(* The steps that only read the input and the groups, or end the command.  *)
LEMMA TypesStay ==
  ASSUME Types, UNCHANGED <<command, args, input, i, groups>>,
         rejected' \in Seq(DOMAIN input), pc' \in {"group", "open", "choose", "report", "exited"},
         j' \in 1 .. Len(groups) + 1, exit' \in {"none", "ok", "error"},
         todo' \in Seq(Seq(DOMAIN input)), Len(todo') <= MaxChoices,
         opened' \in [err : Errors \cup {"none", "too few"}, solving : Seq(DOMAIN input)],
         results' \in Seq(Results), \A r \in DOMAIN results' : results'[r].set \in DOMAIN groups
  PROVE  Types'
<1>3. opened'.err \in {"none", "ok", "too few", "id", "stopped", "content"}
  BY DEF Errors
<1>4. \A c \in DOMAIN todo' : todo'[c] \in Seq(DOMAIN input)
  BY SeqHas
<1>5. TypeOK'
  BY <1>3, <1>4 DEF Types, TypeOK
<1> QED
  BY <1>5 DEF Types, Results

(* The steps that make the groups.                                         *)
LEMMA TypesGrow ==
  ASSUME Types, UNCHANGED <<command, args, input, pc, j, todo, opened, results, printed, exit>>,
         i <= Len(input), i' = i + 1, rejected' \in Seq(DOMAIN input),
         groups' \in Seq(Seq(DOMAIN input)), Len(groups) <= Len(groups'),
         \A g \in DOMAIN groups' : groups'[g] # <<>>
  PROVE  Types'
<1>1. input \in Seq(Shares \cup {Undecoded}) /\ i \in 1 .. Len(input) + 1
  BY DEF Types, TypeOK
<1>2. i' \in 1 .. Len(input) + 1
  BY <1>1
<1>3. /\ groups \in Seq(Seq(DOMAIN input)) /\ j \in 1 .. Len(groups) + 1
      /\ \A r \in DOMAIN results : results[r].set \in DOMAIN groups
  BY DEF Types, TypeOK
<1>4. DOMAIN groups \subseteq DOMAIN groups' /\ j' \in 1 .. Len(groups') + 1
  BY <1>3
<1>5. \A g \in DOMAIN groups' : groups'[g] \in Seq(DOMAIN input)
  OBVIOUS
<1>6. TypeOK'
  BY <1>2, <1>3, <1>4, <1>5 DEF Types, TypeOK
<1> QED
  BY <1>6 DEF Types

(* The group that a share joins: a new one at the end, or the only one of  *)
(* its set.                                                                *)
LEMMA JoinAdds ==
  ASSUME Types, Grouped, JoinGroup
  PROVE  /\ i \in DOMAIN input
         /\ DOMAIN groups = 1 .. Len(groups) /\ Len(groups) \in Nat
         /\ \/ /\ \A g \in DOMAIN groups : KeyOf(g) # At(i).set
               /\ DOMAIN groups' = 1 .. Len(groups) + 1
               /\ \A g \in DOMAIN groups : groups'[g] = groups[g]
               /\ groups'[Len(groups) + 1] = <<i>>
            \/ /\ DOMAIN groups' = DOMAIN groups
               /\ \E h \in DOMAIN groups :
                     /\ KeyOf(h) = At(i).set
                     /\ groups'[h] = Append(groups[h], i)
                     /\ \A g \in DOMAIN groups : g # h => groups'[g] = groups[g]
         /\ groups' \in Seq(Seq(DOMAIN input)) /\ Len(groups) <= Len(groups')
         /\ \A g \in DOMAIN groups' : groups'[g] # <<>>
<1>1. /\ groups \in Seq(Seq(DOMAIN input)) /\ \A g \in DOMAIN groups : groups[g] # <<>>
      /\ input \in Seq(Shares \cup {Undecoded}) /\ i \in 1 .. Len(input) + 1
  BY DEF Types, TypeOK
<1>2. /\ DOMAIN groups = 1 .. Len(groups) /\ Len(groups) \in Nat
      /\ \A g \in DOMAIN groups : groups[g] \in Seq(DOMAIN input)
  BY <1>1, SeqHas
<1>3. i \in DOMAIN input
  <2>1. DOMAIN input = 1 .. Len(input) /\ Len(input) \in Nat
    BY <1>1, SeqHas
  <2> QED
    BY <1>1, <2>1 DEF JoinGroup
<1>4. \A g \in DOMAIN groups : Head(groups[g]) = groups[g][1]
  BY <1>1, <1>2
<1> DEFINE same == {g \in DOMAIN groups : KeyOf(g) = At(i).set}
<1>5. groups' = IF same = {} THEN Append(groups, <<i>>)
                ELSE [g \in DOMAIN groups |-> IF g \in same
                         THEN Append(groups[g], i) ELSE groups[g]]
  <2>1. {g \in DOMAIN groups : At(Head(groups[g])).set = At(i).set} = same
    BY <1>4 DEF KeyOf
  <2> QED
    BY <2>1 DEF JoinGroup
<1>6. CASE same = {}
  <2>1. <<i>> \in Seq(DOMAIN input) /\ <<i>> # <<>>
    BY <1>3
  <2>2. groups' = Append(groups, <<i>>)
    BY <1>5, <1>6
  <2>3. /\ groups' \in Seq(Seq(DOMAIN input)) /\ Len(groups') = Len(groups) + 1
        /\ DOMAIN groups' = 1 .. Len(groups) + 1
        /\ \A g \in DOMAIN groups : groups'[g] = groups[g]
        /\ groups'[Len(groups) + 1] = <<i>>
    BY <1>1, <2>1, <2>2, AppendHas
  <2>4. \A g \in DOMAIN groups' : g \in DOMAIN groups \/ g = Len(groups) + 1
    BY <1>2, <2>3
  <2>5. \A g \in DOMAIN groups' : groups'[g] # <<>>
    BY <1>1, <2>1, <2>3, <2>4
  <2>6. \A g \in DOMAIN groups : KeyOf(g) # At(i).set
    BY <1>6
  <2>7. Len(groups) <= Len(groups')
    BY <1>2, <2>3
  <2> HIDE DEF same
  <2> QED
    BY <1>2, <1>3, <2>3, <2>5, <2>6, <2>7, Zenon
<1>7. CASE same # {}
  <2>1. PICK h \in same : TRUE
    BY <1>7
  <2>2. \A g \in DOMAIN groups : g \in same <=> g = h
    BY <2>1 DEF Grouped
  <2>3. /\ DOMAIN groups' = DOMAIN groups
        /\ groups'[h] = Append(groups[h], i)
        /\ \A g \in DOMAIN groups : g # h => groups'[g] = groups[g]
    BY <1>5, <1>7, <2>1, <2>2
  <2>4. Append(groups[h], i) \in Seq(DOMAIN input) /\ Append(groups[h], i) # <<>>
    <3>1. groups[h] \in Seq(DOMAIN input)
      BY <1>2, <2>1
    <3>2. /\ Append(groups[h], i) \in Seq(DOMAIN input)
          /\ Len(Append(groups[h], i)) = Len(groups[h]) + 1 /\ Len(groups[h]) \in Nat
      BY <1>3, <3>1, AppendHas, SeqHas
    <3> QED
      BY <3>2
  <2>5. \A g \in DOMAIN groups' : groups'[g] \in Seq(DOMAIN input) /\ groups'[g] # <<>>
    BY <1>1, <1>2, <2>3, <2>4
  <2>6. groups' = [g \in 1 .. Len(groups) |-> groups'[g]]
    BY <1>2, <1>5, <1>7
  <2>7. groups' \in Seq(Seq(DOMAIN input)) /\ Len(groups') = Len(groups)
    BY <1>2, <2>3, <2>5, <2>6
  <2>8. h \in DOMAIN groups /\ KeyOf(h) = At(i).set
    BY <2>1
  <2>9. Len(groups) <= Len(groups')
    BY <1>2, <2>7
  <2> HIDE DEF same
  <2> QED
    BY <1>2, <1>3, <2>3, <2>5, <2>7, <2>8, <2>9, Zenon
<1> QED
  BY <1>6, <1>7

(* No step leaves the types.                                               *)
LEMMA TypesStep ==
  ASSUME Types, Grouped, Opening, Next
  PROVE  Types'
<1>1. /\ input \in Seq(Shares \cup {Undecoded}) /\ i \in 1 .. Len(input) + 1
      /\ groups \in Seq(Seq(DOMAIN input)) /\ rejected \in Seq(DOMAIN input)
      /\ todo \in Seq(Seq(DOMAIN input)) /\ Len(todo) <= MaxChoices
      /\ opened \in [err : Errors \cup {"none", "too few"}, solving : Seq(DOMAIN input)]
      /\ j \in 1 .. Len(groups) + 1 /\ exit \in {"none", "ok", "error"}
      /\ results \in Seq(Results) /\ \A r \in DOMAIN results : results[r].set \in DOMAIN groups
      /\ pc \in {"group", "open", "choose", "report", "exited"}
      /\ \A g \in DOMAIN groups : groups[g] # <<>>
  BY DEF Types, TypeOK, Results
<1>2. /\ DOMAIN input = 1 .. Len(input) /\ Len(input) \in Nat
      /\ DOMAIN groups = 1 .. Len(groups) /\ Len(groups) \in Nat
      /\ \A g \in DOMAIN groups : groups[g] \in Seq(DOMAIN input)
  BY <1>1, SeqHas
<1>a. i \in Nat /\ j \in Nat /\ i <= Len(input) + 1 /\ j <= Len(groups) + 1 /\ i >= 1 /\ j >= 1
  <2>1. i \in 1 .. Len(input) + 1 /\ j \in 1 .. Len(groups) + 1
    BY DEF Types, TypeOK
  <2> QED
    BY <1>2, <2>1
<1>b. /\ groups \in Seq(Seq(DOMAIN input)) /\ rejected \in Seq(DOMAIN input)
      /\ todo \in Seq(Seq(DOMAIN input)) /\ Len(todo) <= MaxChoices
  BY <1>1
<1>3. CASE NothingFound
  BY <1>1, <1>3, TypesStay DEF NothingFound, Exits
<1>4. CASE SkipUndecoded
  <2>1. Len(groups) <= Len(groups)
    BY <1>2
  <2> QED
    BY <1>1, <1>4, <2>1, TypesGrow DEF SkipUndecoded
<1>5. CASE RejectFaulty
  <2>1. i \in DOMAIN input /\ Len(groups) <= Len(groups)
    BY <1>2, <1>a, <1>5 DEF RejectFaulty
  <2>2. rejected' \in Seq(DOMAIN input)
    BY <1>1, <1>5, <2>1, AppendHas DEF RejectFaulty
  <2> QED
    BY <1>1, <1>5, <2>1, <2>2, TypesGrow DEF RejectFaulty
<1>6. CASE JoinGroup
  <2>1. /\ groups' \in Seq(Seq(DOMAIN input)) /\ Len(groups) <= Len(groups')
        /\ \A g \in DOMAIN groups' : groups'[g] # <<>>
    BY <1>6, JoinAdds
  <2> QED
    BY <1>1, <1>6, <2>1, TypesGrow DEF JoinGroup
<1>7. CASE MarkDisputed
  <2> DEFINE out == ToSet(rejected) \cup DisputedAt
  <2>1. out \subseteq 1 .. Len(input)
    <3>1. ToSet(rejected) \subseteq DOMAIN input
      BY <1>b, SeqHas DEF ToSet
    <3> QED
      BY <1>2, <3>1 DEF DisputedAt
  <2>2. rejected' = Ascending(out)
    BY <1>7 DEF MarkDisputed
  <2> HIDE DEF out
  <2>3. Ascending(out) \in Seq(out)
    BY <1>2, <2>1, AscendingLists
  <2>4. rejected' \in Seq(DOMAIN input)
    BY <1>2, <2>1, <2>2, <2>3, SeqWiden
  <2> QED
    BY <1>1, <1>7, <2>4, TypesStay DEF MarkDisputed
<1>8. CASE OpenSet
  <2>1. j \in DOMAIN groups
    <3>1. j <= Len(groups)
      BY <1>8 DEF OpenSet
    <3> QED
      BY <1>2, <1>a, <3>1
  <2>2. groups[j] \in Seq(DOMAIN input) /\ \A p \in ToSet(groups[j]) : Joins(p)
    BY <2>1, GroupsJoin
  <2>3. input \in Inputs
    BY DEF Types
  <2>4. InOrder(groups[j]) \in Seq(Nat)
    BY <2>2, <2>3, InOrderTyped
  <2>5. ChoiceSeq(groups[j]) \in Seq(Seq(DOMAIN input)) /\ Len(ChoiceSeq(groups[j])) <= MaxChoices
    BY <2>2, <2>4, ChoicesFrom
  <2>6. <<>> \in Seq(Seq(DOMAIN input)) /\ Len(<<>>) <= MaxChoices
    BY MaxChoicesAssumption
  <2>7. /\ todo' \in Seq(Seq(DOMAIN input)) /\ Len(todo') <= MaxChoices
        /\ pc' \in {"choose", "report"}
    BY <1>8, <2>5, <2>6 DEF OpenSet
  <2>8. PICK how \in Solves(GroupOf(groups[j])) :
           opened' = [err |-> IF how = "ok" THEN Content(groups[j]) ELSE how,
                      solving |-> groups[j]]
    BY <1>8 DEF OpenSet
  <2>9. opened' \in [err : Errors \cup {"none", "too few"}, solving : Seq(DOMAIN input)]
    <3>1. (IF how = "ok" THEN Content(groups[j]) ELSE how) \in Errors \cup {"too few"}
      BY SolvesTyped
    <3> DEFINE err == IF how = "ok" THEN Content(groups[j]) ELSE how
    <3> HIDE DEF err
    <3>2. opened' = [err |-> err, solving |-> groups[j]] /\ err \in Errors \cup {"too few"}
      BY <2>8, <3>1 DEF err
    <3> QED
      BY <2>2, <3>2
  <2> QED
    BY <1>1, <1>8, <2>7, <2>9, TypesStay DEF OpenSet
<1>9. CASE TryChoice
  <2>1. /\ Head(todo) \in Seq(DOMAIN input) /\ todo' \in Seq(Seq(DOMAIN input))
        /\ Len(todo') <= MaxChoices
    BY <1>b, <1>9, MaxChoicesAssumption DEF TryChoice
  <2>2. PICK how \in Solves(GroupOf(Head(todo))) :
           IF how \in {"id", "stopped"} THEN UNCHANGED <<pc, opened>>
           ELSE /\ pc' = "report"
                /\ opened' = [err |-> IF how = "ok" THEN Content(Head(todo)) ELSE how,
                              solving |-> Head(todo)]
    BY <1>9 DEF TryChoice
  <2>3. /\ opened' \in [err : Errors \cup {"none", "too few"}, solving : Seq(DOMAIN input)]
        /\ pc' \in {"choose", "report"}
    <3> DEFINE err == IF how = "ok" THEN Content(Head(todo)) ELSE how
    <3>1. err \in Errors \cup {"too few"}
      BY SolvesTyped
    <3> HIDE DEF err
    <3>2. CASE how \in {"id", "stopped"}
      BY <1>1, <1>9, <2>2, <3>2 DEF TryChoice
    <3>3. CASE how \notin {"id", "stopped"}
      <4>1. opened' = [err |-> err, solving |-> Head(todo)] /\ pc' = "report"
        BY <2>2, <3>3 DEF err
      <4> QED
        BY <2>1, <3>1, <4>1
    <3> QED
      BY <3>2, <3>3
  <2> QED
    BY <1>1, <1>9, <2>1, <2>3, TypesStay DEF TryChoice
<1>10. CASE NoChoiceFits
  BY <1>1, <1>10, TypesStay DEF NoChoiceFits
<1>11. ASSUME Proceed, pc = "report", j \in DOMAIN groups, UNCHANGED rejected,
              results' \in Seq(Results), \A r \in DOMAIN results' : results'[r].set \in DOMAIN groups
       PROVE  Types'
  <2>1. j' \in 1 .. Len(groups) + 1
    BY <1>2, <1>11 DEF Proceed
  <2>2. todo' \in Seq(Seq(DOMAIN input)) /\ Len(todo') <= MaxChoices
    BY <1>11, MaxChoicesAssumption DEF Proceed
  <2>3. opened' \in [err : Errors \cup {"none", "too few"}, solving : Seq(DOMAIN input)]
    BY <1>11 DEF Proceed, Unopened
  <2> QED
    BY <1>1, <1>11, <2>1, <2>2, <2>3, TypesStay DEF Proceed
<1>c. pc = "report" => j \in DOMAIN groups
  BY DEF Opening
<1>d. results \in Seq(Results) /\ \A r \in DOMAIN results : results[r].set \in DOMAIN groups
  BY <1>1
<1>e. opened.solving \in Seq(DOMAIN input)
  BY <1>1
<1>12. CASE ReportTooFew
  <2>1. Proceed /\ pc = "report" /\ UNCHANGED <<rejected, results>>
    BY <1>12 DEF ReportTooFew, Proceed
  <2> QED
    BY <1>c, <1>d, <1>11, <2>1
<1>13. ASSUME Proceed, pc = "report", NEW err \in Errors,
              results' = Append(results, [set |-> j, err |-> err, solving |-> opened.solving])
       PROVE  Types'
  <2>1. /\ results' \in Seq(Results)
        /\ \A r \in DOMAIN results' : results'[r].set \in DOMAIN groups
    BY <1>c, <1>e, <1>13, ResultAdded
  <2>2. UNCHANGED rejected
    BY <1>13 DEF Proceed
  <2> QED
    BY <1>c, <1>11, <1>13, <2>1, <2>2
<1>14. CASE ReportFailure
  <2>1. /\ Proceed /\ pc = "report" /\ opened.err \in Errors
        /\ results' = Append(results, [set |-> j, err |-> opened.err, solving |-> opened.solving])
    BY <1>14 DEF ReportFailure, Errors
  <2> QED
    BY <1>13, <2>1
<1>15. CASE ReportResult
  <2>1. /\ Proceed /\ pc = "report" /\ "ok" \in Errors
        /\ results' = Append(results, [set |-> j, err |-> "ok", solving |-> opened.solving])
    BY <1>15 DEF ReportResult, Errors
  <2> QED
    BY <1>13, <2>1
<1>16. ASSUME UNCHANGED <<command, args, input, i, groups, rejected, j, todo, opened, results>>,
              \/ UNCHANGED <<pc, exit>>
              \/ pc' = "exited" /\ exit' \in {"ok", "error"}
       PROVE  Types'
  <2>1. j' \in 1 .. Len(groups) + 1
    BY <1>2, <1>a, <1>16
  <2>2. /\ todo' \in Seq(Seq(DOMAIN input)) /\ Len(todo') <= MaxChoices
        /\ rejected' \in Seq(DOMAIN input)
    BY <1>b, <1>16
  <2>3. opened' \in [err : Errors \cup {"none", "too few"}, solving : Seq(DOMAIN input)]
    BY <1>1, <1>16
  <2>4. results' \in Seq(Results) /\ \A r \in DOMAIN results' : results'[r].set \in DOMAIN groups
    BY <1>d, <1>16
  <2>5. /\ pc' \in {"group", "open", "choose", "report", "exited"}
        /\ exit' \in {"none", "ok", "error"}
    <3>1. /\ pc \in {"group", "open", "choose", "report", "exited"}
          /\ exit \in {"none", "ok", "error"}
      BY DEF Types, TypeOK
    <3> QED
      BY <1>16, <3>1
  <2> QED
    BY <1>16, <2>1, <2>2, <2>3, <2>4, <2>5, TypesStay
<1>17. CASE FinishRecover
  BY <1>16, <1>17 DEF FinishRecover, Exits
<1>18. CASE RefuseReplace
  BY <1>16, <1>18 DEF RefuseReplace, Exits
<1>19. CASE Replace
  BY <1>16, <1>19 DEF Replace, Exits
<1>20. CASE UNCHANGED vars
  BY <1>16, <1>20 DEF vars
<1> QED
  BY <1>3, <1>4, <1>5, <1>6, <1>7, <1>8, <1>9, <1>10, <1>12, <1>14, <1>15, <1>17, <1>18,
     <1>19, <1>20 DEF Next

-----------------------------------------------------------------------------
(* Groups                                                                  *)

(* What is said of positions stays while the input does.                   *)
LEMMA InputStays ==
  ASSUME UNCHANGED input
  PROVE  /\ \A p : At(p)' = At(p) /\ (Joins(p) <=> Joins(p)')
         /\ \A ps : GroupOf(ps)' = GroupOf(ps)
         /\ \A c, ps : From(c, ps)' <=> From(c, ps)
         /\ FaultyAt' = FaultyAt
BY DEF At, Joins, GroupOf, From, FaultyAt

LEMMA GroupsStay ==
  ASSUME UNCHANGED <<input, groups>>
  PROVE  /\ \A g : KeyOf(g)' = KeyOf(g)
         /\ DisputedAt' = DisputedAt
         /\ \A err, c, g : Solved(err, c, g)' <=> Solved(err, c, g)
<1>1. \A g : KeyOf(g)' = KeyOf(g)
  BY DEF KeyOf, At
<1>2. DisputedAt' = DisputedAt
  BY DEF DisputedAt, At, GroupOf
<1>3. ASSUME NEW err, NEW c, NEW g PROVE Solved(err, c, g)' <=> Solved(err, c, g)
  BY DEF Solved, From, GroupOf, KeyOf, At
<1> QED
  BY <1>1, <1>2, <1>3

LEMMA InitGrouped == Init => Grouped
BY DEF Init, Grouped

LEMMA GroupedStays ==
  ASSUME Grouped, UNCHANGED <<input, groups, i>>
  PROVE  Grouped'
<1>1. /\ \A p : At(p)' = At(p) /\ (Joins(p) <=> Joins(p)')
      /\ \A g : KeyOf(g)' = KeyOf(g)
  BY InputStays, GroupsStay
<1> QED
  BY <1>1 DEF Grouped

(* A position that joins no group is passed over.                          *)
LEMMA GroupedPasses ==
  ASSUME Types, Grouped, UNCHANGED <<input, groups>>, i' = i + 1, ~Joins(i)
  PROVE  Grouped'
<1>1. /\ \A p : At(p)' = At(p) /\ (Joins(p) <=> Joins(p)')
      /\ \A g : KeyOf(g)' = KeyOf(g)
  BY InputStays, GroupsStay
<1>2. i \in Nat /\ DOMAIN input = 1 .. Len(input) /\ Len(input) \in Nat
  <2>1. input \in Seq(Shares \cup {Undecoded}) /\ i \in 1 .. Len(input) + 1
    BY DEF Types, TypeOK
  <2>2. DOMAIN input = 1 .. Len(input) /\ Len(input) \in Nat
    BY <2>1, SeqHas
  <2> QED
    BY <2>1, <2>2
<1>3. \A p \in DOMAIN input : p < i + 1 <=> p < i \/ p = i
  BY <1>2
<1>4. ASSUME NEW g \in DOMAIN groups, NEW p \in ToSet(groups[g]) PROVE p < i + 1
  <2>1. p < i /\ p \in DOMAIN input
    BY GroupsJoin DEF Grouped
  <2> QED
    BY <1>2, <2>1
<1>5. \A p \in DOMAIN input : Joins(p) /\ p < i + 1 => \E g \in DOMAIN groups : p \in ToSet(groups[g])
  BY <1>3 DEF Grouped
<1> QED
  BY <1>1, <1>4, <1>5 DEF Grouped

LEMMA GroupedJoin ==
  ASSUME Types, Grouped, JoinGroup
  PROVE  Grouped'
<1>0. PICK m : m = Len(groups)
  OBVIOUS
<1>1. /\ i \in DOMAIN input
      /\ DOMAIN groups = 1 .. m /\ m \in Nat
  BY <1>0, JoinAdds
<1>2. UNCHANGED input /\ i' = i + 1 /\ Joins(i)
  BY DEF JoinGroup, Joins
<1>3. \A p : At(p)' = At(p) /\ (Joins(p) <=> Joins(p)')
  BY <1>2, InputStays
<1>4. DOMAIN input = 1 .. Len(input) /\ Len(input) \in Nat /\ i \in Nat
  <2>1. input \in Seq(Shares \cup {Undecoded})
    BY DEF Types, TypeOK
  <2>2. DOMAIN input = 1 .. Len(input) /\ Len(input) \in Nat
    BY <2>1, SeqHas
  <2> QED
    BY <1>1, <2>2
<1>5. \A p \in DOMAIN input : p < i + 1 <=> p < i \/ p = i
  BY <1>4
<1>6. ASSUME NEW g \in DOMAIN groups
      PROVE  /\ groups[g] \in Seq(DOMAIN input) /\ groups[g] # <<>>
             /\ DOMAIN groups[g] = 1 .. Len(groups[g]) /\ Len(groups[g]) \in Nat
             /\ 1 \in DOMAIN groups[g] /\ groups[g][1] \in ToSet(groups[g])
             /\ \A p \in ToSet(groups[g]) : Joins(p) /\ p < i /\ p \in DOMAIN input
                                            /\ p < i + 1 /\ At(p).set = KeyOf(g)
  <2>1. /\ groups[g] \in Seq(DOMAIN input) /\ groups[g] # <<>>
        /\ groups[g][1] \in ToSet(groups[g])
        /\ \A p \in ToSet(groups[g]) : Joins(p) /\ p \in DOMAIN input /\ At(p).set = KeyOf(g)
    BY GroupsJoin
  <2>2. \A p \in ToSet(groups[g]) : p < i
    BY DEF Grouped
  <2>3. DOMAIN groups[g] = 1 .. Len(groups[g]) /\ Len(groups[g]) \in Nat
    BY <2>1, SeqHas
  <2>4. 1 \in DOMAIN groups[g]
    BY <2>1, <2>3
  <2> QED
    BY <1>5, <2>1, <2>2, <2>3, <2>4
<1>7. ASSUME \A g \in DOMAIN groups : KeyOf(g) # At(i).set,
             DOMAIN groups' = 1 .. m + 1,
             \A g \in DOMAIN groups : groups'[g] = groups[g],
             groups'[m + 1] = <<i>>
      PROVE  Grouped'
  <2>1. \A g \in DOMAIN groups : KeyOf(g)' = KeyOf(g)
    BY <1>3, <1>7 DEF KeyOf
  <2>2. KeyOf(m + 1)' = At(i).set
    <3>1. groups'[m + 1][1] = i
      BY <1>7
    <3> QED
      BY <1>3, <3>1 DEF KeyOf
  <2>3. /\ DOMAIN groups \subseteq DOMAIN groups' /\ m + 1 \in DOMAIN groups'
        /\ \A g \in DOMAIN groups' : g \in DOMAIN groups \/ g = m + 1
        /\ \A g \in DOMAIN groups : g < m + 1
    BY <1>1, <1>7
  <2>4. ToSet(groups'[m + 1]) = {i} /\ DOMAIN groups'[m + 1] = {1}
    BY <1>7 DEF ToSet
  <2>5. ASSUME NEW g \in DOMAIN groups', NEW p \in ToSet(groups'[g])
        PROVE  Joins(p) /\ p < i + 1 /\ At(p).set = KeyOf(g)'
    <3>1. CASE g \in DOMAIN groups
      BY <1>6, <1>7, <2>1, <3>1
    <3>2. CASE g = m + 1
      BY <1>2, <1>4, <2>2, <2>4, <3>2
    <3> QED
      BY <2>3, <3>1, <3>2
  <2>6. ASSUME NEW p \in DOMAIN input, Joins(p), p < i + 1
        PROVE  \E g \in DOMAIN groups' : p \in ToSet(groups'[g])
    <3>1. CASE p < i
      <4>1. PICK g \in DOMAIN groups : p \in ToSet(groups[g])
        BY <2>6, <3>1 DEF Grouped
      <4> QED
        BY <1>7, <2>3, <4>1
    <3>2. CASE p = i
      BY <2>3, <2>4, <3>2
    <3> QED
      BY <1>5, <2>6, <3>1, <3>2
  <2>7. ASSUME NEW g \in DOMAIN groups', NEW h \in DOMAIN groups', KeyOf(g)' = KeyOf(h)'
        PROVE  g = h
    <3>1. CASE g \in DOMAIN groups /\ h \in DOMAIN groups
      BY <2>1, <2>7, <3>1 DEF Grouped
    <3>2. CASE g = m + 1 /\ h \in DOMAIN groups
      BY <1>7, <2>1, <2>2, <2>7, <3>2
    <3>3. CASE g \in DOMAIN groups /\ h = m + 1
      BY <1>7, <2>1, <2>2, <2>7, <3>3
    <3> QED
      BY <2>3, <3>1, <3>2, <3>3
  <2>8. ASSUME NEW g \in DOMAIN groups', NEW a \in DOMAIN groups'[g], NEW b \in DOMAIN groups'[g],
               a < b
        PROVE  groups'[g][a] < groups'[g][b]
    <3>1. CASE g \in DOMAIN groups
      BY <1>7, <2>8, <3>1 DEF Grouped
    <3>2. CASE g = m + 1
      BY <2>4, <2>8, <3>2
    <3> QED
      BY <2>3, <3>1, <3>2
  <2>9. ASSUME NEW g \in DOMAIN groups', NEW h \in DOMAIN groups', g < h
        PROVE  groups'[g][1] < groups'[h][1]
    <3>1. CASE g \in DOMAIN groups /\ h \in DOMAIN groups
      BY <1>7, <2>9, <3>1 DEF Grouped
    <3>2. CASE g \in DOMAIN groups /\ h = m + 1
      BY <1>6, <1>7, <3>2
    <3>3. CASE g = m + 1
      BY <1>1, <1>7, <2>9, <3>3
    <3> QED
      BY <2>3, <3>1, <3>2, <3>3
  <2> QED
    BY <1>2, <1>3, <2>5, <2>6, <2>7, <2>8, <2>9 DEF Grouped
<1>8. ASSUME DOMAIN groups' = DOMAIN groups, NEW h \in DOMAIN groups,
             KeyOf(h) = At(i).set, groups'[h] = Append(groups[h], i),
             \A g \in DOMAIN groups : g # h => groups'[g] = groups[g]
      PROVE  Grouped'
  <2> DEFINE l == Len(groups[h])
  <2>1. /\ DOMAIN groups'[h] = 1 .. l + 1 /\ l \in Nat /\ DOMAIN groups[h] = 1 .. l
        /\ \A n \in DOMAIN groups[h] : groups'[h][n] = groups[h][n]
        /\ groups'[h][l + 1] = i
        /\ ToSet(groups'[h]) = ToSet(groups[h]) \cup {i}
    <3>1. groups[h] \in Seq(DOMAIN input)
      BY <1>6
    <3> QED
      BY <1>1, <1>8, <3>1, AppendHas, SeqHas, AppendAdds
  <2>2. \A g \in DOMAIN groups : groups'[g][1] = groups[g][1]
    <3> SUFFICES ASSUME NEW g \in DOMAIN groups PROVE groups'[g][1] = groups[g][1]
      OBVIOUS
    <3>1. 1 \in DOMAIN groups[g]
      BY <1>6
    <3> QED
      BY <1>8, <2>1, <3>1
  <2>3. \A g \in DOMAIN groups : KeyOf(g)' = KeyOf(g)
    BY <1>3, <2>2 DEF KeyOf
  <2> HIDE DEF l
  <2>5. ASSUME NEW g \in DOMAIN groups, NEW p \in ToSet(groups'[g])
        PROVE  Joins(p) /\ p < i + 1 /\ At(p).set = KeyOf(g)'
    <3>1. CASE p \in ToSet(groups[g])
      BY <1>6, <2>3, <3>1
    <3>2. CASE p \notin ToSet(groups[g])
      <4>1. g = h /\ p = i
        BY <1>8, <2>1, <3>2
      <4> QED
        BY <1>2, <1>4, <1>8, <2>3, <4>1
    <3> QED
      BY <3>1, <3>2
  <2>6. ASSUME NEW p \in DOMAIN input, Joins(p), p < i + 1
        PROVE  \E g \in DOMAIN groups : p \in ToSet(groups'[g])
    <3>1. CASE p < i
      <4>1. PICK g \in DOMAIN groups : p \in ToSet(groups[g])
        BY <2>6, <3>1 DEF Grouped
      <4> QED
        BY <1>8, <2>1, <4>1
    <3>2. CASE p = i
      BY <2>1, <3>2
    <3> QED
      BY <1>5, <2>6, <3>1, <3>2
  <2>7. ASSUME NEW g \in DOMAIN groups, NEW o \in DOMAIN groups, KeyOf(g)' = KeyOf(o)'
        PROVE  g = o
    BY <2>3, <2>7 DEF Grouped
  <2>8. ASSUME NEW g \in DOMAIN groups, NEW a \in DOMAIN groups'[g], NEW b \in DOMAIN groups'[g],
               a < b
        PROVE  groups'[g][a] < groups'[g][b]
    <3>1. CASE g # h
      BY <1>8, <2>8, <3>1 DEF Grouped
    <3>2. CASE g = h /\ b \in DOMAIN groups[h]
      <4>1. a \in DOMAIN groups[h]
        BY <2>1, <2>8, <3>2
      <4> QED
        BY <2>1, <2>8, <3>2, <4>1 DEF Grouped
    <3>3. CASE g = h /\ b \notin DOMAIN groups[h]
      <4>1. a \in DOMAIN groups[h] /\ b = l + 1
        BY <2>1, <2>8, <3>3
      <4>2. groups[h][a] \in ToSet(groups[h])
        BY <4>1 DEF ToSet
      <4> QED
        BY <1>6, <2>1, <3>3, <4>1, <4>2
    <3> QED
      BY <3>1, <3>2, <3>3
  <2>9. ASSUME NEW g \in DOMAIN groups, NEW o \in DOMAIN groups, g < o
        PROVE  groups'[g][1] < groups'[o][1]
    BY <2>2, <2>9 DEF Grouped
  <2> QED
    BY <1>2, <1>3, <1>8, <2>5, <2>6, <2>7, <2>8, <2>9 DEF Grouped
<1> QED
  BY <1>0, <1>7, <1>8, JoinAdds

(* What the groups hold, at every step.                                    *)
LEMMA GroupedStep ==
  ASSUME Types, Grouped, Next
  PROVE  Grouped'
<1>1. CASE UNCHANGED <<input, groups, i>>
  BY <1>1, GroupedStays
<1>2. CASE SkipUndecoded
  BY <1>2, GroupedPasses DEF SkipUndecoded, Joins
<1>3. CASE RejectFaulty
  BY <1>3, GroupedPasses DEF RejectFaulty, Joins
<1>4. CASE JoinGroup
  BY <1>4, GroupedJoin
<1> QED
  BY <1>1, <1>2, <1>3, <1>4 DEF Next, NothingFound, MarkDisputed, OpenSet, TryChoice,
     NoChoiceFits, ReportTooFew, ReportFailure, ReportResult, Proceed, FinishRecover,
     RefuseReplace, Replace, vars

-----------------------------------------------------------------------------
(* What is left out                                                        *)

LEMMA InitLeftOut == Init => LeftOut
<1> SUFFICES ASSUME Init PROVE LeftOut
  OBVIOUS
<1>1. input \in Seq(Shares \cup {Undecoded})
  BY InputsAssumption DEF Init
<1>2. DOMAIN input = 1 .. Len(input)
  BY <1>1, SeqHas
<1>3. \A p \in DOMAIN input : ~ (p < 1)
  BY <1>2
<1> QED
  BY <1>3 DEF Init, LeftOut, FaultyAt, ToSet

LEMMA LeftOutStays ==
  ASSUME LeftOut, pc # "group", pc' # "group", UNCHANGED <<input, groups, i>>, said \subseteq said',
         \A l \in said' \ said : l.kind # "left out"
  PROVE  LeftOut'
<1>1. /\ \A p : At(p)' = At(p)
      /\ FaultyAt' = FaultyAt /\ DisputedAt' = DisputedAt
  BY InputStays, GroupsStay
<1>2. ASSUME NEW p \in DOMAIN input
      PROVE  Says("left out", 0, p) \in said' <=> Says("left out", 0, p) \in said
  <2>1. Says("left out", 0, p).kind = "left out"
    BY DEF Says
  <2> QED
    BY <2>1
<1>3. /\ i = Len(input) + 1
      /\ \A p \in DOMAIN input :
          /\ At(p) = Undecoded /\ p < i => Says("undecoded", 0, p) \in said
          /\ Says("left out", 0, p) \in said <=> p \in FaultyAt \cup DisputedAt
  BY DEF LeftOut
<1>4. \A p \in DOMAIN input :
          /\ At(p)' = Undecoded /\ p < i' => Says("undecoded", 0, p) \in said'
          /\ Says("left out", 0, p) \in said' <=> p \in FaultyAt' \cup DisputedAt'
  BY <1>1, <1>2, <1>3
<1> QED
  BY <1>3, <1>4 DEF LeftOut

LEMMA LeftOutStep ==
  ASSUME Types, Grouped, LeftOut, Next
  PROVE  LeftOut'
<1>1. /\ DOMAIN input = 1 .. Len(input) /\ Len(input) \in Nat /\ i \in Nat /\ i >= 1
      /\ i <= Len(input) + 1
      /\ rejected \in Seq(DOMAIN input)
  <2>1. /\ input \in Seq(Shares \cup {Undecoded}) /\ i \in 1 .. Len(input) + 1
        /\ rejected \in Seq(DOMAIN input)
    BY DEF Types, TypeOK
  <2>2. DOMAIN input = 1 .. Len(input) /\ Len(input) \in Nat
    BY <2>1, SeqHas
  <2> QED
    BY <2>1, <2>2
<1>2. /\ \A p \in DOMAIN input : p < i + 1 <=> p < i \/ p = i
      /\ FaultyAt \subseteq DOMAIN input
  BY <1>1 DEF FaultyAt
<1>3. CASE NothingFound
  <2>1. Len(input) = 0 /\ DOMAIN input = {} /\ i = 1
    BY <1>1, <1>3 DEF NothingFound
  <2>2. i' = Len(input') + 1 /\ DOMAIN input' = {} /\ pc' = "exited"
    BY <1>3, <2>1 DEF NothingFound, Exits
  <2> QED
    BY <2>2 DEF LeftOut
<1>4. ASSUME pc = "group", pc' = "group", UNCHANGED <<input, j, results>>, i' = i + 1,
             ToSet(rejected') = {p \in FaultyAt : p < i + 1},
             said \subseteq said',
             At(i) = Undecoded => Says("undecoded", 0, i) \in said',
             \A l \in said' \ said : l.kind # "left out"
      PROVE  LeftOut'
  <2>1. (\A p : At(p)' = At(p)) /\ FaultyAt' = FaultyAt
    BY <1>4, InputStays
  <2>2. ToSet(rejected') = {p \in FaultyAt' : p < i'} /\ j' = 1 /\ results' = <<>>
    BY <1>4, <2>1 DEF LeftOut
  <2>3. ASSUME NEW p \in DOMAIN input
        PROVE  /\ At(p)' = Undecoded /\ p < i' => Says("undecoded", 0, p) \in said'
               /\ Says("left out", 0, p) \notin said'
    <3>1. Says("left out", 0, p).kind = "left out"
      BY DEF Says
    <3>2. Says("left out", 0, p) \notin said
      BY <1>4 DEF LeftOut
    <3>3. At(p) = Undecoded /\ p < i => Says("undecoded", 0, p) \in said
      BY DEF LeftOut
    <3> QED
      BY <1>2, <1>4, <2>1, <3>1, <3>2, <3>3
  <2> QED
    BY <1>4, <2>2, <2>3 DEF LeftOut
<1>5. CASE SkipUndecoded
  <2>1. i \notin FaultyAt
    BY <1>5 DEF SkipUndecoded, FaultyAt
  <2>2. ToSet(rejected') = {p \in FaultyAt : p < i + 1}
    BY <1>2, <1>5, <2>1 DEF SkipUndecoded, LeftOut
  <2>3. \A l \in said' \ said : l.kind # "left out"
    <3> DEFINE l == Says("undecoded", 0, i)
    <3>1. l.kind = "undecoded"
      BY DEF Says
    <3>2. said' = said \cup {l}
      BY <1>5 DEF SkipUndecoded
    <3> HIDE DEF l
    <3> QED
      BY <3>1, <3>2
  <2> QED
    BY <1>4, <1>5, <2>2, <2>3 DEF SkipUndecoded
<1>6. CASE RejectFaulty
  <2>1. i \in FaultyAt
    BY <1>1, <1>6 DEF RejectFaulty, FaultyAt
  <2>2. ToSet(rejected) = {p \in FaultyAt : p < i}
    BY <1>6 DEF RejectFaulty, LeftOut
  <2>3. ToSet(rejected') = ToSet(rejected) \cup {i}
    BY <1>1, <1>6, AppendAdds DEF RejectFaulty
  <2>4. ToSet(rejected') = {p \in FaultyAt : p < i + 1}
    BY <1>1, <1>2, <2>1, <2>2, <2>3
  <2> QED
    BY <1>4, <1>6, <2>4 DEF RejectFaulty
<1>7. CASE JoinGroup
  <2>1. i \notin FaultyAt
    BY <1>7 DEF JoinGroup, FaultyAt
  <2>2. ToSet(rejected') = {p \in FaultyAt : p < i + 1}
    BY <1>2, <1>7, <2>1 DEF JoinGroup, LeftOut
  <2> QED
    BY <1>4, <1>7, <2>2 DEF JoinGroup
<1>8. CASE MarkDisputed
  <2>1. i = Len(input) + 1 /\ pc = "group" /\ pc' = "open" /\ UNCHANGED <<input, groups, i>>
    <3>1. pc = "group" /\ i > Len(input) /\ pc' = "open" /\ UNCHANGED <<input, groups, i>>
      BY <1>8 DEF MarkDisputed
    <3> QED
      BY <1>1, <3>1
  <2>2. /\ \A p : At(p)' = At(p)
        /\ FaultyAt' = FaultyAt /\ DisputedAt' = DisputedAt
    BY <2>1, InputStays, GroupsStay
  <2>3. \A p \in FaultyAt : p < i
    BY <1>1, <1>2, <2>1
  <2>4. ToSet(rejected) = FaultyAt
    BY <2>1, <2>3 DEF LeftOut
  <2>5. said' = said \cup {Says("left out", 0, p) : p \in FaultyAt \cup DisputedAt}
    BY <1>8, <2>4 DEF MarkDisputed
  <2>6. ASSUME NEW p \in DOMAIN input
        PROVE  /\ At(p)' = Undecoded /\ p < i' => Says("undecoded", 0, p) \in said'
               /\ Says("left out", 0, p) \in said' <=> p \in FaultyAt \cup DisputedAt
    <3>1. \A q : Says("left out", 0, q) = Says("left out", 0, p) => q = p
      BY DEF Says
    <3>2. Says("left out", 0, p) \notin said
      BY <2>1 DEF LeftOut
    <3>3. At(p) = Undecoded /\ p < i => Says("undecoded", 0, p) \in said
      BY DEF LeftOut
    <3> QED
      BY <2>1, <2>2, <2>5, <3>1, <3>2, <3>3
  <2> QED
    BY <2>1, <2>2, <2>6 DEF LeftOut
<1>9. ASSUME pc # "group", pc' # "group", UNCHANGED <<input, groups, i, said>>
      PROVE  LeftOut'
  BY <1>9, LeftOutStays
<1>10. ASSUME pc = "report", Proceed, NEW S, said' = said \cup S, \A l \in S : l.kind # "left out"
       PROVE  LeftOut'
  BY <1>10, LeftOutStays DEF Proceed
<1>11. CASE ReportTooFew
  <2> DEFINE g == GroupOf(groups[j])
             S == {Says("too few", j, 0)} \cup
                     (IF Disputed(g) # {} /\ Cardinality(XsOf(g)) >= K
                      THEN {Says("no choice fits", j, 0)} ELSE {})
  <2>1. said' = said \cup S
    BY <1>11 DEF ReportTooFew
  <2>2. \A l \in S : l.kind # "left out"
    <3> DEFINE l == Says("too few", j, 0)
               m == Says("no choice fits", j, 0)
    <3>1. l.kind = "too few" /\ m.kind = "no choice fits"
      BY DEF Says
    <3>2. S \subseteq {l, m}
      OBVIOUS
    <3> HIDE DEF l, m, S
    <3> QED
      BY <3>1, <3>2
  <2> HIDE DEF S
  <2> QED
    BY <1>10, <1>11, <2>1, <2>2 DEF ReportTooFew
<1>12. CASE ReportFailure
  <2> DEFINE l == Says(Failure(opened.err, GroupOf(groups[j])), j, 0)
             S == {l}
  <2>1. said' = said \cup {l} /\ pc = "report" /\ Proceed
    BY <1>12 DEF ReportFailure
  <2>2. l.kind # "left out"
    BY DEF Says, Failure
  <2>3. said' = said \cup S /\ \A m \in S : m.kind # "left out"
    BY <2>1, <2>2
  <2> HIDE DEF l, S
  <2> QED
    BY <1>10, <2>1, <2>3
<1>13. CASE ReportResult
  <2>1. said' = said \cup Blame(groups[j], opened.solving)
    BY <1>13 DEF ReportResult
  <2>2. \A l \in Blame(groups[j], opened.solving) : l.kind # "left out"
    <3>1. /\ \A p : Says("is wrong", j, p).kind = "is wrong"
          /\ \A p : Says("is right", j, p).kind = "is right"
      BY DEF Says
    <3> QED
      BY <3>1, Zenon DEF Blame
  <2> QED
    BY <1>10, <1>13, <2>1, <2>2 DEF ReportResult
<1>14. CASE UNCHANGED vars
  BY <1>14, InputStays, GroupsStay DEF vars, LeftOut
<1> QED
  BY <1>3, <1>5, <1>6, <1>7, <1>8, <1>9, <1>11, <1>12, <1>13, <1>14 DEF Next, OpenSet, TryChoice,
     NoChoiceFits, FinishRecover, RefuseReplace, Replace, AllOpened, Exits

-----------------------------------------------------------------------------
(* How sets are opened                                                     *)

(* Shares that hold K right x are not none.                                *)
LEMMA SolvingThere ==
  ASSUME NEW g \in Seq(Shares), Cardinality(RightXs(g)) >= K
  PROVE  g # <<>>
<1> SUFFICES ASSUME g = <<>> PROVE FALSE
  OBVIOUS
<1>1. RightXs(g) = {}
  BY DEF RightXs, Undisputed, XsOf
<1> QED
  BY <1>1, FS_EmptySet, KAssumption

(* Shares from a group are shares of its set.                              *)
LEMMA FromGroup ==
  ASSUME Types, Grouped, NEW g \in DOMAIN groups, NEW c \in Seq(DOMAIN input), From(c, groups[g])
  PROVE  /\ GroupOf(c) \in Seq(Shares) /\ Len(GroupOf(c)) = Len(c)
         /\ \A p \in ToSet(c) : Joins(p) /\ At(p).set = KeyOf(g)
<1>1. input \in Inputs /\ \A p \in ToSet(c) : Joins(p) /\ At(p).set = KeyOf(g)
  BY GroupsJoin DEF From
<1> QED
  BY <1>1, GroupOfTyped

LEMMA SolvedBy ==
  ASSUME Types, Grouped, NEW g \in DOMAIN groups, NEW c \in Seq(DOMAIN input),
         From(c, groups[g]), NEW how \in Solves(GroupOf(c)),
         NEW err, err = IF how = "ok" THEN Content(c) ELSE how
  PROVE  Solved(err, c, g) /\ err # "none"
<1>1. /\ GroupOf(c) \in Seq(Shares) /\ Len(GroupOf(c)) = Len(c)
      /\ \A p \in ToSet(c) : At(p).set = KeyOf(g)
  BY FromGroup
<1>2. CASE how = "ok"
  <2>1. Cardinality(RightXs(GroupOf(c))) >= K
    BY <1>1, <1>2, SolvesFromRight
  <2>2. GroupOf(c) # <<>>
    BY <1>1, <2>1, SolvingThere
  <2>3. Head(c) \in ToSet(c)
    <3>1. Len(c) # 0 /\ Len(c) \in Nat /\ DOMAIN c = 1 .. Len(c)
      BY <1>1, <2>2
    <3>2. 1 \in DOMAIN c /\ Head(c) = c[1]
      BY <3>1
    <3> QED
      BY <3>2 DEF ToSet
  <2>4. err = IF KeyOf(g) \in Descriptors THEN "ok" ELSE "content"
    BY <1>1, <1>2, <2>3 DEF Content
  <2> QED
    BY <2>1, <2>4 DEF Solved
<1>3. CASE how # "ok"
  <2>1. err \in {"too few", "id", "stopped"}
    BY <1>3 DEF Solves
  <2> QED
    BY <2>1 DEF Solved
<1> QED
  BY <1>2, <1>3

LEMMA InitOpening == Init => Opening
BY DEF Init, Opening

LEMMA OpeningStep ==
  ASSUME Types, Grouped, LeftOut, Opening, Next
  PROVE  Opening'
<1>1. /\ DOMAIN groups = 1 .. Len(groups) /\ Len(groups) \in Nat /\ j \in Nat /\ j >= 1
      /\ todo \in Seq(Seq(DOMAIN input)) /\ input \in Inputs
  <2>1. /\ groups \in Seq(Seq(DOMAIN input)) /\ j \in 1 .. Len(groups) + 1
        /\ todo \in Seq(Seq(DOMAIN input)) /\ input \in Inputs
    BY DEF Types, TypeOK
  <2>2. DOMAIN groups = 1 .. Len(groups) /\ Len(groups) \in Nat
    BY <2>1, SeqHas
  <2> QED
    BY <2>1, <2>2
<1>2. ASSUME pc = "group", pc' \notin {"choose", "report"}, UNCHANGED results
      PROVE  Opening'
  <2>1. results' = <<>>
    BY <1>2 DEF LeftOut
  <2>2. DOMAIN results' = {}
    BY <2>1
  <2> QED
    BY <1>2, <2>2, Zenon DEF Opening
<1>3. ASSUME UNCHANGED <<input, groups, j, results>>,
             pc' \in {"choose", "report"} =>
                /\ j \in DOMAIN groups
                /\ opened'.err # "none"
                /\ Solved(opened'.err, opened'.solving, j),
             pc' = "choose" => /\ opened'.err = "too few"
                               /\ \A c \in ToSet(todo') : From(c, groups[j])
      PROVE  Opening'
  <2>1. /\ \A err, c, g : Solved(err, c, g)' <=> Solved(err, c, g)
        /\ \A c, ps : From(c, ps)' <=> From(c, ps)
    BY <1>3, InputStays, GroupsStay
  <2>2. /\ pc' \in {"choose", "report"} =>
              /\ j' \in DOMAIN groups' /\ opened'.err # "none"
              /\ Solved(opened.err, opened.solving, j)'
    BY <1>3 DEF Solved, From, GroupOf, KeyOf, At
  <2>3. pc' = "choose" => /\ opened'.err = "too few"
                          /\ \A c \in ToSet(todo') : From(c, groups[j])'
    BY <1>3 DEF From, GroupOf, At
  <2>4. \A n \in DOMAIN results' :
           /\ results'[n].set \in DOMAIN groups' /\ results'[n].set < j'
           /\ Solved(results[n].err, results[n].solving, results[n].set)'
    BY <1>3 DEF Opening, Solved, From, GroupOf, KeyOf, At
  <2>5. \A m, n \in DOMAIN results' : m < n => results'[m].set < results'[n].set
    BY <1>3 DEF Opening
  <2> QED
    BY <2>2, <2>3, <2>4, <2>5 DEF Opening
<1>4. CASE NothingFound
  BY <1>2, <1>4 DEF NothingFound, Exits
<1>5. CASE SkipUndecoded \/ RejectFaulty \/ JoinGroup
  BY <1>2, <1>5 DEF SkipUndecoded, RejectFaulty, JoinGroup
<1>6. CASE MarkDisputed
  BY <1>2, <1>6 DEF MarkDisputed
<1>7. CASE OpenSet
  <2>1. j \in DOMAIN groups
    <3>1. j <= Len(groups)
      BY <1>7 DEF OpenSet
    <3> QED
      BY <1>1, <3>1
  <2>2. groups[j] \in Seq(DOMAIN input) /\ \A p \in ToSet(groups[j]) : Joins(p)
    BY <2>1, GroupsJoin
  <2>3. From(groups[j], groups[j])
    BY DEF From
  <2>4. PICK how \in Solves(GroupOf(groups[j])) :
           /\ opened' = [err |-> IF how = "ok" THEN Content(groups[j]) ELSE how,
                         solving |-> groups[j]]
           /\ \/ how = "too few" /\ pc' = "choose" /\ todo' = ChoiceSeq(groups[j])
              \/ pc' = "report" /\ todo' = <<>>
    BY <1>7 DEF OpenSet
  <2>5. PICK err : err = IF how = "ok" THEN Content(groups[j]) ELSE how
    OBVIOUS
  <2>6. Solved(err, groups[j], j) /\ err # "none"
    BY <2>1, <2>2, <2>3, <2>5, SolvedBy
  <2>7. opened'.err = err /\ opened'.solving = groups[j]
    BY <2>4, <2>5
  <2>8. ASSUME pc' = "choose" PROVE err = "too few" /\ \A c \in ToSet(todo') : From(c, groups[j])
    <3>1. how = "too few" /\ todo' = ChoiceSeq(groups[j])
      BY <2>4, <2>8
    <3>2. InOrder(groups[j]) \in Seq(Nat)
      BY <1>1, <2>2, InOrderTyped
    <3> QED
      BY <2>2, <2>5, <3>1, <3>2, ChoicesFrom
  <2>9. UNCHANGED <<input, groups, j, results>>
    BY <1>7 DEF OpenSet
  <2> QED
    BY <1>3, <2>1, <2>6, <2>7, <2>8, <2>9
<1>8. CASE TryChoice
  <2>1. j \in DOMAIN groups /\ Solved(opened.err, opened.solving, j) /\ opened.err = "too few"
    BY <1>8 DEF TryChoice, Opening
  <2>2. PICK c : c = Head(todo)
    OBVIOUS
  <2>3. /\ c \in Seq(DOMAIN input) /\ From(c, groups[j])
        /\ \A e \in ToSet(Tail(todo)) : From(e, groups[j])
    <3>1. /\ Len(todo) \in Nat \ {0} /\ DOMAIN todo = 1 .. Len(todo)
          /\ Head(todo) = todo[1]
          /\ DOMAIN Tail(todo) = 1 .. Len(todo) - 1
          /\ \A n \in 1 .. Len(todo) - 1 : Tail(todo)[n] = todo[n + 1]
      BY <1>1, <1>8 DEF TryChoice
    <3>2. \A n \in DOMAIN todo : From(todo[n], groups[j])
      BY <1>8 DEF TryChoice, Opening, ToSet
    <3>3. 1 \in DOMAIN todo /\ \A n \in 1 .. Len(todo) - 1 : n + 1 \in DOMAIN todo
      BY <3>1
    <3>4. \A e \in ToSet(Tail(todo)) : From(e, groups[j])
      BY <3>1, <3>2, <3>3 DEF ToSet
    <3>5. c \in Seq(DOMAIN input)
      BY <1>1, <2>2, <3>1, <3>3
    <3> QED
      BY <2>2, <3>1, <3>2, <3>3, <3>4, <3>5
  <2>4. PICK how \in Solves(GroupOf(c)) :
           IF how \in {"id", "stopped"} THEN UNCHANGED <<pc, opened>>
           ELSE /\ pc' = "report"
                /\ opened' = [err |-> IF how = "ok" THEN Content(c) ELSE how, solving |-> c]
    BY <1>8, <2>2 DEF TryChoice
  <2>5. PICK err : err = IF how = "ok" THEN Content(c) ELSE how
    OBVIOUS
  <2>6. Solved(err, c, j) /\ err # "none"
    BY <2>1, <2>3, <2>5, SolvedBy
  <2>7. UNCHANGED <<input, groups, j, results>> /\ todo' = Tail(todo)
    BY <1>8 DEF TryChoice
  <2>8. CASE how \in {"id", "stopped"}
    BY <1>3, <2>1, <2>3, <2>4, <2>7, <2>8
  <2>9. CASE how \notin {"id", "stopped"}
    <3>1. pc' = "report" /\ opened'.err = err /\ opened'.solving = c
      BY <2>4, <2>5, <2>9
    <3> QED
      BY <1>3, <2>1, <2>6, <2>7, <3>1
  <2> QED
    BY <2>8, <2>9
<1>9. CASE NoChoiceFits
  BY <1>3, <1>9 DEF NoChoiceFits, Opening
<1>10. CASE ReportTooFew
  <2>1. /\ UNCHANGED <<input, groups, results>> /\ j' = j + 1 /\ pc' = "open"
    BY <1>10 DEF ReportTooFew, Proceed
  <2>2. \A n \in DOMAIN results' :
           /\ results'[n].set \in DOMAIN groups' /\ results'[n].set < j + 1
           /\ Solved(results[n].err, results[n].solving, results[n].set)'
    <3>1. \A n \in DOMAIN results : results[n].set \in DOMAIN groups /\ results[n].set < j
      BY DEF Opening
    <3>2. \A n \in DOMAIN results : results[n].set < j + 1
      BY <1>1, <3>1
    <3> QED
      BY <2>1, <3>1, <3>2 DEF Opening, Solved, From, GroupOf, KeyOf, At
  <2>3. \A m, n \in DOMAIN results' : m < n => results'[m].set < results'[n].set
    BY <2>1 DEF Opening
  <2> QED
    BY <2>1, <2>2, <2>3 DEF Opening
<1>11. ASSUME Proceed, pc = "report", NEW err \in Errors, err = opened.err,
              results' = Append(results, [set |-> j, err |-> err, solving |-> opened.solving])
       PROVE  Opening'
  <2>1. /\ UNCHANGED <<input, groups>> /\ j' = j + 1 /\ pc' = "open"
    BY <1>11 DEF Proceed
  <2>2. PICK l : l = Len(results)
    OBVIOUS
  <2>3. PICK e : e = [set |-> j, err |-> err, solving |-> opened.solving]
    OBVIOUS
  <2>4. j \in DOMAIN groups /\ Solved(err, opened.solving, j)
    BY <1>11 DEF Opening
  <2>5. opened.solving \in Seq(DOMAIN input)
    BY DEF Types
  <2>6. /\ DOMAIN results' = 1 .. l + 1 /\ l \in Nat /\ DOMAIN results = 1 .. l
        /\ \A r \in DOMAIN results : results'[r] = results[r]
        /\ results'[l + 1] = e
    BY <1>11, <2>2, <2>3, <2>4, <2>5, ResultAdded
  <2>7. e.set = j /\ e.err = err /\ e.solving = opened.solving
    BY <2>3
  <2>8. \A n \in DOMAIN results' : n \in DOMAIN results \/ n = l + 1
    BY <2>6
  <2>9. \A n \in DOMAIN results : /\ results[n].set \in DOMAIN groups /\ results[n].set < j
                                  /\ Solved(results[n].err, results[n].solving, results[n].set)
    BY DEF Opening
  <2>10. \A g \in DOMAIN groups : g < j => g < j + 1
    BY <1>1
  <2>11. \A err1, c, g : Solved(err1, c, g)' <=> Solved(err1, c, g)
    BY <2>1, GroupsStay
  <2>12. ASSUME NEW n \in DOMAIN results'
         PROVE  /\ results'[n].set \in DOMAIN groups /\ results'[n].set < j + 1
                /\ Solved(results'[n].err, results'[n].solving, results'[n].set)
    <3>1. CASE n \in DOMAIN results
      BY <2>6, <2>9, <2>10, <3>1
    <3>2. CASE n = l + 1
      BY <1>1, <2>4, <2>6, <2>7, <3>2
    <3> QED
      BY <2>8, <3>1, <3>2
  <2>13. ASSUME NEW m \in DOMAIN results', NEW n \in DOMAIN results', m < n
         PROVE  results'[m].set < results'[n].set
    <3>1. m \in DOMAIN results
      BY <2>6, <2>13
    <3>2. CASE n \in DOMAIN results
      BY <2>6, <2>13, <3>1, <3>2 DEF Opening
    <3>3. CASE n = l + 1
      BY <2>6, <2>7, <2>9, <3>1, <3>3
    <3> QED
      BY <2>8, <3>2, <3>3
  <2>14. \A n \in DOMAIN results' :
            /\ results'[n].set \in DOMAIN groups' /\ results'[n].set < j'
            /\ Solved(results[n].err, results[n].solving, results[n].set)'
    <3> SUFFICES ASSUME NEW n \in DOMAIN results'
                 PROVE  /\ results'[n].set \in DOMAIN groups' /\ results'[n].set < j'
                        /\ Solved(results[n].err, results[n].solving, results[n].set)'
      OBVIOUS
    <3>1. Solved(results'[n].err, results'[n].solving, results'[n].set)
      BY <2>12
    <3>2. Solved(results[n].err, results[n].solving, results[n].set)'
      BY <2>1, <3>1 DEF Solved, From, GroupOf, KeyOf, At
    <3> QED
      BY <2>1, <2>12, <3>2
  <2> QED
    BY <2>1, <2>13, <2>14 DEF Opening
<1>12. CASE ReportFailure
  <2>1. /\ Proceed /\ pc = "report" /\ opened.err \in Errors
        /\ results' = Append(results, [set |-> j, err |-> opened.err, solving |-> opened.solving])
    BY <1>12 DEF ReportFailure, Errors
  <2> QED
    BY <1>11, <2>1
<1>13. CASE ReportResult
  <2>1. /\ Proceed /\ pc = "report" /\ opened.err = "ok" /\ "ok" \in Errors
        /\ results' = Append(results, [set |-> j, err |-> "ok", solving |-> opened.solving])
    BY <1>13 DEF ReportResult, Errors
  <2> QED
    BY <1>11, <2>1
<1>14. CASE FinishRecover \/ RefuseReplace \/ Replace
  BY <1>3, <1>14 DEF FinishRecover, RefuseReplace, Replace, Exits
<1>15. CASE UNCHANGED vars
  BY <1>3, <1>15 DEF vars, Opening
<1> QED
  BY <1>4, <1>5, <1>6, <1>7, <1>8, <1>9, <1>10, <1>12, <1>13, <1>14, <1>15 DEF Next

-----------------------------------------------------------------------------
(* Who is blamed                                                           *)

(* Shares of a group are told apart by x and text.                         *)
LEMMA SameShare ==
  ASSUME Types, Grouped, NEW g \in DOMAIN groups,
         NEW p \in ToSet(groups[g]), NEW q \in ToSet(groups[g])
  PROVE  At(p) = At(q) <=> At(p).x = At(q).x /\ At(p).text = At(q).text
<1>1. At(p) \in Good /\ At(q) \in Good /\ At(p).set = At(q).set
  BY GroupsJoin, JoinsGood
<1> QED
  BY <1>1 DEF Good

(* ShareAt gives the share of a position exactly when its text is right.   *)
LEMMA RightShare ==
  ASSUME Types, Grouped, NEW g \in DOMAIN groups, NEW p \in ToSet(groups[g])
  PROVE  At(p) = ShareAt(KeyOf(g), At(p).x) <=> At(p).text = Right
<1>1. At(p) \in Good /\ At(p).set = KeyOf(g)
  BY GroupsJoin, JoinsGood
<1> QED
  BY <1>1 DEF Good, ShareAt

(* An x has one text exactly when its shares are copies of one another.    *)
LEMMA OneTextOnly ==
  ASSUME Types, Grouped, NEW g \in DOMAIN groups, NEW p \in ToSet(groups[g])
  PROVE  At(p).x \notin Disputed(GroupOf(groups[g])) <=>
            \A q \in ToSet(groups[g]) : At(q).x = At(p).x => At(q) = At(p)
<1>1. \A x : x \in Disputed(GroupOf(groups[g])) <=>
          \E q, r \in ToSet(groups[g]) : At(q).x = x /\ At(r).x = x /\ At(q).text # At(r).text
  BY GroupsJoin, GroupOfXs
<1>2. \A q \in ToSet(groups[g]) : At(q) = At(p) <=> At(q).x = At(p).x /\ At(q).text = At(p).text
  BY SameShare
<1> QED
  BY <1>1, <1>2

(* audit's blame is exact, from whatever shares the set was solved.        *)
LEMMA BlameRight ==
  ASSUME Types, Grouped, j \in DOMAIN groups,
         NEW c \in Seq(DOMAIN input), From(c, groups[j]), NEW p \in ToSet(groups[j])
  PROVE  /\ Says("is wrong", j, p) \in Blame(groups[j], c) <=> At(p).text # Right
         /\ Says("is right", j, p) \in Blame(groups[j], c)
               <=> At(p).text = Right /\ At(p).x \in Disputed(GroupOf(groups[j]))
<1>1. PICK ps : ps = groups[j]
  OBVIOUS
<1> DEFINE bad == Audit(GroupOf(c))
           only(q) == \A r \in ToSet(ps) : At(r).x = At(q).x => At(r) = At(q)
           right(q) == At(q) = ShareAt(KeyOf(j), At(q).x)
           wrongAt == {q \in ToSet(ps) : IF only(q) THEN At(q).x \in bad ELSE ~right(q)}
           rightAt == {q \in ToSet(ps) : ~only(q) /\ right(q)}
<1>2. Blame(ps, c) = {Says("is wrong", j, q) : q \in wrongAt}
                        \cup {Says("is right", j, q) : q \in rightAt}
  <2>1. Head(ps) = ps[1]
    BY <1>1, GroupsJoin
  <2> QED
    BY <1>1, <2>1 DEF Blame, KeyOf
<1>3. only(p) <=> At(p).x \notin Disputed(GroupOf(ps))
  BY <1>1, OneTextOnly
<1>4. right(p) <=> At(p).text = Right
  BY <1>1, RightShare
<1>5. ASSUME only(p) PROVE At(p).x \in bad <=> At(p).text # Right
  <2>1. \A q \in ToSet(c) : Joins(q)
    BY FromGroup
  <2>2. /\ XsOf(GroupOf(c)) = {At(q).x : q \in ToSet(c)}
        /\ \A x : TextsAt(GroupOf(c), x) = {At(q).text : q \in {r \in ToSet(c) : At(r).x = x}}
    BY <2>1, GroupOfXs DEF Types
  <2>3. p \in ToSet(c) /\ ToSet(c) \subseteq ToSet(ps)
    BY <1>1, <1>3, <1>5 DEF From
  <2>4. \A q \in ToSet(c) : At(q).x = At(p).x => At(q).text = At(p).text
    BY <1>5, <2>3
  <2>5. TextsAt(GroupOf(c), At(p).x) = {At(p).text}
    BY <2>2, <2>3, <2>4
  <2> QED
    BY <2>2, <2>3, <2>5 DEF Audit
<1>6. p \in wrongAt <=> At(p).text # Right
  BY <1>1, <1>3, <1>4, <1>5
<1>7. p \in rightAt <=> At(p).text = Right /\ At(p).x \in Disputed(GroupOf(ps))
  BY <1>1, <1>3, <1>4
<1>8. /\ \A q : Says("is wrong", j, q) = Says("is wrong", j, p) => q = p
      /\ \A q : Says("is right", j, q) = Says("is right", j, p) => q = p
      /\ \A q, r : Says("is right", j, q) # Says("is wrong", j, r)
  BY DEF Says
<1> HIDE DEF wrongAt, rightAt
<1>9. Says("is wrong", j, p) \in Blame(ps, c) <=> p \in wrongAt
  BY <1>2, <1>8
<1>10. Says("is right", j, p) \in Blame(ps, c) <=> p \in rightAt
  BY <1>2, <1>8
<1> QED
  BY <1>1, <1>6, <1>7, <1>9, <1>10

LEMMA InitBlamed == Init => Blamed
BY DEF Init, Blamed

(* What ExactIn says after a step that leaves the groups as they are.      *)
ExactNext(g) ==
    \A p \in ToSet(groups[g]) :
        /\ Says("is wrong", g, p) \in said' <=> At(p).text # Right
        /\ Says("is right", g, p) \in said'
              <=> At(p).text = Right /\ At(p).x \in Disputed(GroupOf(groups[g]))

(* A step that adds no blame of a set keeps what is said of it.            *)
LEMMA ExactStays ==
  ASSUME NEW g, ExactIn(g), said \subseteq said',
         \A l \in said' \ said : l.kind \in {"is wrong", "is right"} => l.set # g
  PROVE  ExactNext(g)
<1>1. \A p : /\ Says("is wrong", g, p) \in said' <=> Says("is wrong", g, p) \in said
             /\ Says("is right", g, p) \in said' <=> Says("is right", g, p) \in said
  <2> SUFFICES ASSUME NEW p
               PROVE  /\ Says("is wrong", g, p) \in said' <=> Says("is wrong", g, p) \in said
                      /\ Says("is right", g, p) \in said' <=> Says("is right", g, p) \in said
    OBVIOUS
  <2>1. /\ Says("is wrong", g, p).kind = "is wrong" /\ Says("is wrong", g, p).set = g
        /\ Says("is right", g, p).kind = "is right" /\ Says("is right", g, p).set = g
    BY DEF Says
  <2> QED
    BY <2>1
<1> QED
  BY <1>1 DEF ExactIn, ExactNext

LEMMA BlamedNext ==
  ASSUME UNCHANGED <<input, groups>>,
         \A n \in DOMAIN results' : results'[n].err = "ok" => ExactNext(results'[n].set),
         \A l \in said' : l.kind \in {"is wrong", "is right"} => l.set \in 1 .. j' - 1
  PROVE  Blamed'
BY DEF Blamed, ExactIn, ExactNext, At, GroupOf

(* Counting one set further.                                               *)
LEMMA OneFurther ==
  ASSUME NEW m \in Nat, NEW l \in Nat
  PROVE  /\ m \in 1 .. l + 1 => m >= 1
         /\ (\A n : n = m + 1 => 1 .. n - 1 = 1 .. m) /\ 1 .. l \subseteq Nat
         /\ m >= 1 => \A n : n = m \/ n \in 1 .. m - 1 => n \in 1 .. m
         /\ \A n \in Nat : n < m => n # m
         /\ \A n \in 1 .. l + 1 : n \in 1 .. l \/ n = l + 1
OBVIOUS

(* A report says no more than that of its own set.                         *)
Adds(err) ==
    results' = Append(results, [set |-> j, err |-> err, solving |-> opened.solving])
LEMMA BlamedReport ==
  ASSUME Types, Opening, Blamed, pc = "report", Proceed, said \subseteq said',
         \A l \in said' \ said : l.kind \in {"is wrong", "is right"} => l.set = j,
         UNCHANGED results \/ \E err \in Errors : Adds(err) /\ (err = "ok" => ExactNext(j))
  PROVE  Blamed'
<1>1. /\ j \in DOMAIN groups /\ UNCHANGED <<input, groups>> /\ j' = j + 1
      /\ \A n \in DOMAIN results : results[n].set \in DOMAIN groups /\ results[n].set < j
  BY DEF Opening, Proceed
<1>a. j \in Nat /\ j >= 1 /\ DOMAIN groups \subseteq Nat
  <2>1. j \in 1 .. Len(groups) + 1 /\ groups \in Seq(Seq(DOMAIN input))
    BY DEF Types, TypeOK
  <2>2. DOMAIN groups = 1 .. Len(groups) /\ Len(groups) \in Nat
    BY <2>1, SeqHas
  <2>3. DOMAIN groups \subseteq Nat /\ j \in Nat
    BY <1>1, <2>2, OneFurther, Zenon
  <2> QED
    BY <2>1, <2>2, <2>3, OneFurther, Zenon
<1>2. \A l \in said' : l.kind \in {"is wrong", "is right"} => l.set \in 1 .. j' - 1
  <2>1. \A l \in said : l.kind \in {"is wrong", "is right"} => l.set \in 1 .. j - 1
    BY DEF Blamed
  <2>2. ASSUME NEW l \in said', l.kind \in {"is wrong", "is right"}
        PROVE  l.set \in 1 .. j
    <3>1. l.set = j \/ l.set \in 1 .. j - 1
      BY <2>1, <2>2
    <3> QED
      BY <1>a, <3>1, OneFurther, Zenon
  <2>3. j' = j + 1
    BY <1>1
  <2>4. 1 .. j' - 1 = 1 .. j
    BY <1>a, <2>3, OneFurther, Zenon
  <2> QED
    BY <2>2, <2>4, Zenon
<1>3. ASSUME NEW n \in DOMAIN results, results[n].err = "ok"
      PROVE  ExactNext(results[n].set)
  <2>1. ExactIn(results[n].set)
    BY <1>3 DEF Blamed
  <2>2. results[n].set # j
    <3>1. results[n].set \in Nat /\ results[n].set < j
      BY <1>1, <1>a
    <3> QED
      BY <1>a, <3>1, OneFurther, Zenon
  <2> QED
    BY <2>1, <2>2, ExactStays
<1>4. CASE UNCHANGED results
  BY <1>1, <1>2, <1>3, <1>4, BlamedNext
<1>5. ASSUME NEW err \in Errors, err = "ok" => ExactNext(j),
             Adds(err)
      PROVE  Blamed'
  <2>1. PICK e : e = [set |-> j, err |-> err, solving |-> opened.solving]
    OBVIOUS
  <2>2. PICK l : l = Len(results)
    OBVIOUS
  <2>3. opened.solving \in Seq(DOMAIN input)
    BY DEF Types
  <2>4. /\ DOMAIN results' = 1 .. l + 1 /\ DOMAIN results = 1 .. l /\ l \in Nat
        /\ \A r \in DOMAIN results : results'[r] = results[r]
        /\ results'[l + 1] = e
    BY <1>1, <1>5, <2>1, <2>2, <2>3, ResultAdded DEF Adds
  <2>5. e.set = j /\ e.err = err
    BY <2>1
  <2>a. \A n \in 1 .. l + 1 : n \in 1 .. l \/ n = l + 1
    BY <2>4, OneFurther, Zenon
  <2>6. ASSUME NEW n \in DOMAIN results', results'[n].err = "ok"
        PROVE  ExactNext(results'[n].set)
    <3>1. CASE n \in DOMAIN results
      BY <1>3, <2>4, <2>6, <3>1
    <3>2. CASE n = l + 1
      BY <1>5, <2>4, <2>5, <2>6, <3>2
    <3>3. n \in DOMAIN results \/ n = l + 1
      BY <2>4, <2>a, Zenon
    <3> QED
      BY <3>1, <3>2, <3>3
  <2> QED
    BY <1>1, <1>2, <2>6, BlamedNext
<1> QED
  BY <1>4, <1>5

LEMMA BlamedStep ==
  ASSUME Types, Grouped, LeftOut, Opening, Blamed, Next
  PROVE  Blamed'
<1>1. ASSUME pc = "group", UNCHANGED <<j, results>>, said \subseteq said',
             \A l \in said' \ said : l.kind \notin {"is wrong", "is right"}
      PROVE  Blamed'
  <2>0. results' = <<>>
    BY <1>1 DEF LeftOut
  <2>1. DOMAIN results' = {}
    BY <2>0
  <2>2. \A l \in said' : l.kind \in {"is wrong", "is right"} => l.set \in 1 .. j - 1
    BY <1>1 DEF Blamed
  <2> QED
    BY <1>1, <2>1, <2>2 DEF Blamed
<1>2. ASSUME UNCHANGED <<input, groups, j, results, said>>
      PROVE  Blamed'
  <2>1. ASSUME NEW n \in DOMAIN results, results[n].err = "ok"
        PROVE  ExactNext(results[n].set)
    BY <1>2, <2>1, ExactStays DEF Blamed
  <2> QED
    BY <1>2, <2>1, BlamedNext DEF Blamed
<1>3. CASE SkipUndecoded
  <2>1. PICK l : l = Says("undecoded", 0, i)
    OBVIOUS
  <2>2. l.kind = "undecoded"
    BY <2>1 DEF Says
  <2>3. pc = "group" /\ UNCHANGED <<j, results>> /\ said' = said \cup {l}
    BY <1>3, <2>1 DEF SkipUndecoded
  <2> QED
    BY <1>1, <2>2, <2>3
<1>4. CASE NothingFound \/ RejectFaulty \/ JoinGroup
  BY <1>1, <1>4 DEF NothingFound, RejectFaulty, JoinGroup
<1>5. CASE MarkDisputed
  <2>1. \A p : Says("left out", 0, p).kind = "left out"
    BY DEF Says
  <2>2. pc = "group" /\ UNCHANGED <<j, results>>
    BY <1>5 DEF MarkDisputed
  <2>3. said' = said \cup {Says("left out", 0, p) : p \in ToSet(rejected) \cup DisputedAt}
    BY <1>5 DEF MarkDisputed
  <2> QED
    BY <1>1, <2>1, <2>2, <2>3
<1>6. CASE ReportTooFew
  <2>1. /\ Says("too few", j, 0).kind = "too few"
        /\ Says("no choice fits", j, 0).kind = "no choice fits"
    BY DEF Says
  <2>2. said' \in {said \cup {Says("too few", j, 0)},
                   said \cup {Says("too few", j, 0), Says("no choice fits", j, 0)}}
    BY <1>6 DEF ReportTooFew
  <2>3. pc = "report" /\ Proceed /\ UNCHANGED results
    BY <1>6 DEF ReportTooFew
  <2>4. \A l \in said' \ said : l.kind \notin {"is wrong", "is right"}
    BY <2>1, <2>2
  <2> QED
    BY <2>2, <2>3, <2>4, BlamedReport
<1>7. CASE ReportFailure
  <2>1. PICK l : l = Says(Failure(opened.err, GroupOf(groups[j])), j, 0)
    OBVIOUS
  <2>2. l.kind \notin {"is wrong", "is right"}
    BY <2>1 DEF Says, Failure
  <2>3. said' = said \cup {l} /\ pc = "report" /\ Proceed
    BY <1>7, <2>1 DEF ReportFailure
  <2>4. PICK err \in Errors : err = opened.err /\ err # "ok"
    BY <1>7 DEF ReportFailure, Errors
  <2>5. Adds(err)
    BY <1>7, <2>4 DEF ReportFailure, Adds
  <2> QED
    BY <2>2, <2>3, <2>4, <2>5, BlamedReport
<1>8. CASE ReportResult
  <2>1. /\ pc = "report" /\ Proceed /\ "ok" \in Errors
        /\ said' = said \cup Blame(groups[j], opened.solving)
        /\ Adds("ok")
    BY <1>8 DEF ReportResult, Errors, Adds
  <2>2. j \in DOMAIN groups /\ From(opened.solving, groups[j])
    BY <2>1 DEF Opening, Solved
  <2>3. opened.solving \in Seq(DOMAIN input)
    BY DEF Types
  <2>4. UNCHANGED <<input, groups>>
    BY <2>1 DEF Proceed
  <2>5. \A l \in Blame(groups[j], opened.solving) : l.set = j
    <3>1. \A p : Says("is wrong", j, p).set = j /\ Says("is right", j, p).set = j
      BY DEF Says
    <3> QED
      BY <3>1, Zenon DEF Blame
  <2>6. ASSUME NEW p PROVE Says("is wrong", j, p) \notin said /\ Says("is right", j, p) \notin said
    <3>1. /\ Says("is wrong", j, p).kind = "is wrong" /\ Says("is wrong", j, p).set = j
          /\ Says("is right", j, p).kind = "is right" /\ Says("is right", j, p).set = j
      BY DEF Says
    <3>2. j \notin 1 .. j - 1
      <4>1. j \in 1 .. Len(groups) + 1
        BY DEF Types, TypeOK
      <4> QED
        BY <4>1
    <3> QED
      BY <3>1, <3>2 DEF Blamed
  <2>7. ASSUME NEW p \in ToSet(groups[j])
        PROVE  /\ Says("is wrong", j, p) \in said' <=> At(p).text # Right
               /\ Says("is right", j, p) \in said'
                     <=> At(p).text = Right /\ At(p).x \in Disputed(GroupOf(groups[j]))
    BY <2>1, <2>2, <2>3, <2>6, BlameRight
  <2>8. ExactNext(j)
    BY <2>7 DEF ExactNext
  <2> QED
    BY <2>1, <2>5, <2>8, BlamedReport
<1>9. CASE OpenSet \/ TryChoice \/ NoChoiceFits \/ FinishRecover \/ RefuseReplace \/ Replace
  BY <1>2, <1>9 DEF OpenSet, TryChoice, NoChoiceFits, FinishRecover, RefuseReplace, Replace
<1>10. CASE UNCHANGED vars
  BY <1>2, <1>10 DEF vars
<1> QED
  BY <1>3, <1>4, <1>5, <1>6, <1>7, <1>8, <1>9, <1>10 DEF Next

-----------------------------------------------------------------------------
(* How the command ends                                                    *)

LEMMA InitEnding == Init => Ending
BY DEF Init, Ending

(* A step inside the command ends nothing.                                 *)
LEMMA EndingGoesOn ==
  ASSUME Ending, pc # "exited", pc' # "exited", UNCHANGED <<exit, printed>>
  PROVE  Ending'
BY DEF Ending

(* Where every set has been opened, the next one would be past the last.   *)
LEMMA AllDone ==
  ASSUME Types, Grouped, LeftOut
  PROVE  /\ AllOpened => j = Len(groups) + 1
         /\ pc = "group" /\ input = <<>> => j = Len(groups) + 1
<1>1. j \in 1 .. Len(groups) + 1 /\ groups \in Seq(Seq(DOMAIN input))
  BY DEF Types, TypeOK
<1>2. DOMAIN groups = 1 .. Len(groups) /\ Len(groups) \in Nat
  BY <1>1, SeqHas
<1>3. ASSUME AllOpened PROVE j = Len(groups) + 1
  <2>1. j > Len(groups)
    BY <1>3 DEF AllOpened
  <2> QED
    BY <1>1, <1>2, <2>1
<1>4. ASSUME pc = "group", input = <<>> PROVE j = Len(groups) + 1
  <2>1. j = 1
    BY <1>4 DEF LeftOut
  <2>2. DOMAIN input = {}
    BY <1>4
  <2>3. \A g \in DOMAIN groups : FALSE
    BY <2>2, GroupsJoin
  <2>4. Len(groups) = 0
    BY <1>2, <2>3
  <2> QED
    BY <2>1, <2>4
<1> QED
  BY <1>3, <1>4

(* The label that replace puts on the share.                               *)
LEMMA Label ==
  ASSUME Types, NEW n, args.n # 0 => args.n >= K /\ args.x <= args.n,
         n = IF args.n # 0 THEN args.n ELSE IF args.x > WalletN THEN 0 ELSE WalletN
  PROVE  n \in {0} \cup K .. 255 /\ (n # 0 => args.x <= n)
<1>1. args.x \in 1 .. 255 /\ args.n \in 0 .. 255
  BY DEF Types
<1> QED
  BY <1>1, KAssumption, WalletAssumption

LEMMA EndingStep ==
  ASSUME Types, Grouped, LeftOut, Opening, Ending, Next
  PROVE  Ending'
<1>1. CASE SkipUndecoded \/ RejectFaulty \/ JoinGroup \/ MarkDisputed \/ OpenSet \/ NoChoiceFits
  BY <1>1, EndingGoesOn
     DEF SkipUndecoded, RejectFaulty, JoinGroup, MarkDisputed, OpenSet, NoChoiceFits
<1>2. CASE TryChoice
  <2>1. pc = "choose" /\ pc' \in {"choose", "report"} /\ UNCHANGED <<exit, printed>>
    BY <1>2 DEF TryChoice
  <2> QED
    BY <2>1, EndingGoesOn
<1>3. CASE ReportTooFew \/ ReportFailure \/ ReportResult
  BY <1>3, EndingGoesOn DEF ReportTooFew, ReportFailure, ReportResult, Proceed
<1>4. CASE NothingFound
  <2>1. j = Len(groups) + 1
    BY <1>4, AllDone DEF NothingFound
  <2>2. /\ pc # "exited" /\ pc' = "exited" /\ exit' = "error" /\ input' = <<>>
        /\ UNCHANGED <<printed, j, groups>>
    BY <1>4 DEF NothingFound, Exits
  <2>3. printed' = <<>>
    BY <2>2 DEF Ending
  <2> QED
    BY <2>1, <2>2, <2>3 DEF Ending
<1>5. CASE FinishRecover
  <2>1. j = Len(groups) + 1
    BY <1>5, AllDone DEF FinishRecover
  <2>2. /\ pc' = "exited" /\ exit' \in {"ok", "error"} /\ command' = "recover"
        /\ (exit' = "ok") <=> (results # <<>> /\ Recovered = results)
        /\ printed' = Printout /\ UNCHANGED <<j, groups, input, results>>
    BY <1>5 DEF FinishRecover, Exits, Printout
  <2>3. Recovered' = Recovered /\ Printout' = Printout
    BY <2>2 DEF Printout, Recovered, SetOf, At
  <2> QED
    BY <2>1, <2>2, <2>3 DEF Ending
<1>6. CASE RefuseReplace
  <2>1. j = Len(groups) + 1
    BY <1>6, AllDone DEF RefuseReplace
  <2>2. /\ pc # "exited" /\ pc' = "exited" /\ exit' = "error" /\ command' = "replace"
        /\ UNCHANGED <<printed, j, groups>>
    BY <1>6 DEF RefuseReplace, Exits, AllOpened
  <2>3. printed' = <<>>
    BY <2>2 DEF Ending
  <2> QED
    BY <2>1, <2>2, <2>3 DEF Ending
<1>7. CASE Replace
  <2>1. j = Len(groups) + 1
    BY <1>7, AllDone DEF Replace
  <2>2. PICK n : n = IF args.n # 0 THEN args.n ELSE IF args.x > WalletN THEN 0 ELSE WalletN
    OBVIOUS
  <2>3. n \in {0} \cup K .. 255 /\ (n # 0 => args.x <= n)
    BY <1>7, <2>2, Label DEF Replace
  <2>4. /\ pc' = "exited" /\ exit' = "ok" /\ command' = "replace"
        /\ Len(results) = 1 /\ results[1].err = "ok"
        /\ UNCHANGED <<args, j, groups, input, results>>
    BY <1>7 DEF Replace, Exits
  <2>5. printed' = <<[set |-> SetOf(results[1]), x |-> args.x, n |-> n]>>
    BY <1>7, <2>2 DEF Replace, ShareAt
  <2>6. SetOf(results[1])' = SetOf(results[1])
    BY <2>4 DEF SetOf, At
  <2> QED
    BY <2>1, <2>3, <2>4, <2>5, <2>6 DEF Ending
<1>8. CASE UNCHANGED vars
  BY <1>8 DEF vars, Ending, Printout, Recovered, SetOf, At
<1> QED
  BY <1>1, <1>2, <1>3, <1>4, <1>5, <1>6, <1>7, <1>8 DEF Next

-----------------------------------------------------------------------------
(* The invariant                                                           *)

LEMMA Stutter ==
  ASSUME IInv, UNCHANGED vars
  PROVE  IInv'
<1>1. UNCHANGED <<command, args, input, pc, i, groups, rejected, j, todo, opened, results, said,
                  printed, exit>>
  BY DEF vars
<1>2. Types'
  BY <1>1 DEF IInv, Types, TypeOK
<1>3. Grouped'
  BY <1>1, GroupedStays DEF IInv
<1>4. LeftOut'
  BY <1>1, InputStays, GroupsStay DEF IInv, LeftOut
<1>5. Opening'
  BY <1>1 DEF IInv, Opening, Solved, From, GroupOf, KeyOf, At
<1>6. Blamed'
  <2>1. ASSUME NEW n \in DOMAIN results, results[n].err = "ok"
        PROVE  ExactNext(results[n].set)
    BY <1>1, <2>1, ExactStays DEF IInv, Blamed
  <2> QED
    BY <1>1, <2>1, BlamedNext DEF IInv, Blamed
<1>7. Ending'
  BY <1>1 DEF IInv, Ending, Printout, Recovered, SetOf, At
<1> QED
  BY <1>2, <1>3, <1>4, <1>5, <1>6, <1>7 DEF IInv

(* IInv holds in every state of the command.                               *)
THEOREM Invariant == Spec => []IInv
<1>1. Init => IInv
  BY InitTypes, InitGrouped, InitLeftOut, InitOpening, InitBlamed, InitEnding DEF IInv
<1>2. IInv /\ [Next]_vars => IInv'
  <2> SUFFICES ASSUME IInv, [Next]_vars PROVE IInv'
    OBVIOUS
  <2>1. CASE Next
    BY <2>1, TypesStep, GroupedStep, LeftOutStep, OpeningStep, BlamedStep, EndingStep DEF IInv
  <2>2. CASE UNCHANGED vars
    BY <2>2, Stutter
  <2> QED
    BY <2>1, <2>2
<1> QED
  BY <1>1, <1>2, PTL DEF Spec

(* The command keeps its types: no step leaves a position, a group or a    *)
(* choice that is not one, and no more choices than MaxChoices.            *)
THEOREM RecoverTypeCorrect == Spec => []TypeOK
<1>1. IInv => TypeOK
  BY DEF IInv, Types
<1> QED
  BY <1>1, Invariant, PTL

-----------------------------------------------------------------------------
(* What the shares held of a set are, once they are grouped                *)

LEMMA GroupsAll ==
  ASSUME IInv, pc # "group"
  PROVE  /\ \A p \in DOMAIN input : Joins(p) =>
               \E g \in DOMAIN groups : p \in ToSet(groups[g]) /\ KeyOf(g) = At(p).set
         /\ \A g \in DOMAIN groups : \A p \in DOMAIN input :
               p \in ToSet(groups[g]) <=> Joins(p) /\ At(p).set = KeyOf(g)
<1>1. Types /\ Grouped
  BY DEF IInv
<1>2. \A p \in DOMAIN input : p < i
  <2>1. i = Len(input) + 1
    BY DEF IInv, LeftOut
  <2>2. input \in Seq(Shares \cup {Undecoded})
    BY <1>1 DEF Types, TypeOK
  <2>3. DOMAIN input = 1 .. Len(input) /\ Len(input) \in Nat
    BY <2>2, SeqHas
  <2> QED
    BY <2>1, <2>3
<1>3. ASSUME NEW p \in DOMAIN input, Joins(p)
      PROVE  \E g \in DOMAIN groups : p \in ToSet(groups[g]) /\ KeyOf(g) = At(p).set
  <2>1. PICK g \in DOMAIN groups : p \in ToSet(groups[g])
    BY <1>1, <1>2, <1>3 DEF Grouped
  <2> QED
    BY <1>1, <2>1, GroupsJoin
<1>4. ASSUME NEW g \in DOMAIN groups, NEW p \in DOMAIN input
      PROVE  p \in ToSet(groups[g]) <=> Joins(p) /\ At(p).set = KeyOf(g)
  <2>1. ASSUME Joins(p), At(p).set = KeyOf(g) PROVE p \in ToSet(groups[g])
    <3>1. PICK h \in DOMAIN groups : p \in ToSet(groups[h]) /\ KeyOf(h) = At(p).set
      BY <1>3, <2>1
    <3>2. h = g
      BY <1>1, <2>1, <3>1 DEF Grouped
    <3> QED
      BY <3>1, <3>2
  <2> QED
    BY <1>1, <2>1, GroupsJoin
<1> QED
  BY <1>3, <1>4

(* A group holds what the input holds of its set.                          *)
LEMMA GroupHolds ==
  ASSUME IInv, pc # "group", NEW g \in DOMAIN groups
  PROVE  /\ Held(KeyOf(g)) = {At(p) : p \in ToSet(groups[g])}
         /\ XsHeld(KeyOf(g)) = XsOf(GroupOf(groups[g]))
         /\ \A x : TextsHeld(KeyOf(g), x) = TextsAt(GroupOf(groups[g]), x)
         /\ KeyOf(g) \in Given
         /\ GroupNumber(KeyOf(g)) = g
<1>1. Types /\ Grouped
  BY DEF IInv
<1>2. /\ input \in Inputs /\ groups[g] \in Seq(DOMAIN input) /\ groups[g] # <<>>
      /\ \A p \in ToSet(groups[g]) : Joins(p) /\ p \in DOMAIN input /\ At(p).set = KeyOf(g)
      /\ groups[g][1] \in ToSet(groups[g])
  BY <1>1, GroupsJoin
<1>3. \A p \in DOMAIN input : p \in ToSet(groups[g]) <=> Joins(p) /\ At(p).set = KeyOf(g)
  BY GroupsAll
<1>4. Held(KeyOf(g)) = {At(p) : p \in ToSet(groups[g])}
  BY <1>2, <1>3 DEF Held, At, Joins
<1>5. /\ XsOf(GroupOf(groups[g])) = {At(p).x : p \in ToSet(groups[g])}
      /\ \A x : TextsAt(GroupOf(groups[g]), x) =
                   {At(p).text : p \in {q \in ToSet(groups[g]) : At(q).x = x}}
  BY <1>2, GroupOfXs
<1>6. XsHeld(KeyOf(g)) = XsOf(GroupOf(groups[g]))
  BY <1>4, <1>5 DEF XsHeld
<1>7. \A x : TextsHeld(KeyOf(g), x) = TextsAt(GroupOf(groups[g]), x)
  BY <1>4, <1>5 DEF TextsHeld
<1>8. KeyOf(g) \in Given
  <2>1. At(groups[g][1]) \in Good
    BY <1>2, JoinsGood
  <2>2. KeyOf(g) \in Sets
    BY <2>1 DEF KeyOf, Good
  <2> QED
    BY <1>2, <1>4, <2>2 DEF Given
<1>9. GroupNumber(KeyOf(g)) = g
  <2>1. \A h \in DOMAIN groups : Head(groups[h]) = groups[h][1]
    BY <1>1, GroupsJoin
  <2>2. \A h \in DOMAIN groups : At(Head(groups[h])).set = KeyOf(h)
    BY <2>1 DEF KeyOf
  <2>3. \A h \in DOMAIN groups : KeyOf(h) = KeyOf(g) <=> h = g
    BY <1>1 DEF Grouped
  <2>4. \A h \in DOMAIN groups : At(Head(groups[h])).set = KeyOf(g) <=> h = g
    BY <2>2, <2>3
  <2> QED
    BY <2>4 DEF GroupNumber
<1> QED
  BY <1>4, <1>6, <1>7, <1>8, <1>9

(* Every set that the input gives has its group.                           *)
LEMMA GivenGrouped ==
  ASSUME IInv, pc # "group", NEW s \in Given
  PROVE  \E g \in DOMAIN groups : KeyOf(g) = s
<1>1. PICK p \in DOMAIN input : input[p] # Undecoded /\ Parses(input[p]) /\ input[p].set = s
  BY DEF Given, Held
<1> QED
  BY <1>1, GroupsAll DEF Joins, At

(* The x with one text are those that are not disputed.                    *)
LEMMA GroupOneText ==
  ASSUME IInv, pc # "group", NEW g \in DOMAIN groups
  PROVE  /\ OneText(KeyOf(g)) = Undisputed(GroupOf(groups[g]))
         /\ \A x \in XsOf(GroupOf(groups[g])) :
               x \notin OneText(KeyOf(g)) <=> x \in Disputed(GroupOf(groups[g]))
<1>1. PICK G : G = GroupOf(groups[g])
  OBVIOUS
<1>2. G \in Seq(Shares)
  BY <1>1, GroupsJoin, GroupOfTyped DEF IInv
<1>3. XsHeld(KeyOf(g)) = XsOf(G) /\ \A x : TextsHeld(KeyOf(g), x) = TextsAt(G, x)
  BY <1>1, GroupHolds
<1>4. ASSUME NEW x \in XsOf(G)
      PROVE  Cardinality(TextsAt(G, x)) = 1 <=> ~ (Cardinality(TextsAt(G, x)) > 1)
  <2>1. IsFiniteSet(TextsAt(G, x)) /\ TextsAt(G, x) # {}
    BY <1>2, TextsFinite DEF TextsAt, XsOf
  <2>2. Cardinality(TextsAt(G, x)) \in Nat /\ Cardinality(TextsAt(G, x)) # 0
    BY <2>1, FS_CardinalityType, FS_EmptySet
  <2> QED
    BY <2>2
<1>5. OneText(KeyOf(g)) = Undisputed(G)
  BY <1>3, <1>4 DEF OneText, Undisputed, Disputed
<1> QED
  BY <1>1, <1>5 DEF Undisputed

-----------------------------------------------------------------------------
(* What the runs check                                                     *)

(* No share vanishes between the input and the report: each is in the one  *)
(* group of its set, or the log says that it was left out, and the log     *)
(* says of no other share that it was.                                     *)
THEOREM SharesAccounted == Spec => []EveryShareAccounted
<1>1. ASSUME IInv, pc = "exited", NEW p \in DOMAIN input
      PROVE  IF At(p) = Undecoded THEN Says("undecoded", 0, p) \in said
             ELSE /\ ~Parses(At(p)) \/ At(p).x \notin OneText(At(p).set)
                       <=> Says("left out", 0, p) \in said
                  /\ Parses(At(p)) =>
                       \A g \in DOMAIN groups :
                           (p \in ToSet(groups[g])) <=> (g = GroupNumber(At(p).set))
  <2>1. Types /\ Grouped /\ LeftOut
    BY <1>1 DEF IInv
  <2>2. CASE At(p) = Undecoded
    <3>1. p < i
      <4>1. i = Len(input) + 1
        BY <1>1, <2>1 DEF LeftOut
      <4>2. input \in Seq(Shares \cup {Undecoded})
        BY <2>1 DEF Types, TypeOK
      <4>3. DOMAIN input = 1 .. Len(input) /\ Len(input) \in Nat
        BY <4>2, SeqHas
      <4> QED
        BY <4>1, <4>3
    <3> QED
      BY <2>1, <2>2, <3>1 DEF LeftOut
  <2>3. CASE At(p) # Undecoded /\ ~Parses(At(p))
    BY <1>1, <2>1, <2>3 DEF LeftOut, FaultyAt
  <2>4. CASE At(p) # Undecoded /\ Parses(At(p))
    <3>1. PICK g \in DOMAIN groups : p \in ToSet(groups[g]) /\ KeyOf(g) = At(p).set
      BY <1>1, <2>4, GroupsAll DEF Joins
    <3>2. \A h \in DOMAIN groups : p \in ToSet(groups[h]) <=> h = g
      BY <1>1, <2>1, <2>4, <3>1, GroupsAll DEF Joins, Grouped
    <3>3. GroupNumber(At(p).set) = g
      BY <1>1, <3>1, GroupHolds
    <3>4. p \in DisputedAt <=> At(p).x \in Disputed(GroupOf(groups[g]))
      BY <3>1, <3>2 DEF DisputedAt
    <3>5. At(p).x \notin OneText(At(p).set) <=> At(p).x \in Disputed(GroupOf(groups[g]))
      <4>1. At(p).x \in XsOf(GroupOf(groups[g]))
        BY <2>1, <3>1, GroupsJoin, GroupOfXs
      <4> QED
        BY <1>1, <3>1, <4>1, GroupOneText
    <3>6. Says("left out", 0, p) \in said <=> p \in DisputedAt
      BY <1>1, <2>1, <2>4 DEF LeftOut, FaultyAt
    <3> QED
      BY <2>4, <3>2, <3>3, <3>4, <3>5, <3>6
  <2> QED
    BY <2>2, <2>3, <2>4
<1>2. IInv => EveryShareAccounted
  BY <1>1 DEF EveryShareAccounted
<1> QED
  BY <1>2, Invariant, PTL

(* Of the shares of a recovered set exactly the wrong ones are blamed,     *)
(* those with differing texts included, whichever shares it was solved     *)
(* from.                                                                   *)
THEOREM BlameIsExact == Spec => []BlameExact
<1>1. ASSUME IInv, pc = "exited", NEW r \in DOMAIN results, results[r].err = "ok",
             NEW p \in ToSet(groups[results[r].set])
      PROVE  /\ Says("is wrong", results[r].set, p) \in said <=> At(p).text # Right
             /\ Says("is right", results[r].set, p) \in said
                   <=> At(p).text = Right /\ At(p).x \notin OneText(At(p).set)
  <2>1. PICK g : g = results[r].set
    OBVIOUS
  <2>2. g \in DOMAIN groups
    BY <1>1, <2>1 DEF IInv, Opening
  <2>3. ExactIn(g)
    BY <1>1, <2>1 DEF IInv, Blamed
  <2>4. At(p).set = KeyOf(g) /\ At(p).x \in XsOf(GroupOf(groups[g]))
    BY <1>1, <2>1, <2>2, GroupsJoin, GroupOfXs DEF IInv
  <2>5. At(p).x \notin OneText(At(p).set) <=> At(p).x \in Disputed(GroupOf(groups[g]))
    BY <1>1, <2>2, <2>4, GroupOneText
  <2> QED
    BY <1>1, <2>1, <2>3, <2>5 DEF ExactIn
<1>2. IInv => BlameExact
  BY <1>1 DEF BlameExact
<1> QED
  BY <1>2, Invariant, PTL

(* What became of a set is its one result, or that it held too little.     *)
LEMMA VerdictIs ==
  ASSUME IInv, pc # "group", NEW g \in DOMAIN groups
  PROVE  /\ \A n \in DOMAIN results : results[n].set = g => Verdict(KeyOf(g)) = results[n].err
         /\ (\A n \in DOMAIN results : results[n].set # g) => Verdict(KeyOf(g)) = "too few"
<1> DEFINE R == {n \in DOMAIN results : results[n].set = GroupNumber(KeyOf(g))}
<1>1. Verdict(KeyOf(g)) = IF R = {} THEN "too few" ELSE results[CHOOSE n \in R : TRUE].err
  BY DEF Verdict
<1>a. \A n : n \in R <=> n \in DOMAIN results /\ results[n].set = g
  BY GroupHolds
<1> HIDE DEF R
<1>2. \A m, n \in R : m = n
  <2>1. results \in Seq(Results)
    BY DEF IInv, Types, Results
  <2>2. DOMAIN results = 1 .. Len(results) /\ Len(results) \in Nat
    BY <2>1, SeqHas
  <2>3. \A m, n \in DOMAIN results : m < n => results[m].set < results[n].set
    BY DEF IInv, Opening
  <2>4. groups \in Seq(Seq(DOMAIN input))
    BY DEF IInv, Types
  <2>5. g \in Nat
    BY <2>4, SeqHas
  <2>6. ~ (g < g)
    BY <2>5
  <2>7. ASSUME NEW m \in R, NEW n \in R PROVE ~ (m < n)
    BY <1>a, <2>3, <2>6, <2>7
  <2> QED
    BY <1>a, <2>2, <2>7
<1>3. ASSUME NEW n \in R PROVE (CHOOSE m \in R : TRUE) = n
  BY <1>2
<1> QED
  BY <1>1, <1>3, <1>a

(* The right texts among some shares of a set are right texts held of it.  *)
LEMMA RightAmongHeld ==
  ASSUME IInv, pc # "group", NEW g \in DOMAIN groups, NEW c \in Seq(DOMAIN input),
         From(c, groups[g])
  PROVE  /\ Cardinality(RightXs(GroupOf(c))) <= Cardinality(RightHeld(KeyOf(g)))
         /\ IsFiniteSet(RightXs(GroupOf(c))) /\ IsFiniteSet(RightHeld(KeyOf(g)))
         /\ Cardinality(RightXs(GroupOf(c))) \in Nat /\ Cardinality(RightHeld(KeyOf(g))) \in Nat
<1>1. Types /\ Grouped
  BY DEF IInv
<1>2. \A p \in ToSet(c) : Joins(p) /\ At(p).set = KeyOf(g)
  BY <1>1, FromGroup
<1>3. RightXs(GroupOf(c)) \subseteq RightHeld(KeyOf(g))
  <2>1. ToSet(c) \subseteq ToSet(groups[g])
    BY DEF From
  <2>2. Held(KeyOf(g)) = {At(p) : p \in ToSet(groups[g])}
    BY GroupHolds
  <2>3. \A p \in ToSet(c) : At(p) \in Held(KeyOf(g))
    BY <2>1, <2>2
  <2>4. /\ XsOf(GroupOf(c)) = {At(p).x : p \in ToSet(c)}
        /\ \A x : TextsAt(GroupOf(c), x) =
                     {At(p).text : p \in {q \in ToSet(c) : At(q).x = x}}
    BY <1>1, <1>2, GroupOfXs DEF Types
  <2> SUFFICES ASSUME NEW x \in RightXs(GroupOf(c)) PROVE x \in RightHeld(KeyOf(g))
    OBVIOUS
  <2>5. Right \in TextsAt(GroupOf(c), x)
    BY DEF RightXs
  <2>6. PICK p \in ToSet(c) : At(p).x = x /\ At(p).text = Right
    BY <2>4, <2>5
  <2> QED
    BY <2>3, <2>6 DEF RightHeld, XsHeld, TextsHeld
<1>4. IsFiniteSet(RightHeld(KeyOf(g)))
  <2>1. GroupOf(groups[g]) \in Seq(Shares)
    BY <1>1, GroupsJoin, GroupOfTyped
  <2>2. IsFiniteSet(XsHeld(KeyOf(g)))
    BY <2>1, GroupHolds, XsFinite
  <2> QED
    BY <2>2, FS_Subset DEF RightHeld
<1>5. /\ Cardinality(RightXs(GroupOf(c))) <= Cardinality(RightHeld(KeyOf(g)))
      /\ IsFiniteSet(RightXs(GroupOf(c)))
  BY <1>3, <1>4, FS_Subset
<1> QED
  BY <1>4, <1>5, FS_CardinalityType

(* A recovered set was solved from its own shares, K of them right.        *)
LEMMA RecoveredSet ==
  ASSUME IInv, pc # "group", NEW n \in DOMAIN results, results[n].err = "ok"
  PROVE  /\ SetOf(results[n]) = KeyOf(results[n].set)
         /\ Cardinality(RightHeld(KeyOf(results[n].set))) >= K
<1>1. PICK g : g = results[n].set
  OBVIOUS
<1>2. PICK c : c = results[n].solving
  OBVIOUS
<1>3. Types /\ Grouped /\ g \in DOMAIN groups /\ Solved("ok", c, g)
  BY <1>1, <1>2 DEF IInv, Opening
<1>4. c \in Seq(DOMAIN input)
  <2>1. results \in Seq(Results)
    BY <1>3 DEF Types, Results
  <2>2. results[n] \in Results
    BY <2>1, SeqHas
  <2> QED
    BY <1>2, <2>2 DEF Results
<1>5. From(c, groups[g]) /\ Cardinality(RightXs(GroupOf(c))) >= K
  BY <1>3 DEF Solved
<1>6. /\ GroupOf(c) \in Seq(Shares) /\ Len(GroupOf(c)) = Len(c)
      /\ \A p \in ToSet(c) : Joins(p) /\ At(p).set = KeyOf(g)
  BY <1>3, <1>4, <1>5, FromGroup
<1>7. SetOf(results[n]) = KeyOf(g)
  <2>1. GroupOf(c) # <<>>
    BY <1>5, <1>6, SolvingThere
  <2>2. DOMAIN c = 1 .. Len(c) /\ Len(c) \in Nat /\ Len(c) # 0
    BY <1>4, <1>6, <2>1
  <2>3. Head(c) = c[1] /\ 1 \in DOMAIN c
    BY <1>4, <2>2
  <2> QED
    BY <1>2, <1>6, <2>3 DEF SetOf, ToSet
<1>8. Cardinality(RightHeld(KeyOf(g))) >= K
  <2>1. /\ Cardinality(RightXs(GroupOf(c))) <= Cardinality(RightHeld(KeyOf(g)))
        /\ Cardinality(RightXs(GroupOf(c))) \in Nat /\ Cardinality(RightHeld(KeyOf(g))) \in Nat
    BY <1>1, <1>3, <1>4, <1>5, RightAmongHeld
  <2> QED
    BY <1>5, <2>1, KAssumption
<1> QED
  BY <1>1, <1>7, <1>8

(* A set that is numbered without repetition has that many elements.       *)
LEMMA CountedBy ==
  ASSUME NEW n \in Nat, NEW S, NEW f \in [1 .. n -> S],
         \A e \in S : \E a \in 1 .. n : f[a] = e,
         \A a, b \in 1 .. n : f[a] = f[b] => a = b
  PROVE  Cardinality(S) = n
<1>1. f \in Surjection(1 .. n, S) /\ f \in Injection(1 .. n, S)
  BY DEF Surjection, Injection, IsInjective
<1>2. IsFiniteSet(1 .. n) /\ Cardinality(1 .. n) = IF 1 > n THEN 0 ELSE n - 1 + 1
  BY FS_Interval
<1>3. (IF 1 > n THEN 0 ELSE n - 1 + 1) = n
  OBVIOUS
<1>4. Cardinality(S) = Cardinality(1 .. n)
  BY <1>1, <1>2, FS_Surjection
<1> QED
  BY <1>2, <1>3, <1>4

(* Two results are of two sets.                                            *)
LEMMA ResultsDiffer ==
  ASSUME IInv, NEW m \in DOMAIN results, NEW n \in DOMAIN results,
         results[m].set = results[n].set
  PROVE  m = n
<1>1. results \in Seq(Results) /\ groups \in Seq(Seq(DOMAIN input))
  BY DEF IInv, Types, Results
<1>2. DOMAIN results = 1 .. Len(results) /\ Len(results) \in Nat
  BY <1>1, SeqHas
<1>3. /\ \A a, b \in DOMAIN results : a < b => results[a].set < results[b].set
      /\ results[m].set \in DOMAIN groups
  BY DEF IInv, Opening
<1>4. results[m].set \in Nat
  BY <1>1, <1>3, SeqHas
<1>5. ~ (results[m].set < results[n].set) /\ ~ (results[n].set < results[m].set)
  BY <1>4
<1> QED
  BY <1>2, <1>3, <1>5

(* The sets that did not come to a result held too little, and no other.   *)
LEMMA WhoHasVerdict ==
  ASSUME IInv, pc # "group"
  PROVE  /\ \A n \in DOMAIN results : /\ KeyOf(results[n].set) \in Given
                                      /\ Verdict(KeyOf(results[n].set)) = results[n].err
                                      /\ results[n].err \in Errors
         /\ \A s \in Given : Verdict(s) # "too few" =>
               \E n \in DOMAIN results : s = KeyOf(results[n].set)
<1>1. ASSUME NEW n \in DOMAIN results
      PROVE  /\ KeyOf(results[n].set) \in Given
             /\ Verdict(KeyOf(results[n].set)) = results[n].err
             /\ results[n].err \in Errors
  <2>1. results[n].set \in DOMAIN groups
    BY DEF IInv, Opening
  <2>2. results \in Seq(Results)
    BY DEF IInv, Types, Results
  <2>3. results[n] \in Results
    BY <2>2, SeqHas
  <2>4. results[n].err \in Errors
    BY <2>3 DEF Results
  <2> QED
    BY <2>1, <2>4, GroupHolds, VerdictIs
<1>2. ASSUME NEW s \in Given, Verdict(s) # "too few"
      PROVE  \E n \in DOMAIN results : s = KeyOf(results[n].set)
  <2>1. PICK g \in DOMAIN groups : KeyOf(g) = s
    BY GivenGrouped
  <2> QED
    BY <1>2, <2>1, VerdictIs
<1> QED
  BY <1>1, <1>2

(* replace prints one share, and only of the one set that held K shares,   *)
(* which K right ones recovered; its label is never below K or below x.    *)
THEOREM ReplacesOnlySet == Spec => []ReplacesTheOnlySet
<1>1. ASSUME IInv, pc = "exited", printed # <<>>, command = "replace"
      PROVE  /\ exit = "ok" /\ Len(printed) = 1
             /\ {s \in Given : Verdict(s) # "too few"} = {printed[1].set}
             /\ Cardinality(RightHeld(printed[1].set)) >= K
             /\ printed[1].x = args.x
             /\ printed[1].n # 0 => printed[1].n >= K /\ printed[1].x <= printed[1].n
  <2>1. Ending
    BY <1>1 DEF IInv
  <2>2. Len(results) = 1 /\ results[1].err = "ok" /\ exit = "ok"
    BY <1>1, <2>1 DEF Ending
  <2>3. PICK n \in {0} \cup K .. 255 :
           /\ n # 0 => args.x <= n
           /\ printed = <<[set |-> SetOf(results[1]), x |-> args.x, n |-> n]>>
    BY <1>1, <2>1 DEF Ending
  <2>4. results \in Seq(Results)
    BY <1>1 DEF IInv, Types, Results
  <2>5. DOMAIN results = {1}
    <3>1. DOMAIN results = 1 .. 1
      BY <2>2, <2>4, SeqHas
    <3> QED
      BY <3>1
  <2>6. PICK s : s = KeyOf(results[1].set)
    OBVIOUS
  <2>7. SetOf(results[1]) = s /\ Cardinality(RightHeld(s)) >= K
    BY <1>1, <2>2, <2>5, <2>6, RecoveredSet
  <2>8. s \in Given /\ Verdict(s) # "too few"
    BY <1>1, <2>2, <2>5, <2>6, WhoHasVerdict
  <2>9. \A t \in Given : Verdict(t) # "too few" => t = s
    BY <1>1, <2>5, <2>6, WhoHasVerdict
  <2>10. Len(printed) = 1 /\ printed[1].set = s /\ printed[1].x = args.x /\ printed[1].n = n
    BY <2>3, <2>7
  <2>11. n # 0 => n >= K /\ args.x <= n
    BY <2>3, KAssumption
  <2>12. {t \in Given : Verdict(t) # "too few"} = {s}
    BY <2>8, <2>9
  <2> QED
    BY <2>2, <2>7, <2>10, <2>11, <2>12
<1>2. IInv => ReplacesTheOnlySet
  BY <1>1 DEF ReplacesTheOnlySet
<1> QED
  BY <1>2, Invariant, PTL

(* The results that came out, in the order of their sets.                  *)
LEMMA RecoveredAre ==
  ASSUME IInv
  PROVE  /\ Recovered \in Seq(Results) /\ DOMAIN Recovered = 1 .. Len(Recovered)
         /\ Len(Recovered) \in Nat
         /\ \A m \in DOMAIN Recovered : \E n \in DOMAIN results :
               Recovered[m] = results[n] /\ results[n].err = "ok"
         /\ \A n \in DOMAIN results : results[n].err = "ok" =>
               \E m \in DOMAIN Recovered : Recovered[m] = results[n]
         /\ \A a, b \in DOMAIN Recovered : a < b => Recovered[a].set < Recovered[b].set
         /\ Recovered = results <=> \A n \in DOMAIN results : results[n].err = "ok"
<1> DEFINE S == {r \in ToSet(results) : r.err = "ok"}
           Below == {r \in Results \X Results : r[1].set < r[2].set}
<1>1. results \in Seq(Results)
  BY DEF IInv, Types, Results
<1>2. Recovered = Only(results, S)
  BY DEF Recovered
<1>3. \A a, b \in DOMAIN results : a < b => <<results[a], results[b]>> \in Below
  <2>1. \A a, b \in DOMAIN results : a < b => results[a].set < results[b].set
    BY DEF IInv, Opening
  <2>2. \A a \in DOMAIN results : results[a] \in Results
    BY <1>1, SeqHas
  <2> QED
    BY <2>1, <2>2
<1>4. \A r : r \in S <=> r \in ToSet(results) /\ r.err = "ok"
  OBVIOUS
<1>5. \A r, q : <<r, q>> \in Below => r.set < q.set
  OBVIOUS
<1> HIDE DEF S, Below
<1>6. Recovered \in Seq(Results) /\ ToSet(Recovered) = ToSet(results) \cap S
  BY <1>1, <1>2, OnlyKeeps
<1>7. DOMAIN Recovered = 1 .. Len(Recovered) /\ Len(Recovered) \in Nat
  BY <1>6, SeqHas
<1>8. \A a, b \in DOMAIN Recovered : a < b => <<Recovered[a], Recovered[b]>> \in Below
  BY <1>1, <1>2, <1>3, OnlyOrder
<1>9. \A a, b \in DOMAIN Recovered : a < b => Recovered[a].set < Recovered[b].set
  BY <1>5, <1>8
<1>10. ASSUME NEW m \in DOMAIN Recovered
       PROVE  \E n \in DOMAIN results : Recovered[m] = results[n] /\ results[n].err = "ok"
  <2>1. Recovered[m] \in ToSet(results) /\ Recovered[m].err = "ok"
    BY <1>4, <1>6 DEF ToSet
  <2> QED
    BY <2>1 DEF ToSet
<1>11. ASSUME NEW n \in DOMAIN results, results[n].err = "ok"
       PROVE  \E m \in DOMAIN Recovered : Recovered[m] = results[n]
  <2>1. results[n] \in ToSet(Recovered)
    BY <1>4, <1>6, <1>11 DEF ToSet
  <2> QED
    BY <2>1 DEF ToSet
<1>12. ASSUME \A n \in DOMAIN results : results[n].err = "ok" PROVE Recovered = results
  <2>1. ToSet(results) \subseteq S
    BY <1>4, <1>12 DEF ToSet
  <2> QED
    BY <1>1, <1>2, <2>1, OnlyAll
<1>13. ASSUME Recovered = results, NEW n \in DOMAIN results PROVE results[n].err = "ok"
  <2>1. results[n] \in ToSet(Recovered)
    BY <1>13 DEF ToSet
  <2> QED
    BY <1>4, <1>6, <2>1
<1> QED
  BY <1>6, <1>7, <1>9, <1>10, <1>11, <1>12, <1>13

(* recover prints every set that gave a descriptor, once, in order of its  *)
(* first share, whatever became of the others; success means that none of  *)
(* those with K shares failed.                                             *)
THEOREM PrintsRecovered == Spec => []PrintsWhatItRecovers
<1>1. ASSUME IInv, pc = "exited", command = "recover", input # <<>>,
             NEW good, good = {s \in Given : Verdict(s) = "ok"},
             NEW failed, failed = {s \in Given : Verdict(s) \notin {"ok", "too few"}}
      PROVE  /\ Len(printed) = Cardinality(good)
             /\ {printed[n].set : n \in DOMAIN printed} = good
             /\ \A m, n \in DOMAIN printed : m < n =>
                   groups[GroupNumber(printed[m].set)][1] < groups[GroupNumber(printed[n].set)][1]
             /\ exit = "ok" <=> good # {} /\ failed = {}
  <2>1. /\ printed = [r \in DOMAIN Recovered |-> [set |-> SetOf(Recovered[r]), x |-> 0, n |-> 0]]
        /\ (exit = "ok") <=> (results # <<>> /\ Recovered = results)
    BY <1>1 DEF IInv, Ending, Printout
  <2>2. PICK R : R = Recovered
    OBVIOUS
  <2>3. /\ R \in Seq(Results) /\ DOMAIN R = 1 .. Len(R) /\ Len(R) \in Nat
        /\ \A m \in DOMAIN R : \E n \in DOMAIN results : R[m] = results[n] /\ results[n].err = "ok"
        /\ \A n \in DOMAIN results : results[n].err = "ok" => \E m \in DOMAIN R : R[m] = results[n]
        /\ \A a, b \in DOMAIN R : a < b => R[a].set < R[b].set
        /\ R = results <=> \A n \in DOMAIN results : results[n].err = "ok"
    BY <1>1, <2>2, RecoveredAre
  <2>4. DOMAIN printed = 1 .. Len(R) /\ Len(printed) = Len(R)
    BY <2>1, <2>2, <2>3
  <2>5. ASSUME NEW m \in DOMAIN R
        PROVE  /\ R[m].set \in DOMAIN groups
               /\ printed[m].set = KeyOf(R[m].set)
               /\ GroupNumber(printed[m].set) = R[m].set
               /\ printed[m].set \in good
    <3>1. PICK n \in DOMAIN results : R[m] = results[n] /\ results[n].err = "ok"
      BY <2>3
    <3>2. R[m].set \in DOMAIN groups
      BY <1>1, <3>1 DEF IInv, Opening
    <3>3. SetOf(R[m]) = KeyOf(R[m].set)
      BY <1>1, <3>1, RecoveredSet
    <3>4. printed[m].set = KeyOf(R[m].set)
      BY <2>1, <2>2, <3>3
    <3>5. GroupNumber(KeyOf(R[m].set)) = R[m].set
      BY <1>1, <3>2, GroupHolds
    <3>6. KeyOf(R[m].set) \in good
      BY <1>1, <3>1, WhoHasVerdict
    <3> QED
      BY <3>2, <3>4, <3>5, <3>6
  <2>6. ASSUME NEW s \in good PROVE \E m \in DOMAIN R : printed[m].set = s
    <3>1. s \in Given /\ Verdict(s) = "ok"
      BY <1>1
    <3>2. PICK n \in DOMAIN results : s = KeyOf(results[n].set)
      BY <1>1, <3>1, WhoHasVerdict
    <3>3. results[n].err = "ok"
      BY <1>1, <3>1, <3>2, WhoHasVerdict
    <3>4. PICK m \in DOMAIN R : R[m] = results[n]
      BY <2>3, <3>3
    <3> QED
      BY <2>5, <3>2, <3>4
  <2>7. {printed[n].set : n \in DOMAIN printed} = good
    BY <2>3, <2>4, <2>5, <2>6
  <2>8. Len(printed) = Cardinality(good)
    <3> DEFINE f == [n \in 1 .. Len(R) |-> printed[n].set]
    <3>1. \A a, b \in DOMAIN R : printed[a].set = printed[b].set => a = b
      <4>1. groups \in Seq(Seq(DOMAIN input))
        BY <1>1 DEF IInv, Types
      <4>2. \A g \in DOMAIN groups : g \in Nat
        BY <4>1, SeqHas
      <4>3. ASSUME NEW a \in DOMAIN R, NEW b \in DOMAIN R, printed[a].set = printed[b].set
            PROVE  a = b
        <5>1. R[a].set = R[b].set
          BY <2>5, <4>3
        <5>2. ~ (R[a].set < R[b].set) /\ ~ (R[b].set < R[a].set)
          BY <2>5, <4>2, <5>1
        <5>3. ~ (a < b) /\ ~ (b < a)
          BY <2>3, <5>2
        <5> QED
          BY <2>3, <5>3
      <4> QED
        BY <4>3
    <3>2. DOMAIN R = 1 .. Len(R) /\ Len(R) \in Nat
      BY <2>3
    <3>3. \A a \in 1 .. Len(R) : f[a] = printed[a].set /\ f[a] \in good
      BY <2>5, <3>2
    <3>4. f \in [1 .. Len(R) -> good]
      BY <3>3
    <3>5. \A s \in good : \E a \in 1 .. Len(R) : f[a] = s
      BY <2>6, <3>2, <3>3
    <3>6. \A a, b \in 1 .. Len(R) : f[a] = f[b] => a = b
      BY <3>1, <3>2, <3>3
    <3> HIDE DEF f
    <3> QED
      BY <2>4, <3>2, <3>4, <3>5, <3>6, CountedBy
  <2>9. ASSUME NEW m \in DOMAIN printed, NEW n \in DOMAIN printed, m < n
        PROVE  groups[GroupNumber(printed[m].set)][1] < groups[GroupNumber(printed[n].set)][1]
    <3>1. m \in DOMAIN R /\ n \in DOMAIN R
      BY <2>3, <2>4
    <3>2. R[m].set < R[n].set
      BY <2>3, <2>9, <3>1
    <3>3. groups[R[m].set][1] < groups[R[n].set][1]
      BY <1>1, <2>5, <3>1, <3>2 DEF IInv, Grouped
    <3> QED
      BY <2>5, <3>1, <3>3
  <2>10. exit = "ok" <=> good # {} /\ failed = {}
    <3>1. ASSUME NEW s \in failed
          PROVE  \E n \in DOMAIN results : results[n].err # "ok"
      <4>1. s \in Given /\ Verdict(s) # "ok" /\ Verdict(s) # "too few"
        BY <1>1
      <4>2. PICK n \in DOMAIN results : s = KeyOf(results[n].set)
        BY <1>1, <4>1, WhoHasVerdict
      <4> QED
        BY <1>1, <4>1, <4>2, WhoHasVerdict
    <3>2. ASSUME NEW n \in DOMAIN results, results[n].err # "ok"
          PROVE  failed # {}
      <4>1. /\ KeyOf(results[n].set) \in Given
            /\ Verdict(KeyOf(results[n].set)) = results[n].err
            /\ results[n].err \in Errors
        BY <1>1, WhoHasVerdict
      <4>2. KeyOf(results[n].set) \in failed
        BY <1>1, <3>2, <4>1 DEF Errors
      <4> QED
        BY <4>2
    <3>3. failed = {} <=> \A n \in DOMAIN results : results[n].err = "ok"
      BY <3>1, <3>2
    <3>4. good # {} <=> \E n \in DOMAIN results : results[n].err = "ok"
      BY <2>3, <2>5, <2>6
    <3>5. results # <<>> <=> \E n \in DOMAIN results : TRUE
      <4>1. results \in Seq(Results)
        BY <1>1 DEF IInv, Types, Results
      <4> QED
        BY <4>1
    <3> QED
      BY <2>1, <2>2, <2>3, <3>3, <3>4, <3>5
  <2> QED
    BY <2>7, <2>8, <2>9, <2>10
<1>2. IInv => PrintsWhatItRecovers
  BY <1>1 DEF PrintsWhatItRecovers
<1> QED
  BY <1>2, Invariant, PTL

-----------------------------------------------------------------------------
(* How many choices there are, and what is among them                      *)

(* choices takes each text at a disputed x once, where it comes first.     *)
LEMMA TextsOnce ==
  ASSUME Types, Grouped, NEW g \in DOMAIN groups, NEW x
  PROVE  /\ FirstTexts(groups[g], x) \in Seq(DOMAIN input)
         /\ \A t \in ToSet(FirstTexts(groups[g], x)) : t \in ToSet(groups[g]) /\ At(t).x = x
         /\ \A p \in ToSet(groups[g]) : At(p).x = x =>
               \E t \in ToSet(FirstTexts(groups[g], x)) : At(t).text = At(p).text
         /\ Len(FirstTexts(groups[g], x)) = Cardinality(TextsAt(GroupOf(groups[g]), x))
<1>1. PICK ps : ps = groups[g]
  OBVIOUS
<1> DEFINE F == {p \in ToSet(ps) : /\ At(p).x = x
                                   /\ \A q \in ToSet(ps) : q < p => At(q) # At(p)}
           f == Only(ps, F)
           Below == {r \in Nat \X Nat : r[1] < r[2]}
<1>2. /\ ps \in Seq(DOMAIN input) /\ input \in Inputs
      /\ \A p \in ToSet(ps) : Joins(p) /\ p \in DOMAIN input
  BY <1>1, GroupsJoin
<1>3. DOMAIN input \subseteq Nat
  <2>1. input \in Seq(Shares \cup {Undecoded})
    BY DEF Types, TypeOK
  <2> QED
    BY <2>1, SeqHas
<1>4. f = FirstTexts(ps, x)
  BY DEF FirstTexts
<1>5. \A p : p \in F <=> /\ p \in ToSet(ps) /\ At(p).x = x
                         /\ \A q \in ToSet(ps) : q < p => At(q) # At(p)
  OBVIOUS
<1>6. \A a, b \in DOMAIN ps : a < b => <<ps[a], ps[b]>> \in Below
  <2>1. \A a, b \in DOMAIN ps : a < b => ps[a] < ps[b]
    BY <1>1 DEF Grouped
  <2>2. \A a \in DOMAIN ps : ps[a] \in Nat
    BY <1>2, <1>3, SeqHas
  <2> QED
    BY <2>1, <2>2
<1>7. \A m, n : <<m, n>> \in Below => m < n /\ m \in Nat /\ n \in Nat
  OBVIOUS
<1> HIDE DEF F, f, Below
<1>8. f \in Seq(DOMAIN input) /\ ToSet(f) = ToSet(ps) \cap F
  BY <1>2, OnlyKeeps DEF f
<1>9. \A a, b \in DOMAIN f : a < b => <<f[a], f[b]>> \in Below
  BY <1>2, <1>6, OnlyOrder DEF f
<1>10. DOMAIN f = 1 .. Len(f) /\ Len(f) \in Nat /\ \A a \in DOMAIN f : f[a] \in F
  <2>1. DOMAIN f = 1 .. Len(f) /\ Len(f) \in Nat
    BY <1>8, SeqHas
  <2> QED
    BY <1>8, <2>1 DEF ToSet
<1>11. ASSUME NEW p \in ToSet(ps), At(p).x = x
       PROVE  \E t \in ToSet(f) : At(t) = At(p)
  <2> DEFINE Copies == {q \in ToSet(ps) : At(q) = At(p)}
  <2>1. Copies \subseteq Nat /\ p \in Copies
    BY <1>2, <1>3
  <2>2. \A q : q \in Copies <=> q \in ToSet(ps) /\ At(q) = At(p)
    OBVIOUS
  <2> HIDE DEF Copies
  <2>3. PICK t \in Copies : \A q \in Copies : t <= q
    BY <2>1, LeastNat
  <2>4. \A q \in ToSet(ps) : q < t => At(q) # At(t)
    <3> SUFFICES ASSUME NEW q \in ToSet(ps), q < t, At(q) = At(t) PROVE FALSE
      OBVIOUS
    <3>1. q \in Copies
      BY <2>2
    <3>2. t <= q /\ q \in Nat /\ t \in Nat
      BY <2>1, <2>3, <3>1
    <3> QED
      BY <3>2
  <2>5. t \in F
    BY <1>5, <1>11, <2>2, <2>4
  <2> QED
    BY <1>5, <1>8, <2>2, <2>5
<1>12. /\ \A t \in ToSet(f) : t \in ToSet(ps) /\ At(t).x = x
       /\ \A p \in ToSet(ps) : At(p).x = x => \E t \in ToSet(f) : At(t).text = At(p).text
  BY <1>5, <1>8, <1>11
<1>13. Len(f) = Cardinality(TextsAt(GroupOf(ps), x))
  <2> DEFINE T == TextsAt(GroupOf(ps), x)
             h == [a \in 1 .. Len(f) |-> At(f[a]).text]
  <2>1. T = {At(p).text : p \in {q \in ToSet(ps) : At(q).x = x}}
    BY <1>2, GroupOfXs
  <2>2. \A a \in 1 .. Len(f) : h[a] = At(f[a]).text /\ f[a] \in F /\ f[a] \in ToSet(ps) /\ h[a] \in T
    BY <1>5, <1>10, <2>1
  <2>3. h \in [1 .. Len(f) -> T]
    BY <2>2
  <2>4. ASSUME NEW e \in T PROVE \E a \in 1 .. Len(f) : h[a] = e
    <3>1. PICK p \in ToSet(ps) : At(p).x = x /\ At(p).text = e
      BY <2>1
    <3>2. PICK t \in ToSet(f) : At(t).text = e
      BY <1>12, <3>1
    <3>3. PICK a \in DOMAIN f : f[a] = t
      BY DEF ToSet
    <3> QED
      BY <1>10, <2>2, <3>2, <3>3
  <2>5. ASSUME NEW a \in 1 .. Len(f), NEW b \in 1 .. Len(f), h[a] = h[b], a < b PROVE FALSE
    <3>1. f[a] < f[b]
      BY <1>7, <1>9, <1>10, <2>5
    <3>2. At(f[a]).x = At(f[b]).x /\ At(f[a]).text = At(f[b]).text
      BY <1>5, <2>2, <2>5
    <3>3. At(f[a]) = At(f[b])
      BY <1>1, <2>2, <3>2, SameShare
    <3> QED
      BY <1>5, <2>2, <3>1, <3>3
  <2>6. \A a, b \in 1 .. Len(f) : h[a] = h[b] => a = b
    <3>1. \A a, b \in 1 .. Len(f) : a = b \/ a < b \/ b < a
      BY <1>10
    <3> QED
      BY <2>5, <3>1
  <2> HIDE DEF T, h
  <2>7. Cardinality(T) = Len(f)
    BY <1>10, <2>3, <2>4, <2>6, CountedBy
  <2> QED
    BY <2>7 DEF T
<1> QED
  BY <1>1, <1>4, <1>8, <1>12, <1>13

(* The number of choices is a product over the x with more than one text.  *)
Differing(s) == Ascending(XsHeld(s) \ OneText(s))
IsProduct(h, s, m) ==
    h = [n \in 0 .. m |->
            IF n = 0 THEN 1 ELSE h[n - 1] * Cardinality(TextsHeld(s, Differing(s)[n]))]

LEMMA ProductExists ==
  ASSUME NEW s, NEW m \in Nat
  PROVE  \E h : IsProduct(h, s, m)
<1> DEFINE Without == {n \in Nat : ~ \E h : IsProduct(h, s, n)}
<1>1. 0 \notin Without
  <2>1. IsProduct([n \in 0 .. 0 |-> 1], s, 0)
    BY DEF IsProduct
  <2> QED
    BY <2>1
<1>2. ASSUME NEW n \in Nat, n \notin Without PROVE n + 1 \notin Without
  <2>1. PICK f : IsProduct(f, s, n)
    BY <1>2
  <2> DEFINE last == f[n] * Cardinality(TextsHeld(s, Differing(s)[n + 1]))
             h == [l \in 0 .. n + 1 |-> IF l = n + 1 THEN last ELSE f[l]]
  <2>2. h = [l \in 0 .. n + 1 |->
                IF l = 0 THEN 1 ELSE h[l - 1] * Cardinality(TextsHeld(s, Differing(s)[l]))]
    <3> SUFFICES ASSUME NEW l \in 0 .. n + 1
                 PROVE  h[l] = IF l = 0 THEN 1
                               ELSE h[l - 1] * Cardinality(TextsHeld(s, Differing(s)[l]))
      OBVIOUS
    <3>1. CASE l = n + 1
      <4>1. h[l] = last /\ l # 0 /\ l - 1 = n /\ n \in 0 .. n + 1 /\ n # n + 1
        BY <3>1
      <4>2. h[l - 1] = f[n]
        BY <4>1
      <4> QED
        BY <3>1, <4>1, <4>2
    <3>2. CASE l # n + 1
      <4>1. l \in 0 .. n /\ (l # 0 => l - 1 \in 0 .. n + 1 /\ l - 1 # n + 1)
        BY <3>2
      <4>2. f[l] = IF l = 0 THEN 1 ELSE f[l - 1] * Cardinality(TextsHeld(s, Differing(s)[l]))
        BY <2>1, <4>1 DEF IsProduct
      <4>3. h[l] = f[l] /\ (l # 0 => h[l - 1] = f[l - 1])
        BY <3>2, <4>1
      <4> QED
        BY <4>2, <4>3
    <3> QED
      BY <3>1, <3>2
  <2>3. IsProduct(h, s, n + 1)
    BY <2>2 DEF IsProduct
  <2> QED
    BY <2>3
<1>3. Without \subseteq Nat
  OBVIOUS
<1>4. Without = {}
  <2> HIDE DEF Without
  <2> QED
    BY <1>1, <1>2, <1>3, NoCounterexample
<1> QED
  BY <1>4

IsCount(h, s) ==
    /\ NumberOfChoices(s) = h[Len(Differing(s))]
    /\ h[0] = 1
    /\ \A n \in 1 .. Len(Differing(s)) :
          h[n] = h[n - 1] * Cardinality(TextsHeld(s, Differing(s)[n]))
LEMMA ProductLoop ==
  ASSUME NEW s, Len(Differing(s)) \in Nat
  PROVE  \E h : IsCount(h, s)
<1> DEFINE m == Len(Differing(s))
           h == CHOOSE h : IsProduct(h, s, m)
<1>1. IsProduct(h, s, m)
  BY ProductExists
<1>2. NumberOfChoices(s) = h[m]
  BY DEF NumberOfChoices, IsProduct, Differing
<1>3. h[0] = 1
  <2>1. 0 \in 0 .. m
    OBVIOUS
  <2> HIDE DEF h, m
  <2> QED
    BY <1>1, <2>1 DEF IsProduct
<1>4. ASSUME NEW n \in 1 .. m PROVE h[n] = h[n - 1] * Cardinality(TextsHeld(s, Differing(s)[n]))
  <2>1. n \in 0 .. m /\ n # 0
    OBVIOUS
  <2> HIDE DEF h, m
  <2> QED
    BY <1>1, <2>1 DEF IsProduct
<1>5. IsCount(h, s)
  <2> HIDE DEF h
  <2> QED
    BY <1>2, <1>3, <1>4 DEF IsCount
<1> QED
  BY <1>5

(* A choice from the shares at ps: for every x in X one text, and the      *)
(* right one where there is one.                                           *)
OneEach(c, ps, X) ==
    /\ c \in Seq(DOMAIN input)
    /\ ToSet(c) \subseteq ToSet(ps)
    /\ {At(p).x : p \in ToSet(c)} = X
    /\ \A p, q \in ToSet(c) : At(p).x = At(q).x => At(p).text = At(q).text
RightIfAny(c, ps) ==
    \A p \in ToSet(c), q \in ToSet(ps) :
        At(q).x = At(p).x /\ At(q).text = Right => At(p).text = Right

(* The shares at undisputed x are such a choice.                           *)
LEMMA BaseOneEach ==
  ASSUME Types, Grouped, NEW g \in DOMAIN groups
  PROVE  /\ OneEach(BaseChoice(groups[g]), groups[g], Undisputed(GroupOf(groups[g])))
         /\ RightIfAny(BaseChoice(groups[g]), groups[g])
<1>1. PICK ps : ps = groups[g]
  OBVIOUS
<1> DEFINE c == BaseChoice(ps)
           D == Disputed(GroupOf(ps))
           S == {p \in ToSet(ps) : At(p).x \notin D}
<1>2. /\ ps \in Seq(DOMAIN input) /\ input \in Inputs
      /\ \A p \in ToSet(ps) : Joins(p) /\ p \in DOMAIN input
  BY <1>1, GroupsJoin
<1>3. c = Only(ps, S)
  BY DEF BaseChoice
<1>4. \A p : p \in S <=> p \in ToSet(ps) /\ At(p).x \notin D
  OBVIOUS
<1>5. /\ XsOf(GroupOf(ps)) = {At(p).x : p \in ToSet(ps)}
      /\ \A x : x \in D <=>
            \E p, q \in ToSet(ps) : At(p).x = x /\ At(q).x = x /\ At(p).text # At(q).text
  BY <1>2, GroupOfXs
<1> HIDE DEF c, D, S
<1>6. c \in Seq(DOMAIN input) /\ ToSet(c) = ToSet(ps) \cap S
  BY <1>2, <1>3, OnlyKeeps
<1>7. \A p : p \in ToSet(c) <=> p \in ToSet(ps) /\ At(p).x \notin D
  BY <1>4, <1>6
<1>8. {At(p).x : p \in ToSet(c)} = XsOf(GroupOf(ps)) \ D
  BY <1>5, <1>7
<1>9. XsOf(GroupOf(ps)) \ D = Undisputed(GroupOf(ps))
  BY DEF Undisputed, D
<1>10. \A p, q \in ToSet(ps) : At(p).x = At(q).x /\ At(p).x \notin D => At(p).text = At(q).text
  BY <1>5
<1>11. OneEach(c, ps, Undisputed(GroupOf(ps)))
  BY <1>6, <1>7, <1>8, <1>9, <1>10 DEF OneEach
<1>12. RightIfAny(c, ps)
  BY <1>7, <1>10 DEF RightIfAny
<1> QED
  BY <1>1, <1>11, <1>12 DEF c

(* A text at a further x makes another such choice.                        *)
LEMMA OneEachMore ==
  ASSUME NEW c, NEW ps, NEW X, OneEach(c, ps, X), NEW t \in ToSet(ps), t \in DOMAIN input,
         At(t).x \notin X
  PROVE  /\ OneEach(Append(c, t), ps, X \cup {At(t).x})
         /\ RightIfAny(c, ps) /\ (\A q \in ToSet(ps) :
               At(q).x = At(t).x /\ At(q).text = Right => At(t).text = Right)
            => RightIfAny(Append(c, t), ps)
<1> DEFINE e == Append(c, t)
<1>1. c \in Seq(DOMAIN input)
  BY DEF OneEach
<1>2. ToSet(e) = ToSet(c) \cup {t} /\ e \in Seq(DOMAIN input)
  BY <1>1, AppendAdds, AppendHas
<1> HIDE DEF e
<1>3. \A p \in ToSet(c) : At(p).x \in X
  BY DEF OneEach
<1>4. OneEach(e, ps, X \cup {At(t).x})
  <2>1. {At(p).x : p \in ToSet(e)} = {At(p).x : p \in ToSet(c)} \cup {At(t).x}
    BY <1>2
  <2>2. ToSet(e) \subseteq ToSet(ps)
    BY <1>2 DEF OneEach
  <2>3. \A p, q \in ToSet(e) : At(p).x = At(q).x => At(p).text = At(q).text
    <3>1. \A p \in ToSet(c) : At(p).x # At(t).x
      BY <1>3
    <3>2. \A p, q \in ToSet(c) : At(p).x = At(q).x => At(p).text = At(q).text
      BY DEF OneEach
    <3> QED
      BY <1>2, <3>1, <3>2
  <2>4. {At(p).x : p \in ToSet(c)} = X
    BY DEF OneEach
  <2> QED
    BY <1>2, <2>1, <2>2, <2>3, <2>4 DEF OneEach
<1>5. ASSUME RightIfAny(c, ps),
             \A q \in ToSet(ps) : At(q).x = At(t).x /\ At(q).text = Right => At(t).text = Right
      PROVE  RightIfAny(e, ps)
  BY <1>2, <1>5 DEF RightIfAny
<1> QED
  BY <1>4, <1>5 DEF e

(* A count that is past the bound stays past it.                           *)
LEMMA CountGrows ==
  ASSUME NEW a \in Nat, NEW d \in Nat, d >= 1, a >= 1
  PROVE  a * d \in Nat /\ a * d >= a /\ a * d >= 1 /\ 0 * d = 0
OBVIOUS

(* One round of the loop of choices, for the texts at x, where h choices   *)
(* would make up all.                                                      *)
Round(all, ps, X, h) ==
    /\ all \in Seq(Seq(DOMAIN input))
    /\ h \in Nat /\ h >= 1
    /\ \A c \in ToSet(all) : OneEach(c, ps, X)
    /\ h <= MaxChoices => Len(all) = h /\ \E c \in ToSet(all) : RightIfAny(c, ps)
    /\ h > MaxChoices => Len(all) = 0

LEMMA RoundDone ==
  ASSUME Types, Grouped, NEW g \in DOMAIN groups, NEW x \in XsOf(GroupOf(groups[g])),
         NEW all, NEW X, NEW h, Round(all, groups[g], X, h), x \notin X
  PROVE  Round(ChoicesWith(groups[g], all, x), groups[g], X \cup {x},
               h * Cardinality(TextsAt(GroupOf(groups[g]), x)))
<1>1. PICK ps : ps = groups[g]
  OBVIOUS
<1>2. PICK texts : texts = FirstTexts(ps, x)
  OBVIOUS
<1>3. PICK d : d = Cardinality(TextsAt(GroupOf(ps), x))
  OBVIOUS
<1>4. PICK next : next = ChoicesWith(ps, all, x)
  OBVIOUS
<1>5. /\ ps \in Seq(DOMAIN input) /\ input \in Inputs
      /\ \A p \in ToSet(ps) : Joins(p) /\ p \in DOMAIN input
  BY <1>1, GroupsJoin
<1>6. /\ texts \in Seq(DOMAIN input) /\ Len(texts) = d
      /\ \A t \in ToSet(texts) : t \in ToSet(ps) /\ At(t).x = x
      /\ \A p \in ToSet(ps) : At(p).x = x => \E t \in ToSet(texts) : At(t).text = At(p).text
  BY <1>1, <1>2, <1>3, TextsOnce
<1>7. /\ all \in Seq(Seq(DOMAIN input)) /\ h \in Nat /\ h >= 1
      /\ \A c \in ToSet(all) : OneEach(c, ps, X)
      /\ h <= MaxChoices => Len(all) = h /\ \E c \in ToSet(all) : RightIfAny(c, ps)
      /\ h > MaxChoices => Len(all) = 0
  BY <1>1 DEF Round
<1>8. d \in Nat /\ d >= 1
  <2>1. GroupOf(ps) \in Seq(Shares)
    BY <1>5, GroupOfTyped
  <2>2. IsFiniteSet(TextsAt(GroupOf(ps), x)) /\ TextsAt(GroupOf(ps), x) # {}
    BY <1>1, <2>1, TextsFinite DEF TextsAt, XsOf
  <2>3. d \in Nat /\ d # 0
    BY <1>3, <2>2, FS_CardinalityType, FS_EmptySet
  <2> QED
    BY <2>3
<1>9. /\ next \in Seq(Seq(DOMAIN input)) /\ Len(next) <= MaxChoices
      /\ \A e \in ToSet(next) : \E c \in ToSet(all), t \in ToSet(texts) : e = Append(c, t)
      /\ Len(all) * d <= MaxChoices =>
            /\ Len(next) = Len(all) * d
            /\ \A c \in ToSet(all), t \in ToSet(texts) : Append(c, t) \in ToSet(next)
      /\ Len(all) * d > MaxChoices => Len(next) = 0
  <2>1. /\ ChoicesWith(ps, all, x) \in Seq(Seq(DOMAIN input))
        /\ Len(ChoicesWith(ps, all, x)) <= MaxChoices
        /\ \A e \in ToSet(ChoicesWith(ps, all, x)) :
              \E c \in ToSet(all), t \in ToSet(FirstTexts(ps, x)) : e = Append(c, t)
        /\ Len(all) * Len(FirstTexts(ps, x)) <= MaxChoices =>
              /\ Len(ChoicesWith(ps, all, x)) = Len(all) * Len(FirstTexts(ps, x))
              /\ \A c \in ToSet(all), t \in ToSet(FirstTexts(ps, x)) :
                    Append(c, t) \in ToSet(ChoicesWith(ps, all, x))
        /\ Len(all) * Len(FirstTexts(ps, x)) > MaxChoices =>
              Len(ChoicesWith(ps, all, x)) = 0
    BY <1>5, <1>7, ChoicesWithAppends
  <2>2. Len(FirstTexts(ps, x)) = d
    BY <1>2, <1>6
  <2> QED
    BY <1>2, <1>4, <2>1, <2>2
<1>10. h * d \in Nat /\ h * d >= h /\ h * d >= 1 /\ 0 * d = 0
  BY <1>7, <1>8, CountGrows
<1>11. MaxChoices \in Nat
  BY MaxChoicesAssumption
<1>12. ASSUME NEW e \in ToSet(next) PROVE OneEach(e, ps, X \cup {x})
  <2>1. PICK c \in ToSet(all), t \in ToSet(texts) : e = Append(c, t)
    BY <1>9
  <2>2. t \in ToSet(ps) /\ At(t).x = x /\ t \in DOMAIN input /\ OneEach(c, ps, X)
    BY <1>5, <1>6, <1>7
  <2> QED
    BY <2>1, <2>2, OneEachMore
<1>13. ASSUME h * d <= MaxChoices
       PROVE  Len(next) = h * d /\ \E c \in ToSet(next) : RightIfAny(c, ps)
  <2>1. h <= MaxChoices
    BY <1>7, <1>10, <1>11, <1>13
  <2>2. Len(all) = h
    BY <1>7, <2>1
  <2>3. PICK c \in ToSet(all) : RightIfAny(c, ps)
    BY <1>7, <2>1
  <2>4. \E t \in ToSet(texts) : \A q \in ToSet(ps) :
           At(q).x = At(t).x /\ At(q).text = Right => At(t).text = Right
    <3>1. CASE \E q \in ToSet(ps) : At(q).x = x /\ At(q).text = Right
      BY <1>6, <3>1
    <3>2. CASE ~ \E q \in ToSet(ps) : At(q).x = x /\ At(q).text = Right
      <4>1. PICK p \in ToSet(ps) : At(p).x = x
        BY <1>1, <1>5, GroupOfXs
      <4> QED
        BY <1>6, <3>2, <4>1
    <3> QED
      BY <3>1, <3>2
  <2>5. PICK t \in ToSet(texts) : \A q \in ToSet(ps) :
           At(q).x = At(t).x /\ At(q).text = Right => At(t).text = Right
    BY <2>4
  <2>6. t \in ToSet(ps) /\ At(t).x = x /\ t \in DOMAIN input /\ OneEach(c, ps, X)
    BY <1>5, <1>6, <1>7
  <2>7. RightIfAny(Append(c, t), ps)
    BY <2>3, <2>5, <2>6, OneEachMore
  <2> QED
    BY <1>9, <1>13, <2>2, <2>7
<1>14. ASSUME h * d > MaxChoices PROVE Len(next) = 0
  <2>1. CASE h <= MaxChoices
    BY <1>7, <1>9, <1>14, <2>1
  <2>2. CASE h > MaxChoices
    <3>1. Len(all) = 0
      BY <1>7, <2>2
    <3> QED
      BY <1>9, <1>10, <1>11, <3>1
  <2> QED
    BY <1>7, <1>11, <2>1, <2>2
<1>15. Round(next, ps, X \cup {x}, h * d)
  BY <1>9, <1>10, <1>12, <1>13, <1>14 DEF Round
<1> QED
  BY <1>1, <1>3, <1>4, <1>15

(* What choices gives: nothing when there are too many, and otherwise a    *)
(* text for every x each, the right one wherever it is held in one of them.*)
LEMMA ChoicesComplete ==
  ASSUME IInv, pc # "group", NEW g \in DOMAIN groups
  PROVE  /\ \A c \in ToSet(ChoiceSeq(groups[g])) :
               OneEach(c, groups[g], XsOf(GroupOf(groups[g])))
         /\ ChoiceSeq(groups[g]) # <<>> => NumberOfChoices(KeyOf(g)) <= MaxChoices
         /\ NumberOfChoices(KeyOf(g)) <= MaxChoices =>
               \E c \in ToSet(ChoiceSeq(groups[g])) : RightIfAny(c, groups[g])
         /\ NumberOfChoices(KeyOf(g)) \in Nat
<1>1. PICK ps : ps = groups[g]
  OBVIOUS
<1>2. PICK s : s = KeyOf(g)
  OBVIOUS
<1>3. /\ Types /\ Grouped
      /\ ps \in Seq(DOMAIN input) /\ input \in Inputs
      /\ \A p \in ToSet(ps) : Joins(p) /\ p \in DOMAIN input
  BY <1>1, GroupsJoin DEF IInv
<1>4. PICK xs : xs = InOrder(ps)
  OBVIOUS
<1>5. /\ xs \in Seq(Nat) /\ ToSet(xs) = Disputed(GroupOf(ps))
      /\ \A a, b \in DOMAIN xs : a < b => xs[a] < xs[b]
  BY <1>3, <1>4, InOrderTyped
<1>6. PICK m \in Nat : m = Len(xs) /\ DOMAIN xs = 1 .. m
  BY <1>5, SeqHas
<1>7. Differing(s) = xs
  <2>1. XsHeld(s) \ OneText(s) = Disputed(GroupOf(ps))
    <3>1. XsHeld(s) = XsOf(GroupOf(ps)) /\ OneText(s) = Undisputed(GroupOf(ps))
      BY <1>1, <1>2, GroupHolds, GroupOneText
    <3> QED
      BY <3>1 DEF Undisputed, Disputed
  <2> QED
    BY <1>4, <2>1 DEF Differing, InOrder
<1>8. PICK f : IsLoop(f, ps)
  BY <1>4, <1>6, ChoicesLoop
<1>9. PICK h : IsCount(h, s)
  BY <1>6, <1>7, ProductLoop
<1>10. /\ ChoiceSeq(ps) = f[m] /\ f[0] = <<BaseChoice(ps)>>
       /\ \A n \in 1 .. m : f[n] = ChoicesWith(ps, f[n - 1], xs[n])
  BY <1>4, <1>6, <1>8 DEF IsLoop
<1>11. /\ NumberOfChoices(s) = h[m] /\ h[0] = 1
       /\ \A n \in 1 .. m : h[n] = h[n - 1] * Cardinality(TextsAt(GroupOf(ps), xs[n]))
  <2>1. \A x : TextsHeld(s, x) = TextsAt(GroupOf(ps), x)
    BY <1>1, <1>2, GroupHolds
  <2> QED
    BY <1>6, <1>7, <1>9, <2>1 DEF IsCount
<1> DEFINE X(n) == Undisputed(GroupOf(ps)) \cup {xs[l] : l \in 1 .. n}
           P(n) == Round(f[n], ps, X(n), h[n])
           Off == {n \in 0 .. m : ~ P(n)}
<1>12. P(0)
  <2>1. X(0) = Undisputed(GroupOf(ps))
    OBVIOUS
  <2>2. PICK c : c = BaseChoice(ps)
    OBVIOUS
  <2>3. OneEach(c, ps, Undisputed(GroupOf(ps))) /\ RightIfAny(c, ps)
    BY <1>1, <1>3, <2>2, BaseOneEach
  <2>4. c \in Seq(DOMAIN input)
    BY <2>3 DEF OneEach
  <2>5. f[0] = <<c>> /\ f[0] \in Seq(Seq(DOMAIN input)) /\ Len(f[0]) = 1 /\ ToSet(f[0]) = {c}
    BY <1>10, <2>2, <2>4 DEF ToSet
  <2>6. h[0] = 1 /\ 1 <= MaxChoices /\ ~ (1 > MaxChoices) /\ 1 \in Nat /\ 1 >= 1
    BY <1>11, MaxChoicesAssumption
  <2> QED
    BY <2>1, <2>3, <2>5, <2>6 DEF Round
<1>13. ASSUME NEW n \in Nat, n + 1 \in 0 .. m, P(n) PROVE P(n + 1)
  <2>1. n + 1 \in 1 .. m /\ n + 1 - 1 = n
    BY <1>13
  <2>2. PICK x : x = xs[n + 1]
    OBVIOUS
  <2>3. x \in Disputed(GroupOf(ps))
    BY <1>5, <1>6, <2>1, <2>2 DEF ToSet
  <2>4. x \in XsOf(GroupOf(ps)) /\ x \notin Undisputed(GroupOf(ps))
    BY <2>3 DEF Disputed, Undisputed
  <2>5. \A l \in 1 .. n : xs[l] # x
    <3> SUFFICES ASSUME NEW l \in 1 .. n PROVE xs[l] # x
      OBVIOUS
    <3>1. l \in 1 .. m /\ l < n + 1
      BY <1>13
    <3>2. xs[l] < x /\ x \in Nat
      BY <1>5, <1>6, <2>1, <2>2, <3>1
    <3> QED
      BY <3>2
  <2>6. x \notin X(n)
    BY <2>4, <2>5
  <2>7. X(n + 1) = X(n) \cup {x}
    <3>1. 1 .. n + 1 = (1 .. n) \cup {n + 1}
      BY <1>13
    <3> QED
      BY <2>2, <3>1
  <2>8. f[n + 1] = ChoicesWith(ps, f[n], x)
    <3>1. f[n + 1] = ChoicesWith(ps, f[(n + 1) - 1], xs[n + 1])
      BY <1>10, <2>1
    <3> QED
      BY <2>1, <2>2, <3>1
  <2>9. h[n + 1] = h[n] * Cardinality(TextsAt(GroupOf(ps), x))
    <3>1. h[n + 1] = h[(n + 1) - 1] * Cardinality(TextsAt(GroupOf(ps), xs[n + 1]))
      BY <1>11, <2>1
    <3> QED
      BY <2>1, <2>2, <3>1
  <2> HIDE DEF X
  <2>10. Round(f[n], ps, X(n), h[n])
    BY <1>13
  <2>11. Round(ChoicesWith(ps, f[n], x), ps, X(n) \cup {x},
               h[n] * Cardinality(TextsAt(GroupOf(ps), x)))
    BY <1>1, <1>3, <2>4, <2>6, <2>10, RoundDone
  <2> QED
    BY <2>7, <2>8, <2>9, <2>11
<1>14. X(m) = XsOf(GroupOf(ps))
  <2>1. {xs[l] : l \in 1 .. m} = Disputed(GroupOf(ps))
    BY <1>5, <1>6 DEF ToSet
  <2> QED
    BY <2>1 DEF Undisputed, Disputed
<1> HIDE DEF X, P
<1>15. Off = {}
  <2>1. \A n \in Nat : n + 1 \in Off => n \in Off
    BY <1>6, <1>13
  <2> HIDE DEF Off
  <2>2. Off \subseteq Nat /\ 0 \notin Off
    BY <1>12 DEF Off
  <2> QED
    BY <2>1, <2>2, NoCounterexample
<1>16. Round(f[m], ps, X(m), h[m])
  <2>1. P(m)
    BY <1>6, <1>15
  <2> QED
    BY <2>1 DEF P
<1>17. /\ f[m] \in Seq(Seq(DOMAIN input)) /\ h[m] \in Nat
       /\ \A c \in ToSet(f[m]) : OneEach(c, ps, X(m))
       /\ h[m] <= MaxChoices => \E c \in ToSet(f[m]) : RightIfAny(c, ps)
       /\ h[m] > MaxChoices => Len(f[m]) = 0
  BY <1>16 DEF Round
<1>18. f[m] # <<>> => h[m] <= MaxChoices
  <2>1. f[m] # <<>> => Len(f[m]) # 0
    BY <1>17
  <2> QED
    BY <1>17, <2>1, MaxChoicesAssumption
<1> QED
  BY <1>1, <1>2, <1>10, <1>11, <1>14, <1>17, <1>18

-----------------------------------------------------------------------------
(* What may become of a set                                                *)

(* A choice of one text for every x can be solved, and holds all the right *)
(* texts that are held when it takes each of them.                         *)
LEMMA ChoiceSolvable ==
  ASSUME IInv, pc # "group", NEW g \in DOMAIN groups, NEW c,
         OneEach(c, groups[g], XsOf(GroupOf(groups[g])))
  PROVE  /\ Undisputed(GroupOf(c)) = XsHeld(KeyOf(g))
         /\ RightIfAny(c, groups[g]) => RightHeld(KeyOf(g)) \subseteq RightXs(GroupOf(c))
<1>1. PICK ps : ps = groups[g]
  OBVIOUS
<1>2. /\ c \in Seq(DOMAIN input) /\ ToSet(c) \subseteq ToSet(ps)
      /\ {At(p).x : p \in ToSet(c)} = XsOf(GroupOf(ps))
      /\ \A p, q \in ToSet(c) : At(p).x = At(q).x => At(p).text = At(q).text
  BY <1>1 DEF OneEach
<1>3. /\ Types /\ Grouped /\ input \in Inputs
      /\ \A p \in ToSet(ps) : Joins(p) /\ p \in DOMAIN input
  BY <1>1, GroupsJoin DEF IInv
<1>4. /\ XsOf(GroupOf(c)) = {At(p).x : p \in ToSet(c)}
      /\ \A x : TextsAt(GroupOf(c), x) = {At(p).text : p \in {q \in ToSet(c) : At(q).x = x}}
      /\ \A x : x \in Disputed(GroupOf(c)) <=>
            \E p, q \in ToSet(c) : At(p).x = x /\ At(q).x = x /\ At(p).text # At(q).text
  BY <1>2, <1>3, GroupOfXs
<1>5. Disputed(GroupOf(c)) = {}
  BY <1>2, <1>4
<1>6. /\ XsHeld(KeyOf(g)) = XsOf(GroupOf(ps))
      /\ Held(KeyOf(g)) = {At(p) : p \in ToSet(ps)}
  BY <1>1, GroupHolds
<1>7. Undisputed(GroupOf(c)) = XsHeld(KeyOf(g))
  BY <1>2, <1>4, <1>5, <1>6 DEF Undisputed
<1>8. ASSUME RightIfAny(c, ps), NEW x \in RightHeld(KeyOf(g)) PROVE x \in RightXs(GroupOf(c))
  <2>1. x \in XsHeld(KeyOf(g)) /\ Right \in TextsHeld(KeyOf(g), x)
    BY DEF RightHeld
  <2>2. PICK q \in ToSet(ps) : At(q).x = x /\ At(q).text = Right
    BY <1>6, <2>1 DEF TextsHeld
  <2>3. PICK p \in ToSet(c) : At(p).x = x
    BY <1>2, <1>6, <2>1
  <2>4. \A r \in ToSet(c) : At(r).x = x => At(r).text = Right
    BY <1>8, <2>2 DEF RightIfAny
  <2>5. TextsAt(GroupOf(c), x) = {Right}
    BY <1>4, <2>3, <2>4
  <2> QED
    BY <1>7, <2>1, <2>5 DEF RightXs
<1> QED
  BY <1>1, <1>7, <1>8

(* The x with one text of which it is the right one.                       *)
LEMMA OneTextRight ==
  ASSUME IInv, pc # "group", NEW g \in DOMAIN groups
  PROVE  RightXs(GroupOf(groups[g])) = OneText(KeyOf(g)) \cap RightHeld(KeyOf(g))
<1>1. PICK G : G = GroupOf(groups[g])
  OBVIOUS
<1>2. PICK s : s = KeyOf(g)
  OBVIOUS
<1>3. /\ OneText(s) = Undisputed(G) /\ XsHeld(s) = XsOf(G)
      /\ \A x : TextsHeld(s, x) = TextsAt(G, x)
  BY <1>1, <1>2, GroupHolds, GroupOneText
<1>4. G \in Seq(Shares)
  BY <1>1, GroupsJoin, GroupOfTyped DEF IInv
<1>5. ASSUME NEW x \in OneText(s) PROVE TextsAt(G, x) = {Right} <=> Right \in TextsAt(G, x)
  <2>1. Cardinality(TextsAt(G, x)) = 1
    BY <1>3 DEF OneText
  <2>2. IsFiniteSet(TextsAt(G, x))
    BY <1>4, TextsFinite
  <2>3. \E t : TextsAt(G, x) = {t}
    BY <2>1, <2>2, FS_Singleton
  <2> QED
    BY <2>3
<1>6. \A x : x \in RightHeld(s) <=> x \in XsHeld(s) /\ Right \in TextsAt(G, x)
  BY <1>3 DEF RightHeld
<1>7. \A x : x \in RightXs(G) <=> x \in OneText(s) /\ TextsAt(G, x) = {Right}
  BY <1>3 DEF RightXs
<1>8. OneText(s) \subseteq XsHeld(s)
  BY DEF OneText
<1>9. RightXs(G) = OneText(s) \cap RightHeld(s)
  BY <1>5, <1>6, <1>7, <1>8
<1> QED
  BY <1>1, <1>2, <1>9

(* What may become of a set, by how many x have one text.                  *)
Comes(s) == IF s \in Descriptors THEN "ok" ELSE "content"
LEMMA FittingIs ==
  ASSUME NEW s
  PROVE  /\ Cardinality(OneText(s)) >= K =>
               Fitting(s) =
                  IF {x \in OneText(s) : Cardinality({y \in OneText(s) : y < x}) < K}
                        \subseteq RightHeld(s)
                  THEN {Comes(s)}
                  ELSE {IF Cardinality(OneText(s) \cap RightHeld(s)) >= K THEN Comes(s) ELSE "id"}
                          \cup (IF MayStop THEN {"stopped"} ELSE {})
         /\ ~ (Cardinality(OneText(s)) >= K) =>
               IF Cardinality(RightHeld(s)) >= K /\ NumberOfChoices(s) <= MaxChoices
               THEN Comes(s) \in Fitting(s) /\ (MayStop => "too few" \in Fitting(s))
               ELSE "too few" \in Fitting(s)
BY DEF Fitting, Comes

(* The whole set, once it is opened, comes out as the shares held allow.   *)
LEMMA WholeFits ==
  ASSUME IInv, pc # "group", NEW g \in DOMAIN groups, NEW how \in Solves(GroupOf(groups[g]))
  PROVE  /\ how = "too few" <=> Cardinality(OneText(KeyOf(g))) < K
         /\ how # "too few" =>
               (IF how = "ok" THEN Content(groups[g]) ELSE how) \in Fitting(KeyOf(g))
<1>1. PICK G : G = GroupOf(groups[g])
  OBVIOUS
<1>2. PICK s : s = KeyOf(g)
  OBVIOUS
<1>3. OneText(s) = Undisputed(G) /\ RightXs(G) = OneText(s) \cap RightHeld(s)
  BY <1>1, <1>2, GroupOneText, OneTextRight
<1>4. Cardinality(OneText(s)) \in Nat
  <2>1. G \in Seq(Shares)
    BY <1>1, GroupsJoin, GroupOfTyped DEF IInv
  <2>2. IsFiniteSet(Undisputed(G))
    BY <2>1, XsFinite
  <2> QED
    BY <1>3, <2>2, FS_CardinalityType
<1>5. Content(groups[g]) = Comes(s)
  <2>1. Head(groups[g]) = groups[g][1]
    BY GroupsJoin DEF IInv
  <2> QED
    BY <1>2, <2>1 DEF Content, Comes, KeyOf
<1>6. FirstXs(G) = {x \in OneText(s) : Cardinality({y \in OneText(s) : y < x}) < K}
  BY <1>3 DEF FirstXs
<1>7. FirstXs(G) \subseteq OneText(s)
  BY <1>3 DEF FirstXs
<1>8. FirstXs(G) \subseteq RightXs(G) <=> FirstXs(G) \subseteq RightHeld(s)
  BY <1>3, <1>7
<1>9. how \in Solves(G)
  BY <1>1
<1>10. CASE Cardinality(OneText(s)) < K
  <2>1. how = "too few"
    BY <1>3, <1>9, <1>10 DEF Solves
  <2> QED
    BY <1>2, <1>10, <2>1
<1>11. CASE ~ (Cardinality(OneText(s)) < K)
  <2>1. how \in IF FirstXs(G) \subseteq RightXs(G) THEN {"ok"}
                ELSE {IF Cardinality(RightXs(G)) >= K THEN "ok" ELSE "id"}
                        \cup (IF MayStop THEN {"stopped"} ELSE {})
    BY <1>3, <1>9, <1>11 DEF Solves
  <2>2. Cardinality(OneText(s)) >= K
    BY <1>4, <1>11, KAssumption
  <2>3. Fitting(s) =
           IF FirstXs(G) \subseteq RightXs(G) THEN {Comes(s)}
           ELSE {IF Cardinality(RightXs(G)) >= K THEN Comes(s) ELSE "id"}
                   \cup (IF MayStop THEN {"stopped"} ELSE {})
    BY <1>3, <1>6, <1>8, <2>2, FittingIs
  <2>4. how \in {"ok", "id", "stopped"}
    BY <2>1
  <2>5. (IF how = "ok" THEN Comes(s) ELSE how) \in Fitting(s)
    BY <2>1, <2>3
  <2> QED
    BY <1>2, <1>5, <1>11, <2>4, <2>5
<1> QED
  BY <1>10, <1>11

(* Where the choices are not even tried, too few x are held, or none of    *)
(* them is disputed.                                                       *)
LEMMA NoChoices ==
  ASSUME IInv, pc # "group", NEW g \in DOMAIN groups, Cardinality(OneText(KeyOf(g))) < K,
         ~ (Cardinality(XsOf(GroupOf(groups[g]))) >= K /\ Disputed(GroupOf(groups[g])) # {})
  PROVE  "too few" \in Fitting(KeyOf(g))
<1>1. PICK G : G = GroupOf(groups[g])
  OBVIOUS
<1>2. PICK s : s = KeyOf(g)
  OBVIOUS
<1>3. OneText(s) = Undisputed(G) /\ XsHeld(s) = XsOf(G)
  BY <1>1, <1>2, GroupHolds, GroupOneText
<1>4. IsFiniteSet(XsHeld(s)) /\ Cardinality(XsHeld(s)) \in Nat
  <2>1. G \in Seq(Shares)
    BY <1>1, GroupsJoin, GroupOfTyped DEF IInv
  <2> QED
    BY <1>3, <2>1, XsFinite
<1>5. Cardinality(XsHeld(s)) < K
  <2>1. CASE Disputed(G) = {}
    <3>1. OneText(s) = XsHeld(s)
      BY <1>3, <2>1 DEF Undisputed
    <3> QED
      BY <1>2, <3>1
  <2>2. CASE ~ (Cardinality(XsOf(G)) >= K)
    BY <1>3, <1>4, <2>2, KAssumption
  <2> QED
    BY <1>1, <2>1, <2>2
<1>6. ~ (Cardinality(RightHeld(s)) >= K)
  <2>1. RightHeld(s) \subseteq XsHeld(s)
    BY DEF RightHeld
  <2>2. Cardinality(RightHeld(s)) <= Cardinality(XsHeld(s)) /\ IsFiniteSet(RightHeld(s))
    BY <1>4, <2>1, FS_Subset
  <2>3. Cardinality(RightHeld(s)) \in Nat
    BY <2>2, FS_CardinalityType
  <2> QED
    BY <1>4, <1>5, <2>2, <2>3, KAssumption
<1>7. ~ (Cardinality(OneText(s)) >= K)
  <2>1. OneText(s) \subseteq XsHeld(s)
    BY DEF OneText
  <2>2. IsFiniteSet(OneText(s))
    BY <1>4, <2>1, FS_Subset
  <2>3. Cardinality(OneText(s)) \in Nat
    BY <2>2, FS_CardinalityType
  <2> QED
    BY <1>2, <2>3, KAssumption
<1> QED
  BY <1>2, <1>6, <1>7, FittingIs

(* What the shares held of a set are does not change while the input does  *)
(* not.                                                                    *)
LEMMA HeldStays ==
  ASSUME UNCHANGED input, NEW s
  PROVE  /\ Fitting(s)' = Fitting(s) /\ OneText(s)' = OneText(s)
         /\ RightHeld(s)' = RightHeld(s) /\ NumberOfChoices(s)' = NumberOfChoices(s)
<1>1. Held(s)' = Held(s)
  BY DEF Held
<1>2. XsHeld(s)' = XsHeld(s) /\ \A x : TextsHeld(s, x)' = TextsHeld(s, x)
  BY <1>1 DEF XsHeld, TextsHeld
<1>3. OneText(s)' = OneText(s) /\ RightHeld(s)' = RightHeld(s)
  BY <1>2 DEF OneText, RightHeld
<1>4. NumberOfChoices(s)' = NumberOfChoices(s)
  BY <1>1 DEF NumberOfChoices, OneText, XsHeld, TextsHeld, Held
<1>5. Fitting(s)' = Fitting(s)
  BY <1>3, <1>4 DEF Fitting
<1> QED
  BY <1>3, <1>4, <1>5

LEMMA StandingNext ==
  ASSUME UNCHANGED <<input, groups>>,
         \A s \in Sets :
            /\ \A n \in DOMAIN results' : KeyOf(results'[n].set) = s => results'[n].err \in Fitting(s)
            /\ \A g \in DOMAIN groups :
                  /\ KeyOf(g) = s /\ g < j'
                  /\ \A n \in DOMAIN results' : results'[n].set # g
                  => "too few" \in Fitting(s)
            /\ pc' = "report" /\ KeyOf(j') = s => opened'.err \in Fitting(s)
            /\ pc' = "choose" /\ KeyOf(j') = s => Choosing(s)'
  PROVE  Standing'
<1>1. \A s : Fitting(s)' = Fitting(s)
  BY HeldStays
<1>2. \A g : groups'[g] = groups[g] /\ input' = input
  OBVIOUS
<1> QED
  BY <1>1, <1>2 DEF Standing, KeyOf, At

LEMMA ChoosingNext ==
  ASSUME UNCHANGED input, NEW s,
         Cardinality(OneText(s)) < K,
         \A c \in ToSet(todo') : Cardinality(Undisputed(GroupOf(c))) >= K,
         todo' # <<>> => NumberOfChoices(s) <= MaxChoices,
         \/ MayStop
         \/ Cardinality(RightHeld(s)) < K
         \/ NumberOfChoices(s) > MaxChoices
         \/ \E c \in ToSet(todo') : Cardinality(RightXs(GroupOf(c))) >= K
  PROVE  Choosing(s)'
<1>1. \A c : GroupOf(c)' = GroupOf(c)
  BY InputStays
<1> QED
  BY <1>1, HeldStays DEF Choosing

LEMMA HeldNumbers ==
  ASSUME IInv, pc # "group", NEW g \in DOMAIN groups
  PROVE  /\ Cardinality(OneText(KeyOf(g))) \in Nat /\ Cardinality(RightHeld(KeyOf(g))) \in Nat
         /\ NumberOfChoices(KeyOf(g)) \in Nat
<1>1. GroupOf(groups[g]) \in Seq(Shares)
  BY GroupsJoin, GroupOfTyped DEF IInv
<1>2. IsFiniteSet(XsHeld(KeyOf(g)))
  BY <1>1, GroupHolds, XsFinite
<1>3. IsFiniteSet(OneText(KeyOf(g))) /\ IsFiniteSet(RightHeld(KeyOf(g)))
  BY <1>2, FS_Subset DEF OneText, RightHeld
<1> QED
  BY <1>3, FS_CardinalityType, ChoicesComplete

(* The choices of a set whose whole did not hold K x with one text.        *)
LEMMA ChoicesStand ==
  ASSUME IInv, pc # "group", NEW g \in DOMAIN groups,
         Cardinality(XsOf(GroupOf(groups[g]))) >= K
  PROVE  /\ \A c \in ToSet(ChoiceSeq(groups[g])) : Cardinality(Undisputed(GroupOf(c))) >= K
         /\ ChoiceSeq(groups[g]) # <<>> => NumberOfChoices(KeyOf(g)) <= MaxChoices
         /\ \/ Cardinality(RightHeld(KeyOf(g))) < K
            \/ NumberOfChoices(KeyOf(g)) > MaxChoices
            \/ \E c \in ToSet(ChoiceSeq(groups[g])) : Cardinality(RightXs(GroupOf(c))) >= K
<1>1. PICK C : C = ChoiceSeq(groups[g])
  OBVIOUS
<1>2. /\ \A c \in ToSet(C) : OneEach(c, groups[g], XsOf(GroupOf(groups[g])))
      /\ C # <<>> => NumberOfChoices(KeyOf(g)) <= MaxChoices
      /\ NumberOfChoices(KeyOf(g)) <= MaxChoices => \E c \in ToSet(C) : RightIfAny(c, groups[g])
  BY <1>1, ChoicesComplete
<1>3. ASSUME NEW c \in ToSet(C) PROVE Cardinality(Undisputed(GroupOf(c))) >= K
  <2>1. Undisputed(GroupOf(c)) = XsHeld(KeyOf(g))
    BY <1>2, <1>3, ChoiceSolvable
  <2> QED
    BY <2>1, GroupHolds
<1>4. ASSUME ~ (Cardinality(RightHeld(KeyOf(g))) < K), ~ (NumberOfChoices(KeyOf(g)) > MaxChoices)
      PROVE  \E c \in ToSet(C) : Cardinality(RightXs(GroupOf(c))) >= K
  <2>1. /\ Cardinality(RightHeld(KeyOf(g))) \in Nat /\ NumberOfChoices(KeyOf(g)) \in Nat
    BY HeldNumbers
  <2>2. NumberOfChoices(KeyOf(g)) <= MaxChoices
    BY <1>4, <2>1, MaxChoicesAssumption
  <2>3. PICK c \in ToSet(C) : RightIfAny(c, groups[g])
    BY <1>2, <2>2
  <2>4. RightHeld(KeyOf(g)) \subseteq RightXs(GroupOf(c))
    BY <1>2, <2>3, ChoiceSolvable
  <2>5. c \in Seq(DOMAIN input) /\ From(c, groups[g])
    <3>1. groups[g] \in Seq(DOMAIN input) /\ \A p \in ToSet(groups[g]) : Joins(p)
      BY GroupsJoin DEF IInv
    <3>2. InOrder(groups[g]) \in Seq(Nat)
      BY <3>1, InOrderTyped DEF IInv, Types
    <3>3. From(c, groups[g])
      BY <1>1, <3>1, <3>2, ChoicesFrom
    <3>4. c \in Seq(DOMAIN input)
      BY <1>2 DEF OneEach
    <3> QED
      BY <3>3, <3>4
  <2>6. IsFiniteSet(RightXs(GroupOf(c))) /\ Cardinality(RightXs(GroupOf(c))) \in Nat
    BY <2>5, RightAmongHeld
  <2>7. Cardinality(RightHeld(KeyOf(g))) <= Cardinality(RightXs(GroupOf(c)))
    BY <2>4, <2>6, FS_Subset
  <2>8. Cardinality(RightXs(GroupOf(c))) >= K
    BY <1>4, <2>1, <2>6, <2>7, KAssumption
  <2> QED
    BY <2>8
<1> QED
  BY <1>1, <1>2, <1>3, <1>4

LEMMA InitStanding == Init => Standing
BY DEF Init, Standing

(* A step that opens or tries, and leaves the results as they are.         *)
LEMMA StandingOpens ==
  ASSUME Standing, pc # "group", UNCHANGED <<input, groups, j, results>>,
         \A s \in Sets : KeyOf(j) = s =>
            /\ pc' = "report" => opened'.err \in Fitting(s)
            /\ pc' = "choose" => Choosing(s)'
  PROVE  Standing'
<1>1. \A s \in Sets :
         /\ \A n \in DOMAIN results' : KeyOf(results'[n].set) = s => results'[n].err \in Fitting(s)
         /\ \A g \in DOMAIN groups :
               /\ KeyOf(g) = s /\ g < j'
               /\ \A n \in DOMAIN results' : results'[n].set # g
               => "too few" \in Fitting(s)
  BY DEF Standing
<1>2. KeyOf(j') = KeyOf(j)
  OBVIOUS
<1> QED
  BY <1>1, <1>2, StandingNext

(* The places up to the next one.                                          *)
LEMMA NextPlace ==
  ASSUME NEW l \in Nat
  PROVE  /\ \A n \in Nat : n < l + 1 => n < l \/ n = l
         /\ \A n \in 1 .. l : n \in Nat /\ n \in 1 .. l + 1
         /\ \A n \in 1 .. l + 1 : n \in 1 .. l \/ n = l + 1
         /\ l + 1 \in 1 .. l + 1
OBVIOUS

(* A report settles its set as it was opened.                              *)
LEMMA StandingReports ==
  ASSUME IInv, Standing, pc = "report", Proceed,
         \/ UNCHANGED results /\ opened.err = "too few"
         \/ \E err \in Errors : Adds(err) /\ err = opened.err
  PROVE  Standing'
<1>1. /\ UNCHANGED <<input, groups>> /\ j' = j + 1 /\ pc' = "open"
      /\ Types /\ j \in DOMAIN groups
  BY DEF Proceed, IInv, Opening
<1>2. /\ \A s \in Sets : \A n \in DOMAIN results :
            KeyOf(results[n].set) = s => results[n].err \in Fitting(s)
      /\ \A s \in Sets : \A g \in DOMAIN groups :
            /\ KeyOf(g) = s /\ g < j
            /\ \A n \in DOMAIN results : results[n].set # g
            => "too few" \in Fitting(s)
      /\ \A s \in Sets : KeyOf(j) = s => opened.err \in Fitting(s)
  BY DEF Standing
<1>3. \A g \in DOMAIN groups : g < j + 1 => g < j \/ g = j
  <2>1. groups \in Seq(Seq(DOMAIN input))
    BY <1>1 DEF Types
  <2>2. DOMAIN groups = 1 .. Len(groups) /\ Len(groups) \in Nat
    BY <2>1, SeqHas
  <2>3. \A g \in DOMAIN groups : g \in Nat
    BY <2>2, NextPlace, Zenon
  <2> QED
    BY <1>1, <2>3, NextPlace, Zenon
<1>4. CASE UNCHANGED results /\ opened.err = "too few"
  BY <1>1, <1>2, <1>3, <1>4, StandingNext
<1>5. ASSUME NEW err \in Errors, Adds(err), err = opened.err
      PROVE  Standing'
  <2>1. PICK e : e = [set |-> j, err |-> err, solving |-> opened.solving]
    OBVIOUS
  <2>2. PICK l : l = Len(results)
    OBVIOUS
  <2>3. opened.solving \in Seq(DOMAIN input)
    BY <1>1 DEF Types
  <2>4. /\ DOMAIN results' = 1 .. l + 1 /\ DOMAIN results = 1 .. l /\ l \in Nat
        /\ \A r \in DOMAIN results : results'[r] = results[r]
        /\ results'[l + 1] = e
    BY <1>1, <1>5, <2>1, <2>2, <2>3, ResultAdded DEF Adds
  <2>5. e.set = j /\ e.err = err
    BY <2>1
  <2>6. /\ \A n \in DOMAIN results' : n \in DOMAIN results \/ n = l + 1
        /\ \A n \in DOMAIN results : n \in DOMAIN results'
        /\ l + 1 \in DOMAIN results'
    BY <2>4, NextPlace, Zenon
  <2>7. \A s \in Sets : \A n \in DOMAIN results' :
           KeyOf(results'[n].set) = s => results'[n].err \in Fitting(s)
    BY <1>2, <1>5, <2>4, <2>5, <2>6
  <2>8. ASSUME NEW s \in Sets, NEW g \in DOMAIN groups, KeyOf(g) = s, g < j + 1,
               \A n \in DOMAIN results' : results'[n].set # g
        PROVE  "too few" \in Fitting(s)
    <3>1. g # j
      BY <2>4, <2>5, <2>6, <2>8
    <3>2. \A n \in DOMAIN results : results[n].set # g
      BY <2>4, <2>6, <2>8
    <3> QED
      BY <1>2, <1>3, <2>8, <3>1, <3>2
  <2> QED
    BY <1>1, <2>7, <2>8, StandingNext
<1> QED
  BY <1>4, <1>5

(* A set that was opened at once, or is left to its choices.               *)
LEMMA StandingOpenSet ==
  ASSUME IInv, Standing, OpenSet
  PROVE  Standing'
<1>1. /\ pc # "group" /\ j \in DOMAIN groups
      /\ UNCHANGED <<input, groups, j, results>>
  <2>1. groups \in Seq(Seq(DOMAIN input)) /\ j \in 1 .. Len(groups) + 1
    BY DEF IInv, Types, TypeOK
  <2>2. DOMAIN groups = 1 .. Len(groups) /\ Len(groups) \in Nat
    BY <2>1, SeqHas
  <2>3. j <= Len(groups)
    BY DEF OpenSet
  <2>4. j \in 1 .. Len(groups)
    BY <2>1, <2>2, <2>3
  <2> QED
    BY <2>2, <2>4 DEF OpenSet
<1> DEFINE G == GroupOf(groups[j])
           Try == Cardinality(XsOf(G)) >= K /\ Disputed(G) # {}
<1>2. PICK how \in Solves(G) :
         /\ opened' = [err |-> IF how = "ok" THEN Content(groups[j]) ELSE how,
                       solving |-> groups[j]]
         /\ IF how = "too few" /\ Try THEN pc' = "choose" /\ todo' = ChoiceSeq(groups[j])
            ELSE pc' = "report" /\ todo' = <<>>
  BY DEF OpenSet
<1>3. /\ how = "too few" <=> Cardinality(OneText(KeyOf(j))) < K
      /\ how # "too few" =>
            (IF how = "ok" THEN Content(groups[j]) ELSE how) \in Fitting(KeyOf(j))
  BY <1>1, <1>2, WholeFits
<1>4. opened'.err = IF how = "ok" THEN Content(groups[j]) ELSE how
  BY <1>2
<1>5. ASSUME NEW s \in Sets, KeyOf(j) = s, pc' = "report" PROVE opened'.err \in Fitting(s)
  <2>1. CASE how = "too few"
    <3>1. ~ Try
      BY <1>2, <1>5, <2>1
    <3>2. "too few" \in Fitting(KeyOf(j))
      BY <1>1, <1>3, <2>1, <3>1, NoChoices
    <3>3. opened'.err = "too few"
      BY <1>4, <2>1
    <3> QED
      BY <1>5, <3>2, <3>3
  <2>2. CASE how # "too few"
    BY <1>3, <1>4, <1>5, <2>2
  <2> QED
    BY <2>1, <2>2
<1>6. ASSUME NEW s \in Sets, KeyOf(j) = s, pc' = "choose" PROVE Choosing(s)'
  <2>1. how = "too few" /\ Try /\ todo' = ChoiceSeq(groups[j])
    BY <1>2, <1>6
  <2>2. Cardinality(OneText(s)) < K
    BY <1>3, <1>6, <2>1
  <2>3. /\ \A c \in ToSet(todo') : Cardinality(Undisputed(GroupOf(c))) >= K
        /\ todo' # <<>> => NumberOfChoices(s) <= MaxChoices
        /\ \/ Cardinality(RightHeld(s)) < K
           \/ NumberOfChoices(s) > MaxChoices
           \/ \E c \in ToSet(todo') : Cardinality(RightXs(GroupOf(c))) >= K
    BY <1>1, <1>6, <2>1, ChoicesStand
  <2> QED
    BY <1>1, <2>2, <2>3, ChoosingNext
<1> QED
  BY <1>1, <1>5, <1>6, StandingOpens

(* The elements of a sequence are its head and those of its tail.          *)
LEMMA HeadOrTail ==
  ASSUME NEW T, NEW s \in Seq(T), s # <<>>
  PROVE  /\ Head(s) \in ToSet(s) /\ Head(s) \in T
         /\ \A e \in ToSet(Tail(s)) : e \in ToSet(s)
         /\ \A e \in ToSet(s) : e = Head(s) \/ e \in ToSet(Tail(s))
<1>1. /\ Len(s) \in Nat /\ Len(s) >= 1 /\ DOMAIN s = 1 .. Len(s)
      /\ Head(s) = s[1] /\ \A n \in DOMAIN s : s[n] \in T
  OBVIOUS
<1>2. /\ DOMAIN Tail(s) = 1 .. Len(s) - 1
      /\ \A n \in 1 .. Len(s) - 1 : Tail(s)[n] = s[n + 1] /\ n + 1 \in DOMAIN s
  BY <1>1
<1>3. ASSUME NEW n \in DOMAIN s, n # 1 PROVE \E m \in DOMAIN Tail(s) : Tail(s)[m] = s[n]
  <2>1. n - 1 \in 1 .. Len(s) - 1 /\ (n - 1) + 1 = n
    BY <1>1, <1>3
  <2> QED
    BY <1>2, <2>1
<1>4. 1 \in DOMAIN s
  BY <1>1
<1> QED
  BY <1>1, <1>2, <1>3, <1>4 DEF ToSet

(* The choices are tried until one comes out, and each that does not is no *)
(* loss.                                                                   *)
LEMMA StandingTries ==
  ASSUME IInv, Standing, TryChoice
  PROVE  Standing'
<1>1. /\ pc = "choose" /\ todo # <<>> /\ todo' = Tail(todo)
      /\ UNCHANGED <<input, groups, j, results>>
      /\ todo \in Seq(Seq(DOMAIN input)) /\ j \in DOMAIN groups
      /\ Types /\ Grouped
  BY DEF TryChoice, IInv, Types, Opening
<1>2. PICK c : c = Head(todo)
  OBVIOUS
<1>3. /\ c \in ToSet(todo) /\ c \in Seq(DOMAIN input)
      /\ \A e \in ToSet(todo') : e \in ToSet(todo)
      /\ \A e \in ToSet(todo) : e = c \/ e \in ToSet(todo')
  BY <1>1, <1>2, HeadOrTail
<1>4. From(c, groups[j])
  BY <1>1, <1>3 DEF IInv, Opening
<1>5. PICK how \in Solves(GroupOf(c)) :
         IF how \in {"id", "stopped"} THEN UNCHANGED <<pc, opened>>
         ELSE /\ pc' = "report"
              /\ opened' = [err |-> IF how = "ok" THEN Content(c) ELSE how, solving |-> c]
  BY <1>2 DEF TryChoice
<1>6. ASSUME NEW s \in Sets, KeyOf(j) = s
      PROVE  /\ Cardinality(OneText(s)) < K
             /\ \A e \in ToSet(todo) : Cardinality(Undisputed(GroupOf(e))) >= K
             /\ NumberOfChoices(s) <= MaxChoices
             /\ \/ MayStop
                \/ Cardinality(RightHeld(s)) < K
                \/ NumberOfChoices(s) > MaxChoices
                \/ \E e \in ToSet(todo) : Cardinality(RightXs(GroupOf(e))) >= K
  BY <1>1, <1>6 DEF Standing, Choosing
<1>7. GroupOf(c) \in Seq(Shares)
  BY <1>1, <1>3, <1>4, FromGroup
<1>8. ASSUME Cardinality(Undisputed(GroupOf(c))) >= K PROVE how # "too few"
  <2>1. Cardinality(Undisputed(GroupOf(c))) \in Nat
    BY <1>7, XsFinite, FS_CardinalityType
  <2>2. ~ (Cardinality(Undisputed(GroupOf(c))) < K)
    BY <1>8, <2>1, KAssumption
  <2> QED
    BY <1>5, <2>2 DEF Solves
<1>9. ASSUME NEW s \in Sets, KeyOf(j) = s, pc' = "report" PROVE opened'.err \in Fitting(s)
  <2>1. how # "too few"
    BY <1>3, <1>6, <1>8, <1>9
  <2>2. how \notin {"id", "stopped"}
    BY <1>1, <1>5, <1>9
  <2>3. how = "ok"
    BY <1>5, <2>1, <2>2 DEF Solves
  <2>4. Cardinality(RightXs(GroupOf(c))) >= K
    BY <1>5, <1>7, <2>3, SolvesFromRight
  <2>5. /\ Cardinality(RightXs(GroupOf(c))) <= Cardinality(RightHeld(s))
        /\ Cardinality(RightXs(GroupOf(c))) \in Nat /\ Cardinality(RightHeld(s)) \in Nat
    BY <1>1, <1>3, <1>4, <1>9, RightAmongHeld
  <2>6. Cardinality(RightHeld(s)) >= K
    BY <2>4, <2>5, KAssumption
  <2>7. ~ (Cardinality(OneText(s)) >= K) /\ NumberOfChoices(s) <= MaxChoices
    <3>1. Cardinality(OneText(s)) \in Nat
      BY <1>1, <1>9, HeldNumbers
    <3> QED
      BY <1>6, <1>9, <3>1, KAssumption
  <2>8. Comes(s) \in Fitting(s)
    BY <2>6, <2>7, FittingIs
  <2>9. Content(c) = Comes(s)
    <3>1. c # <<>>
      <4>1. GroupOf(c) # <<>> /\ Len(GroupOf(c)) = Len(c)
        BY <1>1, <1>3, <1>4, <1>7, <2>4, FromGroup, SolvingThere
      <4> QED
        BY <1>3, <1>7, <4>1
    <3>2. Head(c) \in ToSet(c)
      BY <1>3, <3>1, HeadOrTail
    <3>3. At(Head(c)).set = s
      BY <1>1, <1>3, <1>4, <1>9, <3>2, FromGroup
    <3> QED
      BY <3>3 DEF Content, Comes
  <2>10. opened'.err = Content(c)
    BY <1>5, <2>3
  <2> QED
    BY <2>8, <2>9, <2>10
<1>10. ASSUME NEW s \in Sets, KeyOf(j) = s, pc' = "choose" PROVE Choosing(s)'
  <2>1. how \in {"id", "stopped"}
    BY <1>5, <1>10
  <2>2. ASSUME ~ MayStop PROVE ~ (Cardinality(RightXs(GroupOf(c))) >= K)
    <3>1. Solves(GroupOf(c)) \subseteq
             IF Cardinality(RightXs(GroupOf(c))) >= K THEN {"too few", "ok"} ELSE {"too few", "ok", "id"}
      BY <2>2 DEF Solves
    <3> QED
      BY <1>3, <1>5, <1>6, <1>8, <1>10, <2>1, <3>1
  <2>3. \/ MayStop
        \/ Cardinality(RightHeld(s)) < K
        \/ NumberOfChoices(s) > MaxChoices
        \/ \E e \in ToSet(todo') : Cardinality(RightXs(GroupOf(e))) >= K
    BY <1>3, <1>6, <1>10, <2>2
  <2>4. /\ Cardinality(OneText(s)) < K /\ NumberOfChoices(s) <= MaxChoices
        /\ \A e \in ToSet(todo') : Cardinality(Undisputed(GroupOf(e))) >= K
    BY <1>3, <1>6, <1>10
  <2> QED
    BY <1>1, <2>3, <2>4, ChoosingNext
<1> QED
  BY <1>1, <1>9, <1>10, StandingOpens

(* Where no choice came out, too few shares of the set were right, or the  *)
(* choices were too many, or a search was stopped.                         *)
LEMMA StandingGivesUp ==
  ASSUME IInv, Standing, NoChoiceFits
  PROVE  Standing'
<1>1. /\ pc = "choose" /\ todo = <<>> /\ pc' = "report"
      /\ UNCHANGED <<input, groups, j, results, opened>>
      /\ j \in DOMAIN groups /\ opened.err = "too few"
  BY DEF NoChoiceFits, IInv, Opening
<1>2. ASSUME NEW s \in Sets, KeyOf(j) = s PROVE "too few" \in Fitting(s)
  <2>1. ToSet(todo) = {}
    <3>1. \A n \in DOMAIN todo : FALSE
      <4>1. DOMAIN todo = 1 .. Len(todo)
        <5>1. todo \in Seq(Seq(DOMAIN input))
          BY DEF IInv, Types
        <5> QED
          BY <5>1, SeqHas
      <4>2. Len(todo) = 0
        <5>1. Len(<<>>) = 0
          OBVIOUS
        <5> QED
          BY <1>1, <5>1, Zenon
      <4> QED
        BY <4>1, <4>2
    <3> QED
      BY <3>1 DEF ToSet
  <2>2. /\ Cardinality(OneText(s)) < K
        /\ MayStop \/ Cardinality(RightHeld(s)) < K \/ NumberOfChoices(s) > MaxChoices
    BY <1>1, <1>2, <2>1 DEF Standing, Choosing
  <2>3. /\ Cardinality(OneText(s)) \in Nat /\ Cardinality(RightHeld(s)) \in Nat
        /\ NumberOfChoices(s) \in Nat
    BY <1>1, <1>2, HeldNumbers
  <2>4. ~ (Cardinality(OneText(s)) >= K)
    BY <2>2, <2>3, KAssumption
  <2>5. \/ MayStop
        \/ ~ (Cardinality(RightHeld(s)) >= K /\ NumberOfChoices(s) <= MaxChoices)
    BY <2>2, <2>3, KAssumption, MaxChoicesAssumption
  <2> QED
    BY <2>4, <2>5, FittingIs
<1> QED
  BY <1>1, <1>2, StandingOpens

LEMMA StandingStep ==
  ASSUME IInv, Standing, [Next]_vars
  PROVE  Standing'
<1>1. CASE pc' = "group"
  BY <1>1 DEF Standing
<1>2. CASE NothingFound \/ MarkDisputed
  <2>1. pc = "group" /\ pc' \in {"open", "exited"} /\ UNCHANGED <<input, groups, j, results>>
    BY <1>2 DEF NothingFound, MarkDisputed, Exits
  <2>2. j' = 1 /\ results' = <<>>
    BY <2>1 DEF IInv, LeftOut
  <2>3. DOMAIN results' = {}
    BY <2>2
  <2>4. \A g \in DOMAIN groups : ~ (g < 1)
    <3>1. groups \in Seq(Seq(DOMAIN input))
      BY DEF IInv, Types
    <3> QED
      BY <3>1
  <2> QED
    BY <2>1, <2>2, <2>3, <2>4, StandingNext
<1>3. CASE SkipUndecoded \/ RejectFaulty \/ JoinGroup
  <2>1. pc' = "group"
    BY <1>3 DEF SkipUndecoded, RejectFaulty, JoinGroup
  <2> QED
    BY <1>1, <2>1
<1>4. CASE OpenSet
  BY <1>4, StandingOpenSet
<1>5. CASE TryChoice
  BY <1>5, StandingTries
<1>6. CASE NoChoiceFits
  BY <1>6, StandingGivesUp
<1>7. CASE ReportTooFew
  BY <1>7, StandingReports DEF ReportTooFew
<1>8. CASE ReportFailure
  <2>1. opened.err \in Errors /\ Adds(opened.err) /\ pc = "report" /\ Proceed
    BY <1>8 DEF ReportFailure, Errors, Adds
  <2> QED
    BY <2>1, StandingReports
<1>9. CASE ReportResult
  <2>1. "ok" \in Errors /\ Adds("ok") /\ opened.err = "ok" /\ pc = "report" /\ Proceed
    BY <1>9 DEF ReportResult, Errors, Adds
  <2> QED
    BY <2>1, StandingReports
<1>10. CASE FinishRecover \/ RefuseReplace \/ Replace
  <2>1. pc = "open" /\ pc' = "exited" /\ UNCHANGED <<input, groups, j, results>>
    BY <1>10 DEF FinishRecover, RefuseReplace, Replace, AllOpened, Exits
  <2> QED
    BY <2>1, StandingOpens
<1>11. CASE UNCHANGED vars
  <2>1. UNCHANGED <<pc, input, groups, j, results, opened, todo>>
    BY <1>11 DEF vars
  <2>2. CASE pc = "group"
    BY <1>1, <2>1, <2>2
  <2>3. CASE pc # "group"
    <3>1. ASSUME NEW s \in Sets, KeyOf(j) = s
          PROVE  /\ pc' = "report" => opened'.err \in Fitting(s)
                 /\ pc' = "choose" => Choosing(s)'
      <4>1. pc = "report" => opened.err \in Fitting(s)
        BY <2>3, <3>1 DEF Standing
      <4>2. pc = "choose" => Choosing(s)
        BY <2>3, <3>1 DEF Standing
      <4>3. Choosing(s) => Choosing(s)'
        BY <2>1, ChoosingNext DEF Choosing
      <4> QED
        BY <2>1, <4>1, <4>2, <4>3
    <3> QED
      BY <2>1, <2>3, <3>1, StandingOpens
  <2> QED
    BY <2>2, <2>3
<1> QED
  BY <1>2, <1>3, <1>4, <1>5, <1>6, <1>7, <1>8, <1>9, <1>10, <1>11 DEF Next

(* What becomes of a set follows from the shares held of it alone: the     *)
(* order of the input, copies, the plates of other sets and text that does *)
(* not decode change nothing, whatever is done between reading and the end.*)
THEOREM SetsAlone == Spec => []SetsStandAlone
<1>1. IInv /\ Standing /\ [Next]_vars => Standing'
  BY StandingStep
<1>2. Spec => []Standing
  BY <1>1, InitStanding, Invariant, PTL DEF Spec
<1>3. ASSUME IInv, Standing, pc = "exited", NEW s \in Given
      PROVE  Verdict(s) \in Fitting(s)
  <2>1. PICK g \in DOMAIN groups : KeyOf(g) = s
    BY <1>3, GivenGrouped
  <2>2. /\ \A n \in DOMAIN results : results[n].set = g => Verdict(s) = results[n].err
        /\ (\A n \in DOMAIN results : results[n].set # g) => Verdict(s) = "too few"
    BY <1>3, <2>1, VerdictIs
  <2>3. s \in Sets
    BY DEF Given
  <2>4. CASE \E n \in DOMAIN results : results[n].set = g
    <3>1. PICK n \in DOMAIN results : results[n].set = g
      BY <2>4
    <3>2. results[n].err \in Fitting(s)
      BY <1>3, <2>1, <2>3, <3>1 DEF Standing
    <3> QED
      BY <2>2, <3>1, <3>2
  <2>5. CASE \A n \in DOMAIN results : results[n].set # g
    <3>1. g < j
      <4>1. groups \in Seq(Seq(DOMAIN input)) /\ j = Len(groups) + 1
        BY <1>3 DEF IInv, Types, Ending
      <4>2. g \in 1 .. Len(groups) /\ Len(groups) \in Nat
        BY <4>1, SeqHas
      <4> QED
        BY <4>1, <4>2
    <3>2. "too few" \in Fitting(s)
      BY <1>3, <2>1, <2>3, <2>5, <3>1 DEF Standing
    <3> QED
      BY <2>2, <2>5, <3>2
  <2> QED
    BY <2>4, <2>5
<1>4. IInv /\ Standing => SetsStandAlone
  BY <1>3 DEF SetsStandAlone
<1> QED
  BY <1>2, <1>4, Invariant, PTL
=============================================================================
