-------------------------- MODULE TextForm_proofs --------------------------
(***************************************************************************)
(* Scan, for texts of any length and any MinRun: it finds the shares that  *)
(* a reader of SPEC.md meets, what it found of a share that has ended is   *)
(* never changed by what follows, and text that looks like a share is in   *)
(* one or is warned about.                                                 *)
(* All three rest on what Stop is: the next character after the prefix     *)
(* that is a prefix or other, or the end of the text.                      *)
(***************************************************************************)
EXTENDS TextForm, FiniteSetTheorems, TLAPS

(* Stop and Limit of any text t, where those of TextForm are of text.      *)
StartsIn(t) == {p \in DOMAIN t : t[p] = "prefix"}
LimitIn(t, p) == Min({q \in StartsIn(t) : q > p} \cup {Len(t) + 1})
StopIn(t, p) == Min({q \in p + 1 .. LimitIn(t, p) - 1 : t[q] = "other"} \cup {LimitIn(t, p)})
FeedsIn(t, from, to) == Cardinality({p \in from .. to : t[p] = "feed"})
Ends(t, p) == {q \in p + 1 .. Len(t) + 1 : q <= Len(t) => t[q] \in {"prefix", "other"}}
CharsIn(t, p) == {q \in p + 1 .. StopIn(t, p) - 1 : t[q] = "base32"}

(* The reader is inside a share exactly when that share goes on to the end *)
(* of the text.                                                            *)
TypeOK == text \in Seq(Characters) /\ open \in Nat
IInv ==
    /\ TypeOK
    /\ open # 0 => open \in Starts
    /\ \A p \in Starts : p = open <=> Stop(p) = Len(text) + 1
    /\ ReadsAsTyped

-----------------------------------------------------------------------------
(* Every set of numbers has a least one.                                   *)
LEMMA LeastNumber ==
  ASSUME NEW T, T \subseteq Nat, T # {}
  PROVE  Min(T) \in T /\ \A y \in T : Min(T) <= y
<1>1. PICK x \in T : \A y \in T : ~ (<<y, x>> \in OpToRel(<, Nat))
  BY WFMin, NatLessThanWellFounded
<1>2. ASSUME NEW y \in T PROVE x <= y
  <2>1. ~ (y < x)
    BY <1>1 DEF OpToRel
  <2> QED
    BY <2>1
<1> QED
  BY <1>2 DEF Min

(* A share ends at the first character that ends one.                      *)
LEMMA StopIsFirst ==
  ASSUME NEW t \in Seq(Characters), NEW p \in StartsIn(t)
  PROVE  /\ p \in 1 .. Len(t)
         /\ StopIn(t, p) \in Ends(t, p) /\ \A q \in Ends(t, p) : StopIn(t, p) <= q
         /\ LimitIn(t, p) \in p + 1 .. Len(t) + 1 /\ StopIn(t, p) <= LimitIn(t, p)
         /\ LimitIn(t, p) \in StartsIn(t) \cup {Len(t) + 1}
         /\ \A q \in StartsIn(t) : q > p => LimitIn(t, p) <= q
<1> DEFINE later == {q \in StartsIn(t) : q > p} \cup {Len(t) + 1}
           limit == LimitIn(t, p)
           others == {q \in p + 1 .. limit - 1 : t[q] = "other"} \cup {limit}
<1>1. p \in 1 .. Len(t) /\ Len(t) \in Nat /\ DOMAIN t = 1 .. Len(t)
  BY DEF StartsIn
<1>2. later \subseteq Nat /\ later # {}
  BY <1>1 DEF StartsIn
<1>3. limit \in later /\ \A q \in later : limit <= q
  BY <1>2, LeastNumber DEF LimitIn
<1>4. limit \in p + 1 .. Len(t) + 1
  BY <1>1, <1>2, <1>3
<1> HIDE DEF limit
<1>5. others \subseteq Nat /\ others # {}
  BY <1>1, <1>4
<1>6. StopIn(t, p) \in others /\ \A q \in others : StopIn(t, p) <= q
  BY <1>5, LeastNumber DEF StopIn, limit
<1>7. StopIn(t, p) \in Ends(t, p)
  BY <1>1, <1>3, <1>4, <1>6 DEF Ends, StartsIn
<1>8. ASSUME NEW q \in Ends(t, p) PROVE StopIn(t, p) <= q
  <2>1. StopIn(t, p) <= limit /\ StopIn(t, p) \in Nat /\ q \in Nat
    <3>1. limit \in others
      OBVIOUS
    <3> HIDE DEF others
    <3>2. StopIn(t, p) <= limit /\ StopIn(t, p) \in Nat
      BY <1>5, <1>6, <3>1
    <3> QED
      BY <1>1, <3>2 DEF Ends
  <2>2. CASE limit <= q
    BY <1>4, <2>1, <2>2
  <2>3. CASE ~(limit <= q)
    <3>1. q \in p + 1 .. limit - 1 /\ q <= Len(t) /\ q \in DOMAIN t
      BY <1>1, <1>4, <2>3 DEF Ends
    <3>2. t[q] # "prefix"
      BY <1>1, <1>3, <2>3, <3>1 DEF StartsIn
    <3> QED
      BY <1>6, <3>1, <3>2 DEF Ends
  <2> QED
    BY <2>2, <2>3
<1> QED
  BY <1>1, <1>3, <1>4, <1>6, <1>7, <1>8 DEF limit

(* One more character: a share that has ended keeps its end, and one that  *)
(* has not ends there or goes on.                                          *)
LEMMA StopGrows ==
  ASSUME NEW t \in Seq(Characters), NEW c \in Characters, NEW p \in StartsIn(t)
  PROVE  LET u == Append(t, c)
         IN  /\ p \in StartsIn(u)
             /\ StopIn(t, p) <= Len(t) => StopIn(u, p) = StopIn(t, p)
             /\ StopIn(t, p) = Len(t) + 1 =>
                    StopIn(u, p) = IF c \in {"prefix", "other"} THEN Len(t) + 1 ELSE Len(t) + 2
<1> DEFINE u == Append(t, c)
<1>1. /\ u \in Seq(Characters) /\ Len(u) = Len(t) + 1 /\ Len(t) \in Nat
      /\ DOMAIN t = 1 .. Len(t) /\ DOMAIN u = 1 .. Len(t) + 1
      /\ u[Len(t) + 1] = c /\ \A q \in 1 .. Len(t) : u[q] = t[q]
  OBVIOUS
<1> HIDE DEF u
<1>2. p \in StartsIn(u) /\ p \in 1 .. Len(t)
  BY <1>1 DEF StartsIn
<1>3. /\ StopIn(t, p) \in Ends(t, p) /\ \A q \in Ends(t, p) : StopIn(t, p) <= q
      /\ StopIn(u, p) \in Ends(u, p) /\ \A q \in Ends(u, p) : StopIn(u, p) <= q
  BY <1>1, <1>2, StopIsFirst
<1>4. \A q \in 1 .. Len(t) : q \in Ends(t, p) <=> q \in Ends(u, p)
  BY <1>1, <1>2 DEF Ends
<1>5. /\ Len(t) + 1 \in Ends(u, p) <=> c \in {"prefix", "other"}
      /\ Len(t) + 2 \in Ends(u, p)
  BY <1>1, <1>2 DEF Ends
<1>6. StopIn(t, p) \in 1 .. Len(t) + 1 /\ StopIn(u, p) \in 1 .. Len(t) + 2
  BY <1>1, <1>2, <1>3 DEF Ends
<1>7. ASSUME StopIn(t, p) <= Len(t) PROVE StopIn(u, p) = StopIn(t, p)
  <2>1. StopIn(u, p) <= StopIn(t, p)
    BY <1>3, <1>4, <1>6, <1>7
  <2>2. StopIn(t, p) <= StopIn(u, p)
    BY <1>1, <1>3, <1>4, <1>6, <1>7, <2>1
  <2> QED
    BY <1>6, <2>1, <2>2
<1>8. ASSUME StopIn(t, p) = Len(t) + 1
      PROVE  StopIn(u, p) = IF c \in {"prefix", "other"} THEN Len(t) + 1 ELSE Len(t) + 2
  <2>1. StopIn(u, p) \notin 1 .. Len(t)
    BY <1>1, <1>3, <1>4, <1>8
  <2>2. StopIn(u, p) \in {Len(t) + 1, Len(t) + 2}
    BY <1>1, <1>6, <2>1
  <2> QED
    BY <1>1, <1>3, <1>5, <2>2
<1> QED
  BY <1>2, <1>7, <1>8 DEF u

(* TextForm's operators are those of text, now and after a step.           *)
LEMMA OfText ==
  /\ Starts = StartsIn(text) /\ Starts' = StartsIn(text')
  /\ \A p : Limit(p) = LimitIn(text, p) /\ Limit(p)' = LimitIn(text', p)
  /\ \A p : Stop(p) = StopIn(text, p) /\ Stop(p)' = StopIn(text', p)
  /\ \A m, n : Feeds(m, n) = FeedsIn(text, m, n) /\ Feeds(m, n)' = FeedsIn(text', m, n)
  /\ \A p : Found(p).chars = CharsIn(text, p) /\ Found(p)'.chars = CharsIn(text', p)
<1>1. Starts = StartsIn(text) /\ Starts' = StartsIn(text')
  BY DEF Starts, Places, StartsIn
<1>2. ASSUME NEW p PROVE Limit(p) = LimitIn(text, p) /\ Limit(p)' = LimitIn(text', p)
  BY <1>1 DEF Limit, LimitIn
<1>3. ASSUME NEW p PROVE Stop(p) = StopIn(text, p) /\ Stop(p)' = StopIn(text', p)
  BY <1>2 DEF Stop, StopIn
<1>4. ASSUME NEW m, NEW n
      PROVE  Feeds(m, n) = FeedsIn(text, m, n) /\ Feeds(m, n)' = FeedsIn(text', m, n)
  BY DEF Feeds, FeedsIn
<1>5. ASSUME NEW p
      PROVE  Found(p).chars = CharsIn(text, p) /\ Found(p)'.chars = CharsIn(text', p)
  BY <1>3 DEF Found, CharsIn
<1> QED
  BY <1>1, <1>2, <1>3, <1>4, <1>5

(* An empty text holds no share.                                           *)
LEMMA TextInit == Init => IInv
<1> SUFFICES ASSUME Init PROVE IInv
  OBVIOUS
<1>1. Starts = {} /\ text \in Seq(Characters)
  BY DEF Init, Starts, Places
<1>2. ReadsAsTyped
  BY <1>1 DEF Init, ReadsAsTyped
<1> QED
  BY <1>1, <1>2 DEF Init, IInv, TypeOK

(* The places of the prefixes, of a text with one more character.          *)
LEMMA StartsGrow ==
  ASSUME NEW t \in Seq(Characters), NEW c \in Characters
  PROVE  StartsIn(Append(t, c)) =
            StartsIn(t) \cup (IF c = "prefix" THEN {Len(t) + 1} ELSE {})
<1> DEFINE u == Append(t, c)
<1>1. /\ DOMAIN t = 1 .. Len(t) /\ DOMAIN u = 1 .. Len(t) + 1 /\ Len(t) \in Nat
      /\ u[Len(t) + 1] = c /\ \A q \in 1 .. Len(t) : u[q] = t[q]
  OBVIOUS
<1> HIDE DEF u
<1>2. \A q : q \in 1 .. Len(t) + 1 <=> q \in 1 .. Len(t) \/ q = Len(t) + 1
  BY <1>1
<1>3. StartsIn(u) = StartsIn(t) \cup (IF c = "prefix" THEN {Len(t) + 1} ELSE {})
  BY <1>1, <1>2 DEF StartsIn
<1> QED
  BY <1>3 DEF u

(* A prefix just typed begins a share without characters.                  *)
LEMMA NewShare ==
  ASSUME NEW t \in Seq(Characters)
  PROVE  LET u == Append(t, "prefix")
         IN  StopIn(u, Len(t) + 1) = Len(t) + 2 /\ CharsIn(u, Len(t) + 1) = {}
<1> DEFINE u == Append(t, "prefix")
           p == Len(t) + 1
<1>1. u \in Seq(Characters) /\ Len(u) = Len(t) + 1 /\ Len(t) \in Nat /\ p \in StartsIn(u)
  BY DEF StartsIn, Characters
<1> HIDE DEF u
<1>2. StopIn(u, p) \in Ends(u, p)
  BY <1>1, StopIsFirst
<1>3. StopIn(u, p) = Len(t) + 2
  BY <1>1, <1>2 DEF Ends
<1>4. CharsIn(u, p) = {}
  BY <1>1, <1>3 DEF CharsIn
<1> QED
  BY <1>3, <1>4 DEF u

(* What one more character adds to a share.                                *)
LEMMA CharsGrow ==
  ASSUME NEW t \in Seq(Characters), NEW c \in Characters, NEW p \in StartsIn(t)
  PROVE  CharsIn(Append(t, c), p) =
            CharsIn(t, p) \cup (IF c = "base32" /\ StopIn(t, p) = Len(t) + 1
                                THEN {Len(t) + 1} ELSE {})
<1> DEFINE u == Append(t, c)
<1>1. /\ u \in Seq(Characters) /\ Len(u) = Len(t) + 1 /\ Len(t) \in Nat
      /\ u[Len(t) + 1] = c /\ \A q \in 1 .. Len(t) : u[q] = t[q]
  OBVIOUS
<1>2. /\ StopIn(t, p) <= Len(t) => StopIn(u, p) = StopIn(t, p)
      /\ StopIn(t, p) = Len(t) + 1 =>
             StopIn(u, p) = IF c \in {"prefix", "other"} THEN Len(t) + 1 ELSE Len(t) + 2
  BY StopGrows
<1> HIDE DEF u
<1>3. StopIn(t, p) \in p + 1 .. Len(t) + 1 /\ p \in 1 .. Len(t)
  BY StopIsFirst DEF Ends
<1>4. CASE StopIn(t, p) <= Len(t)
  <2>1. \A q \in p + 1 .. StopIn(t, p) - 1 : q \in 1 .. Len(t)
    BY <1>1, <1>3
  <2>2. CharsIn(u, p) = CharsIn(t, p)
    BY <1>1, <1>2, <1>4, <2>1 DEF CharsIn
  <2> QED
    BY <1>1, <1>3, <1>4, <2>2 DEF u
<1>5. CASE StopIn(t, p) = Len(t) + 1
  <2>1. \A q \in p + 1 .. Len(t) : q \in 1 .. Len(t)
    BY <1>1, <1>3
  <2>2. CASE c \in {"prefix", "other"}
    <3>1. CharsIn(u, p) = CharsIn(t, p)
      BY <1>1, <1>2, <1>5, <2>1, <2>2 DEF CharsIn
    <3> QED
      BY <2>2, <3>1 DEF u
  <2>3. CASE c \notin {"prefix", "other"}
    <3>1. \A q : q \in p + 1 .. Len(t) + 1 <=> q \in p + 1 .. Len(t) \/ q = Len(t) + 1
      BY <1>1, <1>3
    <3>2. CharsIn(u, p) = {q \in p + 1 .. Len(t) + 1 : u[q] = "base32"}
      BY <1>1, <1>2, <1>5, <2>3 DEF CharsIn
    <3>3. CharsIn(t, p) = {q \in p + 1 .. Len(t) : t[q] = "base32"}
      BY <1>1, <1>5 DEF CharsIn
    <3>4. CharsIn(u, p) = CharsIn(t, p) \cup (IF c = "base32" THEN {Len(t) + 1} ELSE {})
      BY <1>1, <2>1, <3>1, <3>2, <3>3
    <3> QED
      BY <1>5, <3>4 DEF u
  <2> QED
    BY <2>2, <2>3
<1> QED
  BY <1>1, <1>3, <1>4, <1>5

(* A character typed keeps the reader and Scan together.                   *)
LEMMA TypeKeeps ==
  ASSUME IInv, NEW c \in Characters, Type(c)
  PROVE  IInv'
<1> DEFINE here == Len(text) + 1
<1>1. /\ text' = Append(text, c)
      /\ open' = IF c = "prefix" THEN here ELSE IF c = "other" THEN 0 ELSE open
      /\ read' = [p \in DOMAIN read \cup (IF c = "prefix" THEN {here} ELSE {}) |->
                     IF p = here THEN {}
                     ELSE IF c = "base32" /\ p = open THEN read[p] \cup {here} ELSE read[p]]
  BY DEF Type
<1>2. /\ text \in Seq(Characters) /\ text' \in Seq(Characters) /\ Len(text) \in Nat
      /\ Len(text') = here /\ open \in Nat /\ open' \in Nat
  BY <1>1 DEF IInv, TypeOK
<1>3. Starts \subseteq 1 .. Len(text) /\ \A p \in Starts : p # here
  BY <1>2 DEF Starts, Places
<1>4. Starts' = Starts \cup (IF c = "prefix" THEN {here} ELSE {})
  BY <1>1, <1>2, StartsGrow, OfText
<1>5. ASSUME NEW p \in Starts
      PROVE  /\ Stop(p) \in 1 .. Len(text) + 1
             /\ Stop(p) <= Len(text) => Stop(p)' = Stop(p)
             /\ Stop(p) = Len(text) + 1 =>
                    Stop(p)' = IF c \in {"prefix", "other"} THEN Len(text) + 1 ELSE Len(text) + 2
             /\ Found(p)'.chars = Found(p).chars \cup
                    (IF c = "base32" /\ Stop(p) = Len(text) + 1 THEN {here} ELSE {})
  <2>1. p \in StartsIn(text) /\ p \in 1 .. Len(text)
    BY <1>3, OfText
  <2>2. StopIn(text, p) \in 1 .. Len(text) + 1
    BY <1>2, <2>1, StopIsFirst DEF Ends
  <2>3. /\ StopIn(text, p) <= Len(text) => StopIn(text', p) = StopIn(text, p)
        /\ StopIn(text, p) = Len(text) + 1 =>
             StopIn(text', p) = IF c \in {"prefix", "other"} THEN Len(text) + 1 ELSE Len(text) + 2
    BY <1>1, <1>2, <2>1, StopGrows
  <2>4. CharsIn(text', p) = CharsIn(text, p) \cup
            (IF c = "base32" /\ StopIn(text, p) = Len(text) + 1 THEN {here} ELSE {})
    BY <1>1, <1>2, <2>1, CharsGrow
  <2> QED
    BY <2>2, <2>3, <2>4, OfText
<1>6. ASSUME NEW p, p = here, c = "prefix"
      PROVE  Stop(p)' = Len(text) + 2 /\ Found(p)'.chars = {}
  <2>1. StopIn(text', p) = Len(text) + 2 /\ CharsIn(text', p) = {}
    BY <1>1, <1>2, <1>6, NewShare
  <2> QED
    BY <2>1, OfText
<1>7. open' # 0 => open' \in Starts'
  BY <1>1, <1>4 DEF IInv
<1>8. ASSUME NEW p \in Starts' PROVE p = open' <=> Stop(p)' = Len(text') + 1
  <2>1. CASE p \in Starts
    <3>1. p = open <=> Stop(p) = Len(text) + 1
      BY <2>1 DEF IInv
    <3>2. p # 0 /\ p # here
      BY <1>2, <1>3, <2>1
    <3>3. CASE c \in {"prefix", "other"}
      BY <1>1, <1>2, <1>5, <2>1, <3>2, <3>3
    <3>4. CASE c \notin {"prefix", "other"}
      BY <1>1, <1>2, <1>5, <2>1, <3>1, <3>4
    <3> QED
      BY <3>3, <3>4
  <2>2. CASE p \notin Starts
    BY <1>1, <1>2, <1>4, <1>6, <2>2
  <2> QED
    BY <2>1, <2>2
<1>9. ReadsAsTyped'
  <2>1. read = [p \in Starts |-> Found(p).chars] /\ DOMAIN read = Starts
    BY DEF IInv, ReadsAsTyped
  <2>2. DOMAIN read' = Starts'
    BY <1>1, <1>4, <2>1
  <2>3. ASSUME NEW p \in Starts' PROVE read'[p] = Found(p)'.chars
    <3>1. CASE p \in Starts
      <4>1. read[p] = Found(p).chars /\ (p = open <=> Stop(p) = Len(text) + 1) /\ p # here
        BY <1>3, <2>1, <3>1 DEF IInv
      <4>2. read'[p] = IF c = "base32" /\ p = open THEN read[p] \cup {here} ELSE read[p]
        BY <1>1, <2>1, <3>1, <4>1
      <4> QED
        BY <1>5, <3>1, <4>1, <4>2
    <3>2. CASE p \notin Starts
      <4>1. c = "prefix" /\ p = here
        BY <1>4, <3>2
      <4>2. read'[p] = {}
        BY <1>1, <4>1
      <4> QED
        BY <1>6, <4>1, <4>2
    <3> QED
      BY <3>1, <3>2
  <2>4. read' = [p \in DOMAIN read' |-> read'[p]]
    BY <1>1
  <2>5. [p \in Starts' |-> Found(p)'.chars] = read'
    BY <2>2, <2>3, <2>4
  <2> QED
    BY <2>5 DEF ReadsAsTyped
<1> QED
  BY <1>2, <1>7, <1>8, <1>9 DEF IInv, TypeOK

LEMMA TextInvariant == Spec => []IInv
<1>1. IInv /\ [Next]_vars => IInv'
  <2> SUFFICES ASSUME IInv, [Next]_vars PROVE IInv'
    OBVIOUS
  <2>1. ASSUME UNCHANGED vars PROVE IInv'
    <3>1. text' = text /\ open' = open /\ read' = read
      BY <2>1 DEF vars
    <3>2. Starts' = Starts /\ \A p : Stop(p)' = Stop(p) /\ Found(p)'.chars = Found(p).chars
      BY <3>1, OfText
    <3>3. ReadsAsTyped'
      BY <3>1, <3>2 DEF IInv, ReadsAsTyped
    <3> QED
      BY <3>1, <3>2, <3>3 DEF IInv, TypeOK
  <2> QED
    BY <2>1, TypeKeeps DEF Next
<1> QED
  BY <1>1, TextInit, PTL DEF Spec

-----------------------------------------------------------------------------
(* Scan finds the shares that the reader of SPEC.md met, with the same     *)
(* characters, after every character typed.                                *)
THEOREM ScanReadsAsTyped == Spec => []ReadsAsTyped
BY TextInvariant, PTL DEF IInv

(* The line feeds of a stretch of text, and of two stretches on end.       *)
LEMMA FeedsAdd ==
  ASSUME NEW t, NEW k \in Nat \ {0}, NEW n \in Nat, k <= n + 1
  PROVE  /\ FeedsIn(t, 1, k - 1) \in Nat /\ FeedsIn(t, k, n) \in Nat
         /\ FeedsIn(t, 1, n) = FeedsIn(t, 1, k - 1) + FeedsIn(t, k, n)
<1> DEFINE A == {p \in 1 .. k - 1 : t[p] = "feed"}
           B == {p \in k .. n : t[p] = "feed"}
           C == {p \in 1 .. n : t[p] = "feed"}
<1>1. 1 \in Int /\ k - 1 \in Int /\ k \in Int /\ n \in Int
  OBVIOUS
<1>2. IsFiniteSet(1 .. k - 1) /\ IsFiniteSet(k .. n)
  BY <1>1, FS_Interval
<1>3. IsFiniteSet(A) /\ IsFiniteSet(B)
  BY <1>2, FS_Subset
<1>4. C = A \cup B /\ A \cap B = {}
  OBVIOUS
<1> HIDE DEF A, B, C
<1>5. Cardinality(A) \in Nat /\ Cardinality(B) \in Nat
  BY <1>3, FS_CardinalityType
<1>6. Cardinality(A \cup B) = Cardinality(A) + Cardinality(B)
  <2>1. Cardinality(A \cup B) = Cardinality(A) + Cardinality(B) - Cardinality({})
    BY <1>3, <1>4, FS_Union
  <2>2. Cardinality({}) = 0
    BY FS_EmptySet
  <2> QED
    BY <1>5, <2>1, <2>2
<1> QED
  BY <1>4, <1>5, <1>6 DEF FeedsIn, A, B, C

(* What is typed later leaves the line feeds before it.                    *)
LEMMA FeedsStay ==
  ASSUME NEW t \in Seq(Characters), NEW c \in Characters,
         NEW m \in Nat \ {0}, NEW n \in Int, n <= Len(t)
  PROVE  FeedsIn(Append(t, c), m, n) = FeedsIn(t, m, n)
<1>1. \A p \in m .. n : p \in 1 .. Len(t) /\ Append(t, c)[p] = t[p]
  OBVIOUS
<1>2. {p \in m .. n : Append(t, c)[p] = "feed"} = {p \in m .. n : t[p] = "feed"}
  BY <1>1
<1> QED
  BY <1>2 DEF FeedsIn

(* What Scan found of a share that has ended, its characters, its lines    *)
(* and whether it decodes, is not changed by what is typed after it.       *)
THEOREM EndedSharesKept == Spec => EndedSharesStand
<1> DEFINE Stands == \A p \in Starts : Stop(p) <= Len(text) => p \in Starts' /\ Found(p)' = Found(p)
<1>1. IInv /\ [Next]_vars => [Stands]_vars
  <2> SUFFICES ASSUME IInv, NEW c \in Characters, Type(c), NEW p \in Starts,
                      Stop(p) <= Len(text)
               PROVE  p \in Starts' /\ Found(p)' = Found(p)
    BY DEF Next
  <2>1. /\ text' = Append(text, c) /\ text \in Seq(Characters) /\ Len(text) \in Nat
        /\ text' \in Seq(Characters) /\ Len(text') = Len(text) + 1
    BY DEF Type, IInv, TypeOK
  <2>2. /\ p \in StartsIn(text) /\ p \in StartsIn(text') /\ p \in 1 .. Len(text)
        /\ StopIn(text, p) <= Len(text) /\ StopIn(text, p) \in p + 1 .. Len(text) + 1
        /\ StopIn(text', p) = StopIn(text, p)
    <3>1. p \in StartsIn(text) /\ StopIn(text, p) <= Len(text)
      BY OfText
    <3> QED
      BY <2>1, <3>1, StopGrows, StopIsFirst DEF Ends
  <2>3. CharsIn(text', p) = CharsIn(text, p)
    <3>1. ~(StopIn(text, p) = Len(text) + 1)
      BY <2>1, <2>2
    <3>2. CharsIn(text', p) = CharsIn(text, p) \cup
              (IF c = "base32" /\ StopIn(text, p) = Len(text) + 1 THEN {Len(text) + 1} ELSE {})
      BY <2>1, <2>2, CharsGrow
    <3> QED
      BY <3>1, <3>2
  <2>4. Line(p)' = Line(p) /\ EndLine(p)' = EndLine(p)
    <3>1. /\ 1 \in Nat \ {0} /\ p \in Nat \ {0} /\ p - 1 \in Int /\ p - 1 <= Len(text)
          /\ StopIn(text, p) - 1 \in Int /\ StopIn(text, p) - 1 <= Len(text)
      BY <2>1, <2>2
    <3>2. FeedsIn(text', 1, p - 1) = FeedsIn(text, 1, p - 1)
      BY <2>1, <3>1, FeedsStay
    <3>3. FeedsIn(text', p, StopIn(text, p) - 1) = FeedsIn(text, p, StopIn(text, p) - 1)
      BY <2>1, <3>1, FeedsStay
    <3>4. Line(p)' = Line(p)
      BY <3>2, OfText DEF Line
    <3>5. Stop(p)' = Stop(p)
      BY <2>2, OfText
    <3>6. Feeds(p, Stop(p) - 1) = FeedsIn(text, p, StopIn(text, p) - 1)
      BY OfText
    <3>7. Feeds(p, Stop(p) - 1)' = FeedsIn(text', p, StopIn(text', p) - 1)
      BY OfText DEF Feeds, FeedsIn
    <3> QED
      BY <2>2, <3>3, <3>4, <3>6, <3>7 DEF EndLine
  <2>5. StopIn(text', p) < LimitIn(text', p) <=> StopIn(text, p) < LimitIn(text, p)
    <3>1. /\ LimitIn(text, p) \in StartsIn(text) \cup {Len(text) + 1}
          /\ LimitIn(text, p) \in p + 1 .. Len(text) + 1
          /\ \A q \in StartsIn(text) : q > p => LimitIn(text, p) <= q
          /\ LimitIn(text', p) \in StartsIn(text') \cup {Len(text') + 1}
          /\ LimitIn(text', p) \in p + 1 .. Len(text') + 1
          /\ \A q \in StartsIn(text') : q > p => LimitIn(text', p) <= q
      BY <2>1, <2>2, StopIsFirst
    <3>2. StartsIn(text') = StartsIn(text) \cup (IF c = "prefix" THEN {Len(text) + 1} ELSE {})
      BY <2>1, StartsGrow
    <3>3. CASE LimitIn(text, p) <= Len(text)
      <4>1. LimitIn(text, p) \in StartsIn(text) /\ LimitIn(text, p) \in StartsIn(text')
        BY <2>1, <3>1, <3>2, <3>3
      <4>2. LimitIn(text', p) <= LimitIn(text, p)
        BY <2>2, <3>1, <4>1
      <4>3. LimitIn(text', p) \in StartsIn(text)
        BY <2>1, <2>2, <3>1, <3>2, <3>3, <4>2
      <4>4. LimitIn(text', p) = LimitIn(text, p)
        BY <2>1, <2>2, <3>1, <4>2, <4>3
      <4> QED
        BY <2>2, <4>4
    <3>4. CASE LimitIn(text, p) = Len(text) + 1
      <4>1. LimitIn(text', p) >= Len(text) + 1
        BY <2>1, <2>2, <3>1, <3>2, <3>4
      <4> QED
        BY <2>1, <2>2, <3>1, <3>4, <4>1
    <3> QED
      BY <2>1, <3>1, <3>3, <3>4
  <2>6. Found(p)' = Found(p)
    <3>1. (Stop(p) < Limit(p))' = (Stop(p) < Limit(p))
      BY <2>5, OfText
    <3>2. /\ Found(p) = [chars |-> CharsIn(text, p),
                         decodes |-> Cardinality(CharsIn(text, p)) % 8 \notin {1, 3, 6},
                         line |-> Line(p), endLine |-> EndLine(p),
                         stopped |-> Stop(p) < Limit(p)]
          /\ Found(p)' = [chars |-> CharsIn(text', p),
                          decodes |-> Cardinality(CharsIn(text', p)) % 8 \notin {1, 3, 6},
                          line |-> Line(p)', endLine |-> EndLine(p)',
                          stopped |-> (Stop(p) < Limit(p))']
      BY OfText DEF Found, CharsIn
    <3> QED
      BY <2>3, <2>4, <3>1, <3>2
  <2> QED
    BY <2>2, <2>6, OfText
<1> QED
  BY <1>1, TextInvariant, PTL DEF Spec, EndedSharesStand

(* The lines are in order, and a share ends on the line of the character   *)
(* that ends it.                                                           *)
LEMMA LinesInOrder ==
  ASSUME text \in Seq(Characters)
  PROVE  /\ \A p \in Nat \ {0} : Line(p) \in Nat
         /\ \A p, q \in Nat \ {0} : p <= q => Line(p) <= Line(q)
         /\ \A p \in Starts : EndLine(p) = Line(Stop(p))
<1>1. ASSUME NEW p \in Nat \ {0} PROVE Line(p) \in Nat /\ Feeds(1, p - 1) \in Nat
  <2>1. p - 1 \in Nat /\ p <= (p - 1) + 1
    OBVIOUS
  <2>2. FeedsIn(text, 1, p - 1) \in Nat
    BY <2>1, FeedsAdd
  <2> QED
    BY <2>2, OfText DEF Line
<1>2. ASSUME NEW p \in Nat \ {0}, NEW q \in Nat \ {0}, p <= q
      PROVE  Feeds(1, q - 1) = Feeds(1, p - 1) + Feeds(p, q - 1) /\ Feeds(p, q - 1) \in Nat
  <2>1. q - 1 \in Nat /\ p <= (q - 1) + 1
    BY <1>2
  <2>2. /\ FeedsIn(text, 1, q - 1) = FeedsIn(text, 1, p - 1) + FeedsIn(text, p, q - 1)
        /\ FeedsIn(text, p, q - 1) \in Nat
    BY <2>1, FeedsAdd
  <2> QED
    BY <2>2, OfText
<1>3. ASSUME NEW p \in Nat \ {0}, NEW q \in Nat \ {0}, p <= q PROVE Line(p) <= Line(q)
  <2>1. /\ Feeds(1, q - 1) = Feeds(1, p - 1) + Feeds(p, q - 1) /\ Feeds(p, q - 1) \in Nat
        /\ Feeds(1, p - 1) \in Nat
    BY <1>1, <1>2, <1>3
  <2> QED
    BY <2>1 DEF Line
<1>4. ASSUME NEW p \in Starts PROVE EndLine(p) = Line(Stop(p))
  <2>1. p \in Nat \ {0} /\ Stop(p) \in Nat \ {0} /\ p <= Stop(p)
    <3>1. p \in StartsIn(text)
      BY OfText
    <3>2. p \in 1 .. Len(text) /\ StopIn(text, p) \in p + 1 .. Len(text) + 1
      BY <3>1, StopIsFirst DEF Ends
    <3> QED
      BY <3>2, OfText
  <2>2. Feeds(1, Stop(p) - 1) = Feeds(1, p - 1) + Feeds(p, Stop(p) - 1)
    BY <1>2, <2>1
  <2>3. Feeds(1, p - 1) \in Nat /\ Feeds(p, Stop(p) - 1) \in Nat
    BY <1>1, <1>2, <2>1
  <2> QED
    BY <2>2, <2>3 DEF EndLine, Line
<1> QED
  BY <1>1, <1>3, <1>4

(* A line of base32 that looks like a share is in one whole, or is warned  *)
(* about and in none.                                                      *)
THEOREM NoTextLostUnreported == Spec => []LostTextIsReported
<1>1. IInv => LostTextIsReported
  <2> SUFFICES ASSUME IInv, NEW l \in Lines, Base32Line(l)
               PROVE  \/ /\ l \notin Warned
                         /\ \E p \in Starts :
                               \A q \in On(l) : text[q] = "base32" => q \in Found(p).chars
                      \/ /\ l \in Warned
                         /\ \A p \in Starts : On(l) \cap Found(p).chars = {}
    BY DEF LostTextIsReported
  <2>1. text \in Seq(Characters) /\ Len(text) \in Nat /\ Places = 1 .. Len(text)
    BY DEF IInv, TypeOK, Places
  <2>2. /\ \A p \in Nat \ {0} : Line(p) \in Nat
        /\ \A p, q \in Nat \ {0} : p <= q => Line(p) <= Line(q)
        /\ \A p \in Starts : EndLine(p) = Line(Stop(p))
    BY <2>1, LinesInOrder
  <2>3. ASSUME NEW p \in Starts
        PROVE  /\ p \in Nat \ {0} /\ p \in Places /\ text[p] = "prefix"
               /\ Stop(p) \in p + 1 .. Len(text) + 1 /\ Stop(p) \in Nat \ {0}
               /\ Stop(p) <= Len(text) => text[Stop(p)] \in {"prefix", "other"}
               /\ Found(p).chars = {q \in p + 1 .. Stop(p) - 1 : text[q] = "base32"}
               /\ Line(p) \in Nat /\ EndLine(p) \in Nat
    <3>1. p \in StartsIn(text)
      BY OfText
    <3>2. p \in 1 .. Len(text) /\ StopIn(text, p) \in Ends(text, p)
      BY <2>1, <3>1, StopIsFirst
    <3>3. /\ Stop(p) \in p + 1 .. Len(text) + 1 /\ Stop(p) \in Nat \ {0}
          /\ Stop(p) <= Len(text) => text[Stop(p)] \in {"prefix", "other"}
      BY <2>1, <3>2, OfText DEF Ends
    <3>4. p \in Nat \ {0} /\ p \in Places /\ text[p] = "prefix"
      BY <2>1, <3>2 DEF Starts
    <3> QED
      BY <2>2, <3>3, <3>4 DEF Found
  <2>4. \A q \in On(l) : /\ q \in Places /\ q \in Nat \ {0} /\ Line(q) = l /\ Line(q) \in Nat
                         /\ text[q] \notin {"prefix", "other"}
    BY <2>1, <2>2 DEF On, Base32Line
  <2>5. ASSUME l \in Warned, NEW p \in Starts, NEW q \in On(l), q \in Found(p).chars PROVE FALSE
    <3>1. q \in p + 1 .. Stop(p) - 1 /\ p <= q /\ q <= Stop(p)
      BY <2>3, <2>5
    <3>2. Line(p) <= Line(q) /\ Line(q) <= EndLine(p)
      BY <2>2, <2>3, <2>4, <3>1
    <3>3. l \in Line(p) .. EndLine(p)
      BY <2>3, <2>4, <3>2
    <3> QED
      BY <2>5, <3>3 DEF Warned, Inside
  <2>6. ASSUME l \notin Warned
        PROVE  \E p \in Starts : \A q \in On(l) : text[q] = "base32" => q \in Found(p).chars
    <3>1. PICK p \in Starts : l \in Line(p) .. EndLine(p)
      BY <2>6 DEF Warned, Inside
    <3>2. ASSUME NEW q \in On(l), text[q] = "base32" PROVE q \in p + 1 .. Stop(p) - 1
      <4>1. Line(p) # l
        BY <2>3, <2>4 DEF On
      <4>2. ~(q <= p)
        <5> SUFFICES ASSUME q <= p PROVE FALSE
          OBVIOUS
        <5>1. l <= Line(p) /\ l \in Nat
          <6>1. q \in Nat \ {0} /\ p \in Nat \ {0} /\ Line(q) = l /\ Line(q) \in Nat
            BY <2>3, <2>4
          <6>2. Line(q) <= Line(p)
            BY <2>2, <6>1
          <6> QED
            BY <6>1, <6>2
        <5> QED
          BY <2>3, <3>1, <4>1, <5>1
      <4>3. ~(Stop(p) <= q)
        <5> SUFFICES ASSUME Stop(p) <= q PROVE FALSE
          OBVIOUS
        <5>1. Line(Stop(p)) <= l /\ Line(Stop(p)) = EndLine(p)
          BY <2>2, <2>3, <2>4
        <5>2. Line(Stop(p)) = l
          BY <2>3, <3>1, <5>1
        <5>3. Stop(p) <= Len(text)
          BY <2>1, <2>3, <2>4
        <5>4. Stop(p) \in On(l)
          BY <2>1, <2>3, <5>2, <5>3 DEF On
        <5> QED
          BY <2>3, <2>4, <5>3, <5>4
      <4> QED
        BY <2>3, <2>4, <4>2, <4>3
    <3> QED
      BY <2>3, <3>2
  <2> QED
    BY <2>5, <2>6
<1> QED
  BY <1>1, TextInvariant, PTL
=============================================================================
