------------------------------- MODULE Field -------------------------------
(***************************************************************************)
(* The field GF(2^8) and interpolation in it (js/gf256.js, gf256.go).      *)
(* A byte is the set of the places of its ones: + is the symmetric         *)
(* difference, a shift to the left adds 1 to every place.  The points of   *)
(* a polynomial are given one after another.                               *)
(***************************************************************************)
EXTENDS Integers, Sequences, SequencesExt, FiniteSetsExt

CONSTANTS
    Edges,      \* indices that more than one point may have
    MaxPoints   \* bound on the points

Byte == SUBSET (0 .. 7)
Zero == {}
One == {0}

\* x^8 + x^4 + x^3 + x + 1, 0x11b.
Modulus == {8, 4, 3, 1, 0}

Shift(a) == {i + 1 : i \in a}

Double(a) == IF 8 \in Shift(a) THEN SymDiff(Shift(a), Modulus) ELSE Shift(a)

Mul(a, b) ==
    FoldLeft(LAMBDA s, i : [p |-> IF i \in b THEN SymDiff(s.p, s.a) ELSE s.p, a |-> Double(s.a)],
             [p |-> Zero, a |-> a], [n \in 1 .. 8 |-> n - 1]).p

\* The ones of 254, from the lowest.
Exponent == <<0, 1, 1, 1, 1, 1, 1, 1>>

Inv(a) ==
    FoldLeft(LAMBDA s, e : [p |-> IF e = 1 THEN Mul(s.p, s.a) ELSE s.p, a |-> Mul(s.a, s.a)],
             [p |-> One, a |-> a], Exponent).p

Product(bytes) == FoldLeft(LAMBDA p, b : Mul(p, b), One, bytes)
Sum(bytes) == FoldLeft(LAMBDA p, b : SymDiff(p, b), Zero, bytes)

\* The denominators of basis, each inverted once.
Dinv(xs) == [i \in DOMAIN xs |->
                Inv(Product([j \in 1 .. Len(xs) - 1 |-> SymDiff(xs[i], RemoveAt(xs, i)[j])]))]

\* Fault: no look at whether x is one of the xs.
WeightsUnheld(xs, x) ==
    LET p == Product([i \in DOMAIN xs |-> SymDiff(x, xs[i])])
    IN  [i \in DOMAIN xs |-> Mul(Mul(p, Inv(SymDiff(x, xs[i]))), Dinv(xs)[i])]

\* basis, at the target x.
Weights(xs, x) ==
    LET p == Product([i \in DOMAIN xs |-> SymDiff(x, xs[i])])
    IN  IF x \in Range(xs) THEN [i \in DOMAIN xs |-> IF xs[i] = x THEN One ELSE Zero]
        ELSE [i \in DOMAIN xs |-> Mul(Mul(p, Inv(SymDiff(x, xs[i]))), Dinv(xs)[i])]

\* apply, for one byte position.
Apply(w, ys) == Sum([i \in DOMAIN w |-> Mul(w[i], ys[i])])

Interp(xs, ys, x) == Apply(Weights(xs, x), ys)

-----------------------------------------------------------------------------
(* The points *)

VARIABLE xs

Init == xs = <<>>

Add(x) == /\ Len(xs) < MaxPoints
          /\ x \notin Range(xs)
          /\ xs = <<>> \/ (Range(xs) \cup {x}) \subseteq Edges
          /\ xs' = Append(xs, x)

Next == \E x \in Byte : Add(x)

Spec == Init /\ [][Next]_xs

-----------------------------------------------------------------------------
(* Properties *)

\* The product of two polynomials over the bits, and its remainder.
Carryless(a, b) == {n \in 0 .. 14 : Cardinality({i \in a : n - i \in b}) % 2 = 1}
Remainder(p) ==
    FoldLeft(LAMBDA r, n : IF n \in r THEN SymDiff(r, {i + n - 8 : i \in Modulus}) ELSE r,
             p, [j \in 1 .. 7 |-> 15 - j])

\* x to the power n, by the definition of the product.
Power(x, n) == FoldLeft(LAMBDA p, i : Remainder(Carryless(p, x)), One, [i \in 1 .. n |-> i])

(* Interpolation gives back every polynomial of degree below the number of *)
(* points, in whatever order they come, at an x that is held, at 0, where  *)
(* the key is, and at 255 as at any other.  The powers are those of the    *)
(* AES field (SPEC.md, Field); with one point it says that inv gives the   *)
(* inverse of every byte but 0.                                            *)
InterpolatesExactly ==
    \A n \in 0 .. Len(xs) - 1, x \in Edges :
        Interp(xs, [i \in DOMAIN xs |-> Power(xs[i], n)], x) = Power(x, n)
=============================================================================
