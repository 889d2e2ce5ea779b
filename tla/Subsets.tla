------------------------------- MODULE Subsets -------------------------------
(***************************************************************************)
(* The K-subsets of a set's M shares that the search in shaqr.go (solve,   *)
(* candidates, next, fits) and js/shaqr.js (solve, subsets, next) picks    *)
(* from, and when the wrong shares among them sit next to each other.      *)
(***************************************************************************)
EXTENDS Integers

CONSTANTS
    K,           \* shares needed, the set's k
    M,           \* shares held at distinct, undisputed x
    MaxSubsets   \* cap on the lexicographic part, 1024 in the code

ASSUME KMAssumption == /\ K \in Nat /\ M \in Nat
                       /\ 2 <= K /\ K <= M
ASSUME CapAssumption == MaxSubsets \in Nat

\* Positions in set.shares, which is sorted by x.
Pos == 0 .. M - 1

(* K positions, as the slice idx holds them; index i here is idx[i-1].     *)
Picks == [1 .. K -> Pos]

(* A pick in increasing order: one K-subset.  The gap form says no more    *)
(* than growth from each index to the next.                                *)
IsSorted(f) == \A i, j \in 1 .. K : i < j => f[j] - f[i] >= j - i
Sorted == {f \in Picks : IsSorted(f)}

Distinct(f) == \A i, j \in 1 .. K : i # j => f[i] # f[j]

(* f comes before g in lexicographic order. *)
LexLess(f, g) == \E i \in 1 .. K : /\ f[i] < g[i]
                                   /\ \A j \in 1 .. i - 1 : f[j] = g[j]

(* (start + i) % m for start and i below m: on from the last to the first. *)
Wrap(n) == IF n < M THEN n ELSE n - M

(* A pick fits the set id when every share in it is right: the key         *)
(* polynomial and C determine, and are determined by, any K of the shares, *)
(* and the id is taken for a perfect hash of them.                         *)
Clean(f, w) == \A i \in 1 .. K : f[i] \notin w

(* The wrong shares sit next to each other, the last position and the      *)
(* first being neighbours, and number no more than the M - K spares.       *)
Arc(l, n) == {Wrap(l + i) : i \in 0 .. n - 1}
Adjacent(w) == \E l \in Pos : w \subseteq Arc(l, M - K)
=============================================================================
