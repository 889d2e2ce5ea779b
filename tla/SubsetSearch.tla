---------------------------- MODULE SubsetSearch ----------------------------
(***************************************************************************)
(* The search for K shares that fit the set id (shaqr.go: solve,           *)
(* candidates, next, fits; js/shaqr.js: solve, subsets, next, fits), one   *)
(* step per subset: first the runs of K consecutive positions, wrapping    *)
(* around, then the K-subsets in lexicographic order, MaxSubsets of them   *)
(* at most, all of it until MaxWork field multiplications were spent.      *)
(***************************************************************************)
EXTENDS Subsets

CONSTANTS
    MaxWork,     \* bound on the whole search's work, 2^27 in the code
    Costs        \* what one try may add to the work (fits)

ASSUME WorkAssumption == /\ MaxWork \in Nat \ {0}
                         /\ Costs \subseteq Nat \ {0}
                         /\ Costs # {}

VARIABLES
    wrong,     \* positions whose share is not on the set's polynomials
    phase,     \* where the loop over candidates stands, or how it returned
    start,     \* candidates: the next run
    idx,       \* candidates: the slice it yields
    sol,       \* solve: sol.idx, its copy of the last one it tried
    tries,     \* candidates: subsets yielded in lexicographic order
    tried,     \* solve: subsets tried
    work       \* solve: work spent on subsets that did not fit

vars == <<wrong, phase, start, idx, sol, tries, tried, work>>

Active == {"runs", "subsets"}
Returned == {"found", "none", "stopped"}

\* Fault: only the runs that do not wrap around.
RunsUnwrapped == M - K + 1
\* Every run is the same set of shares when M = K.
Runs == IF M = K THEN 1 ELSE M

\* Fault: positions go past the end instead of on from the first.
RunUnwrapped(s) == [i \in 1 .. K |-> s + i - 1]
\* Fault: a run starts one position late.
RunLate(s) == [i \in 1 .. K |-> Wrap(s + i)]
Run(s) == [i \in 1 .. K |-> Wrap(s + i - 1)]
First == [i \in 1 .. K |-> i - 1]

\* Fault: off by one, an index grows past its last position.
CanGrowTooFar(f, i) == f[i] <= M - K + (i - 1)

(* next: the last index that can still grow grows by one, and those after  *)
(* it follow it closely.                                                   *)
CanGrow(f, i) == f[i] < M - K + (i - 1)
IsLast(f) == \A i \in 1 .. K : ~CanGrow(f, i)
Pivot(f) == CHOOSE i \in 1 .. K : /\ CanGrow(f, i)
                                  /\ \A j \in i + 1 .. K : ~CanGrow(f, j)
After(f) == [j \in 1 .. K |-> IF j < Pivot(f) THEN f[j]
                              ELSE f[Pivot(f)] + 1 + (j - Pivot(f))]

Init == /\ wrong \in SUBSET Pos
        /\ phase = "runs"
        /\ start = 0
        /\ idx = [i \in 1 .. K |-> 0]
        /\ sol = [i \in 1 .. K |-> 0]
        /\ tries = 0
        /\ tried = 0
        /\ work = 0

\* Fault: the pick that fits is not copied.
BodyUncopied(f) ==
    /\ idx' = f
    /\ IF work >= MaxWork THEN phase' = "stopped" /\ UNCHANGED <<sol, tried, work>>
       ELSE /\ tried' = tried + 1
            /\ UNCHANGED sol
            /\ IF Clean(f, wrong) THEN phase' = "found" /\ UNCHANGED work
               ELSE UNCHANGED phase /\ \E w \in Costs : work' = work + w

(* The body of solve's loop on the pick f: give up at the bound on work,   *)
(* else try f, which fits or costs work.                                   *)
Body(f) ==
    /\ idx' = f
    /\ \/ /\ work >= MaxWork
          /\ phase' = "stopped"
          /\ UNCHANGED <<sol, tried, work>>
       \/ /\ work < MaxWork
          /\ Clean(f, wrong)
          /\ phase' = "found"
          /\ sol' = f
          /\ tried' = tried + 1
          /\ UNCHANGED work
       \/ /\ work < MaxWork
          /\ ~Clean(f, wrong)
          /\ sol' = f
          /\ tried' = tried + 1
          /\ \E w \in Costs : work' = work + w
          /\ UNCHANGED phase

TryRun == /\ phase = "runs"
          /\ start < Runs
          /\ Body(Run(start))
          /\ start' = start + 1
          /\ UNCHANGED <<wrong, tries>>

(* The runs are over: idx starts again at 0, 1, .. K - 1, not yielded       *)
(* because it was the first run.                                           *)
BeginSubsets == /\ phase = "runs"
                /\ start = Runs
                /\ phase' = "subsets"
                /\ idx' = First
                /\ UNCHANGED <<wrong, start, sol, tries, tried, work>>

TrySubset == /\ phase = "subsets"
             /\ tries < MaxSubsets
             /\ ~IsLast(idx)
             /\ Body(After(idx))
             /\ tries' = tries + 1
             /\ UNCHANGED <<wrong, start>>

(* candidates has no more to yield: solve returns the plain ErrID. *)
Exhaust == /\ phase = "subsets"
           /\ tries >= MaxSubsets \/ IsLast(idx)
           /\ phase' = "none"
           /\ UNCHANGED <<wrong, start, idx, sol, tries, tried, work>>

Next == TryRun \/ BeginSubsets \/ TrySubset \/ Exhaust

Spec == Init /\ [][Next]_vars /\ WF_vars(Next)

-----------------------------------------------------------------------------

TypeOK == /\ wrong \in SUBSET Pos
          /\ phase \in Active \cup Returned
          /\ start \in 0 .. Runs
          /\ idx \in Picks
          /\ sol \in Picks
          /\ tries \in 0 .. MaxSubsets
          /\ tried \in Nat
          /\ work \in Nat

(* The shares solve returns are K different ones, all of them right: a     *)
(* wrong share never gets into what Combine decrypts, and a run that wraps *)
(* around never picks a share twice.                                       *)
SoundSolution == phase = "found" => Distinct(sol) /\ Clean(sol, wrong)

(* A run that avoids the wrong shares exists whenever they sit next to     *)
(* each other and number no more than the spares: then solve never returns *)
(* the plain ErrID, whatever MaxSubsets is.                                *)
AdjacentWrongFound == phase = "none" => ~Adjacent(wrong)

(* The lexicographic part leaves no K-subset out: when it ends below its   *)
(* cap, no K shares fit.                                                   *)
ExhaustiveSearch ==
    phase = "none" /\ tries < MaxSubsets =>
        \A f \in Sorted : ~Clean(f, wrong)

(* No loop over the same subsets: each pick of the lexicographic part is   *)
(* an increasing one and comes after the one before it.                    *)
LexProgress == [][phase = "subsets" /\ idx' # idx
                    => idx' \in Sorted /\ LexLess(idx, idx')]_vars

(* "It always tries the first": a set whose first K shares are right is    *)
(* recovered at the first try, whatever the bounds are.                    *)
FirstSufficesAlways ==
    phase \in Returned /\ Clean(First, wrong) =>
        phase = "found" /\ tried = 1 /\ sol = First

(* The search keeps the contract its callers rely on. *)
Contract == INSTANCE SearchContract
                WITH outcome <- IF phase \in Active THEN "searching" ELSE phase,
                     answer <- sol
ContractKept == Contract!Spec
=============================================================================
