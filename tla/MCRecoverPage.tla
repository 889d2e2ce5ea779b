---------------------------- MODULE MCRecoverPage ----------------------------
(***************************************************************************)
(* Instances of RecoverPage.  a1, a2 and a3 are right shares of the set A, *)
(* f2 is a forged share at the x of a2, f3 one at the x of a3, b1 and b2   *)
(* are right shares of another set, c1 is one that does not pass its check *)
(* code, p1 and p2 are the plates of a split of A.                         *)
(* A bench is what one behaviour has at hand: entries, splits of tab 1,    *)
(* and a number of changes.                                                *)
(***************************************************************************)
EXTENDS RecoverPage

CONSTANTS A, B, a1, a2, a3, f2, f3, b1, b2, c1, p1, p2, forged, splitA, Benches

Sh(s, x, t) == [set |-> s, x |-> x, text |-> t, fault |-> "none"]

EntryShares ==
    [e \in Entries |->
        CASE e \in {a1, p1} -> Sh(A, 1, Right)
          [] e \in {a2, p2} -> Sh(A, 2, Right)
          [] e = a3 -> Sh(A, 3, Right)
          [] e = f2 -> Sh(A, 2, forged)
          [] e = f3 -> Sh(A, 3, forged)
          [] e = b1 -> Sh(B, 1, Right)
          [] e = b2 -> Sh(B, 2, Right)
          [] e = c1 -> [set |-> NoSet, x |-> 0, text |-> Right, fault |-> "check"]]
EntrySources ==
    [e \in Entries |-> CASE e \in {p1, p2} -> splitA
                         [] e \in {a3, f2, b1, b2} -> "paste"
                         [] OTHER -> "scan"]
SplitSets == [s \in Splits |-> A]

Bench(es, splits, changes) == [entries |-> es, splits |-> splits, changes |-> changes]

\* The plates of a split, forged and damaged shares; and two sets to recover.
PlatesBench == Bench({p1, p2, f2, f3, c1}, {splitA}, 3)
SetsBench == Bench({a1, a3, f3, b1, b2}, {}, 2)

BothBenches == {PlatesBench, SetsBench}
ForgedBench == {Bench({a1, a2, f2}, {}, 4)}
MirrorBench == {Bench({a1, p1, p2}, {splitA}, 2)}

VARIABLE bench

MCInit == Init /\ bench \in Benches

MCNext == /\ Next
          /\ OnShow' \subseteq bench.entries
          /\ recGen' <= bench.changes
          /\ current' \in bench.splits \cup {None}
          /\ UNCHANGED bench

MCSpec == MCInit /\ [][MCNext]_<<vars, bench>> /\ \A g \in Gens : Resumed(g)
=============================================================================
