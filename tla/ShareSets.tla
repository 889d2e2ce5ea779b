------------------------------ MODULE ShareSets ------------------------------
(***************************************************************************)
(* Shares and the sets they form, as the Go package (shaqr.go) and its     *)
(* twin js/shaqr.js see them.  A set stands for one value of format, k, id *)
(* and length, which is what Group sorts by; a share of it has an x and a  *)
(* text.  The text Right is the value of the set's polynomials at x; every *)
(* other text passes its check and is off them.  The id is a perfect hash: *)
(* K shares fit it exactly when all of them have the text Right (see       *)
(* SearchContract).                                                        *)
(***************************************************************************)
EXTENDS Integers, Sequences, FiniteSets, SequencesExt

CONSTANTS
    K,          \* shares that recover a set, the same in every set here
    Sets,       \* the sets the shares belong to
    Xs,         \* x values in use
    Right,      \* the text that is on the polynomials
    Wrong,      \* texts that pass their check and are off the polynomials
    Faults,     \* why a share fails step 1: "check", "version", "malformed"
    MayStop     \* whether the bound on work can stop a search

ASSUME KAssumption == K \in Nat /\ K >= 2
ASSUME XsAssumption == Xs \subseteq 1 .. 255
ASSUME RightAssumption == Right \notin Wrong
ASSUME FaultsAssumption == "none" \notin Faults
ASSUME MayStopAssumption == MayStop \in BOOLEAN

Texts == {Right} \cup Wrong

(* The elements of the sequence s that are in S, in their order: SelectSeq *)
(* of the library by a set, as a function that a proof can follow.         *)
Only(s, S) ==
    LET kept[n \in 0 .. Len(s)] ==
            IF n = 0 THEN <<>>
            ELSE IF s[n] \in S THEN Append(kept[n - 1], s[n]) ELSE kept[n - 1]
    IN  kept[Len(s)]

(* One decoded share: one that parses, or one that fails step 1.  The      *)
(* fields of the second kind that nothing reads are fixed.                 *)
NoSet == "no set"
Good == [set : Sets, x : Xs, text : Texts, fault : {"none"}]
Faulty == [set : {NoSet}, x : {0}, text : {Right}, fault : Faults]
Shares == Good \cup Faulty

\* parse: step 1 of recovering.
Parses(sh) == sh.fault = "none"

(* What follows is about a group: a sequence of shares that parse and      *)
(* belong to one set, in input order, exact copies included.               *)
XsOf(g) == {g[i].x : i \in DOMAIN g}
TextsAt(g, x) == {g[i].text : i \in {n \in DOMAIN g : g[n].x = x}}

\* disputed: x values with two or more different texts.
Disputed(g) == {x \in XsOf(g) : Cardinality(TextsAt(g, x)) > 1}
Undisputed(g) == XsOf(g) \ Disputed(g)

\* The x whose only text is right, and the K lowest x that solve tries first.
RightXs(g) == {x \in Undisputed(g) : TextsAt(g, x) = {Right}}
FirstXs(g) == {x \in Undisputed(g) :
                  Cardinality({y \in Undisputed(g) : y < x}) < K}

(* newSet and solve: how Combine, Audit and ShareAt come out on a group.   *)
(* The cap on subsets is out of reach of the few shares of an instance, so *)
(* that the plain ErrID means that no K shares fit.                        *)
Solves(g) ==
    IF Cardinality(Undisputed(g)) < K THEN {"too few"}
    ELSE IF FirstXs(g) \subseteq RightXs(g) THEN {"ok"}
    ELSE {IF Cardinality(RightXs(g)) >= K THEN "ok" ELSE "id"}
             \cup (IF MayStop THEN {"stopped"} ELSE {})

(* Audit, once the id has passed: every x with a share off the polynomials *)
(* among the undisputed shares and, after them, the disputed ones.         *)
Audit(g) == {x \in XsOf(g) : \E t \in TextsAt(g, x) : t # Right}

\* A set of positive integers in ascending order.
Ascending(S) == IF S = {} THEN <<>>
                ELSE Only([n \in 1 .. Max(S) |-> n], S)

(* ShareAt, once the id has passed. *)
ShareAt(s, x) == [set |-> s, x |-> x, text |-> Right, fault |-> "none"]
=============================================================================
