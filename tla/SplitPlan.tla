----------------------------- MODULE SplitPlan -----------------------------
(***************************************************************************)
(* What the two tools make of a descriptor that is to be split: planFor    *)
(* and runSplit of the web page (site/app.js), and splitCmd of descbackup  *)
(* (cmd/descbackup/main.go).  The page takes the k and n picked for the    *)
(* descriptor, if there are any, and else the ones wanted for a text; the  *)
(* command takes the flags -k and -n, which are 0 when they are not given. *)
(* Both begin with the canonical form of their text t, which is c below,   *)
(* or its error.  How the page's runs overlap is in SplitPage, and where   *)
(* private keys can hide in a text in PrivateKeys.                         *)
(***************************************************************************)
EXTENDS Canonical

CONSTANTS
    MaxN,     \* shares that a set can have, 255 in the code
    MaxShare  \* tokens of the payload for which a share still fits a QR code

Quorums == {q \in [k : 2 .. MaxN, n : 2 .. MaxN] : q.k <= q.n}

Set(type, payload, open, q) ==
    [is |-> "set", type |-> type, payload |-> payload, open |-> open, k |-> q.k, n |-> q.n]
Refuses == [is |-> "refuses"]

Leaves(tokens) == {token \in Range(tokens) : ~Structure(token)}
Words(tokens) == {leaf \in Leaves(tokens) : leaf.is = "key"}

PrivateKinds == {"xprv", "mistyped", "zprv", "wif"}
HoldsPrivateKey(tokens) == \E word \in Words(tokens) : word.kind \in PrivateKinds

-----------------------------------------------------------------------------
(* The page *)

\* An extended key that fails its base58check; nothing else is looked at.
BadKey(tokens) == \E word \in Words(tokens) : word.kind = "mistyped"

\* Any text in [ ] is an origin, and any text behind a / are children.
RealKey(word) == Extended(word) \/ (word.kind = "hex" /\ word.children = "")

\* A multi has a threshold that no group can reach, or 0.
Unreachable(m) == IsNumber(m.args[1]) /\ ThresholdOf(m) \notin 1 .. Len(m.args) - 1

\* That is the one multi of the descriptor.
BadThreshold(e) == Len(Multis(e)) = 1 /\ Unreachable(Multis(e)[1])

\* A descriptor in canonical form with a quorum, split at the k and n of q.
PlanDescriptor(desc, q) ==
    IF q.k < 2 \/ q.n > MaxN THEN [is |-> "stop"] @@ q ELSE Set("D", desc, FALSE, q)

PlanOf(t, c, q, pick, wanted) ==
    IF c.error = "checksum" /\ q # Nothing THEN Refuses
    ELSE IF c.error = "none" /\ q = Nothing /\ BadThreshold(Parse(c.desc)) THEN [is |-> "stop"]
    ELSE IF c.error = "none" /\ q # Nothing /\ \A i \in DOMAIN q.keys : RealKey(q.keys[i].text[1])
    THEN PlanDescriptor(c.desc, IF pick # Nothing THEN pick ELSE [k |-> q.k, n |-> Len(q.keys)])
    ELSE Set("U", t, FALSE, wanted)

PlanFor(t, c, pick, wanted) ==
    PlanOf(t, c, Quorum(IF c.error = "none" THEN c.desc ELSE t.tokens), pick, wanted)

\* What becomes of a plan: no set with a bad key, and no open one with a private key.
CarryOut(plan, t, open) ==
    IF plan.is # "set" THEN plan
    ELSE IF plan.type = "D" /\ BadKey(plan.payload) THEN Refuses
    ELSE IF open /\ HoldsPrivateKey(IF plan.type = "D" THEN plan.payload ELSE t.tokens) THEN Refuses
    ELSE [plan EXCEPT !.open = open]

\* Each of the k slices holds its part of the payload.
Fits(set) == Len(IF set.type = "D" THEN set.payload ELSE set.payload.tokens) <= MaxShare * set.k

\* Shares too long for a QR code are dropped again: "Raise k".
Shown(set) == IF set.is = "set" /\ ~Fits(set) THEN [set EXCEPT !.is = "long"] ELSE set

(* runSplit: the set it cuts of text t, with the pick for its canonical    *)
(* form, or Nothing.                                                       *)
RunSplit(t, c, pick, wanted, open) ==
    IF t.tokens = <<>> THEN Refuses ELSE Shown(CarryOut(PlanFor(t, c, pick, wanted), t, open))

-----------------------------------------------------------------------------
(* The command *)

\* What follows a call is a name here.
ChildrenOf(leaf) ==
    IF leaf.is = "key" THEN leaf.children ELSE IF leaf.is = "name" THEN leaf.name ELSE ""

(* checkKey, of a key or of what follows a call: the base58check, the      *)
(* origin (originStep), brackets anywhere else and the children            *)
(* (childStep).  Leaves that checkKeys does not hand to it pass.           *)
CheckKey(leaf) ==
    /\ leaf.is = "key" => /\ leaf.kind \notin {"mistyped", "stray"}
                          /\ leaf.origin \notin {BadStep, BadFingerprint}
    /\ ChildrenOf(leaf) \notin {"/0H/*", "/0]"}

CheckKeys(tokens) == \A leaf \in Leaves(tokens) : CheckKey(leaf)

\* The flags, and the quorum q of the descriptor where one is not given.
Asked(q, k, n) ==
    [k |-> IF k = 0 /\ q # Nothing THEN q.k ELSE k,
     n |-> IF n = 0 /\ q # Nothing THEN Len(q.keys) ELSE n]

\* Fault: only the flag is held to what a set can have.
ThresholdUncapped(q, k, n) ==
    IF \/ q = Nothing /\ (k = 0 \/ n = 0)
       \/ Asked(q, k, n).k \notin 1 .. Asked(q, k, n).n
       \/ Asked(q, k, n).k > 1 /\ n > MaxN
    THEN Nothing ELSE Asked(q, k, n)

\* The k and n, or Nothing where the command refuses.
Threshold(q, k, n) ==
    IF \/ q = Nothing /\ (k = 0 \/ n = 0)
       \/ Asked(q, k, n).k \notin 1 .. Asked(q, k, n).n
       \/ Asked(q, k, n).k > 1 /\ Asked(q, k, n).n > MaxN
    THEN Nothing ELSE Asked(q, k, n)

\* What follows on the check of the keys, at k and n.
Output(desc, q, open) ==
    IF q = Nothing \/ (open /\ HoldsPrivateKey(desc)) THEN Refuses
    ELSE IF q.k = 1 THEN [is |-> "plain"] @@ q
    ELSE Set("D", desc, open, q)

SplitCmd(c, k, n, open) ==
    IF c.error # "none" \/ ~CheckKeys(c.desc) THEN Refuses
    ELSE Output(c.desc, Threshold(Quorum(c.desc), k, n), open)
=============================================================================
