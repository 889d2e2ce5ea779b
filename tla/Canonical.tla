----------------------------- MODULE Canonical -----------------------------
(***************************************************************************)
(* The canonical form of a descriptor, and its quorum (js/descriptor.js    *)
(* canonical, quorum, and their twins in descriptor/descriptor.go).        *)
(*                                                                         *)
(* A descriptor is a sequence of tokens: ( ) { } and the comma, and words, *)
(* each being all that stands between two of those.  A word is the name of *)
(* a call, a number, a key, or what follows the ")" of a call.  A key has  *)
(* an origin (0 for none, or its place in the order of their texts), a     *)
(* kind, an id that stands for its characters, and children, and it is     *)
(* written with h or ', and in one case or the other.  Nothing here asks   *)
(* whether the steps of a path are numbers.  A hex word is a key or a hash *)
(* by where it stands.  White space is left out, the checksum is there or  *)
(* not, and right or wrong.                                                *)
(***************************************************************************)
EXTENDS Integers, Sequences, SequencesExt, FiniteSets, FiniteSetsExt, TLC

CONSTANT MaxDepth   \* nesting that parse takes, 1000 in the code

T(c) == [is |-> c]
Name(name) == [is |-> "name", name |-> name]
Number(value) == [is |-> "number", value |-> value]

Key(kind, origin, id, children) ==
    [is |-> "key", kind |-> kind, origin |-> origin, id |-> id, children |-> children,
     mark |-> "h", upper |-> FALSE]

\* Origins 1 and 2 are as BIP 380 has them.
BadStep == 3         \* a step is 48H
BadFingerprint == 4  \* the fingerprint is not 8 hex digits

Structure(token) == token.is \in {"(", ")", "{", "}", ","}

Nothing == [is |-> "none"]

-----------------------------------------------------------------------------
(* parse *)

Closer == [c \in {"(", "{"} |-> IF c = "(" THEN ")" ELSE "}"]

\* The first pass, at token i: the open brackets, and what is known of the closed ones.
Bracket(s, p, i) ==
    IF p.error THEN p
    ELSE IF s[i].is \in DOMAIN Closer
    THEN IF Len(p.open) = MaxDepth THEN [p EXCEPT !.error = TRUE]
         ELSE [p EXCEPT !.open = Append(@, i)]
    ELSE IF s[i].is \in {")", "}"}
    THEN IF p.open = <<>> \/ Closer[s[Last(p.open)].is] # s[i].is THEN [p EXCEPT !.error = TRUE]
         ELSE [p EXCEPT !.open = Front(@), !.closeAt = (Last(p.open) :> i) @@ @]
    ELSE IF s[i].is = "," /\ p.open # <<>>
    THEN [p EXCEPT !.commas = @ \cup {<<Last(p.open), i>>}]
    ELSE p

Brackets(s) ==
    FoldLeft(LAMBDA p, i : Bracket(s, p, i),
             [open |-> <<>>, closeAt |-> <<>>, commas |-> {}, error |-> FALSE],
             [i \in DOMAIN s |-> i])

Leaf(text) == [is |-> "leaf", text |-> text]
Bad == [is |-> "bad"]

\* Fault: a tap tree may have a text after it, like a call.
TextAfterAny(text, isTree) == \A i \in DOMAIN text : ~Structure(text[i])

TextAfter(text, isTree) == (\A i \in DOMAIN text : ~Structure(text[i])) /\ (isTree => text = <<>>)

\* A call or tap tree, and Bad where parse throws.
Bracketed(isTree, name, args, text) ==
    IF Bad \in Range(args) \/ ~TextAfter(text, isTree) THEN Bad
    ELSE IF isTree THEN [is |-> "tree", name |-> Nothing, args |-> args, text |-> text]
    ELSE [is |-> "call", name |-> name, args |-> args, text |-> text]

\* The bracket at a token, the commas at its level, and the one that closes it.
Cuts(p, at) ==
    <<at>> \o SetToSortSeq({c[2] : c \in {d \in p.commas : d[1] = at}}, <) \o <<p.closeAt[at]>>

\* build: the expression of tokens lo to hi, whose first bracket or comma is at at.
RECURSIVE Build(_, _, _, _)
Arguments(s, p, cuts) == [j \in 1 .. Len(cuts) - 1 |-> Build(s, p, cuts[j] + 1, cuts[j + 1] - 1)]

BuildAt(s, p, lo, hi, at) ==
    IF ~(s[at].is = "{" /\ at = lo) /\ ~(s[at].is = "(" /\ at > lo) THEN Bad
    ELSE Bracketed(s[at].is = "{", s[lo], Arguments(s, p, Cuts(p, at)), SubSeq(s, p.closeAt[at] + 1, hi))

Build(s, p, lo, hi) ==
    IF \A i \in lo .. hi : ~Structure(s[i]) THEN Leaf(SubSeq(s, lo, hi))
    ELSE BuildAt(s, p, lo, hi, Min({i \in lo .. hi : Structure(s[i])}))

Whole(s, p) == IF p.error \/ p.open # <<>> THEN Bad ELSE Build(s, p, 1, Len(s))

Parse(s) == Whole(s, Brackets(s))

RECURSIVE Written(_)
Written(e) ==
    IF e.is = "leaf" THEN e.text
    ELSE LET inner == FoldLeft(LAMBDA out, j : out \o (IF j > 1 THEN <<T(",")>> ELSE <<>>) \o Written(e.args[j]),
                               <<>>, [j \in DOMAIN e.args |-> j])
         IN  IF e.is = "tree" THEN <<T("{")>> \o inner \o <<T("}")>> \o e.text
             ELSE <<e.name, T("(")>> \o inner \o <<T(")")>> \o e.text

-----------------------------------------------------------------------------
(* canonicalize *)

SortedNames == {"sortedmulti", "sortedmulti_a"}
MultiNames == {"multi", "multi_a"} \cup SortedNames
NotKeys == {"sha256", "hash256", "ripemd160", "hash160", "addr", "raw"}

\* fragment: the name without its wrappers, which names here do not have.
Fragment(e) == IF e.is = "call" /\ e.name.is = "name" THEN e.name.name ELSE "{"

IsKey(e, a) ==
    /\ a.is = "leaf" /\ a.text # <<>> /\ a.text[1].is # "number"
    /\ Fragment(e) \notin NotKeys

Multipath == "/<0;1>/*"
ReceiveChange == {"", "/0/*", Multipath}

\* Children, in the order of their texts: H is no mark, and this ] ends no origin.
Children == <<"", "/0/*", "/0H/*", "/0]", "/1/*", Multipath>>

\* A mistyped extended key still looks like one; "zprv" stands for every
\* other version, "word" for a placeholder, "stray" for one with an [ inside.
Kinds == {"xpub", "xprv", "mistyped", "zprv", "wif", "hex", "word", "stray"}
Extended(word) == word.kind \in {"xpub", "xprv", "mistyped"}

\* Fault: a key inside a musig() is taken for any other.
CanonicalAnywhere(word, musig) ==
    IF word.is # "key" THEN word
    ELSE [word EXCEPT !.mark = "h", !.upper = FALSE,
                      !.children = IF Extended(word) /\ @ \in ReceiveChange THEN Multipath ELSE @]

CanonicalKey(word, musig) ==
    IF word.is # "key" THEN word
    ELSE [word EXCEPT !.mark = "h",
                      !.upper = FALSE,
                      !.children = IF Extended(word) /\ @ \in ReceiveChange /\ ~musig
                                   THEN Multipath ELSE @]

(* What the order of two arguments depends on, the most significant first: *)
(* what the text begins with, the origin, the key and the children.        *)
First == [hex |-> 0, number |-> 1, wif |-> 2, origin |-> 3, word |-> 4, stray |-> 5,
          call |-> 6, mistyped |-> 7, xprv |-> 8, xpub |-> 9, zprv |-> 10]
PlaceOf(children) == CHOOSE i \in DOMAIN Children : Children[i] = children

SortText(a) ==
    LET w == a.text[1]
    IN  IF a.is # "leaf" THEN <<First.call>>
        ELSE IF w.is = "number" THEN <<First.number, w.value>>
        ELSE IF w.is # "key" THEN <<First.word>>
        ELSE <<IF w.origin # 0 THEN First.origin ELSE First[w.kind],
               IF w.upper THEN 0 ELSE 1, w.origin, IF w.mark = "h" THEN 1 ELSE 0,
               First[w.kind], w.id, PlaceOf(w.children)>>

Before(a, b) ==
    LET s == SortText(a)
        t == SortText(b)
    IN  \E i \in 1 .. Min({Len(s), Len(t)}) : s[i] < t[i] /\ \A j \in 1 .. i - 1 : s[j] = t[j]

\* Fault: the threshold is sorted with the keys.
SortedWhole(args) == SortSeq(args, Before)

Sorted(args) == <<args[1]>> \o SortSeq(Tail(args), Before)

RECURSIVE Canonicalize(_, _)
Canonicalize(e, outer) ==
    LET musig == outer \/ Fragment(e) = "musig"
        Rewritten(a) == IF IsKey(e, a) THEN Leaf(<<CanonicalKey(a.text[1], musig)>>)
                        ELSE Canonicalize(a, musig)
        args == [j \in DOMAIN e.args |-> Rewritten(e.args[j])]
    IN  IF e.is = "leaf" THEN e
        ELSE [e EXCEPT !.args = IF Fragment(e) \in SortedNames THEN Sorted(args) ELSE args]

Refused(error) == [error |-> error, desc |-> <<>>]

CanonicalText(e) ==
    IF e.is # "call" THEN Refused("invalid")
    ELSE [error |-> "none", desc |-> Written(Canonicalize(e, FALSE))]

CanonicalOf(t) == IF t.sum = "wrong" THEN Refused("checksum") ELSE CanonicalText(Parse(t.tokens))

-----------------------------------------------------------------------------
(* quorum *)

RECURSIVE Calls(_)
Calls(e) ==
    IF e.is = "leaf" THEN <<>>
    ELSE FoldLeft(LAMBDA out, a : out \o Calls(a), <<e>>, e.args)

KeysOf(e) == SelectSeq(e.args, LAMBDA a : IsKey(e, a))

Multis(e) == SelectSeq(Calls(e), LAMBDA c : Fragment(c) \in MultiNames)

IsNumber(a) == a.is = "leaf" /\ a.text # <<>> /\ a.text[1].is = "number"

\* Fault: the keys outside the multi are not counted.
KeysOfMulti(e) == Len(KeysOf(Multis(e)[1]))

AllKeys(e) == FoldLeft(LAMBDA n, c : n + Len(KeysOf(c)), 0, Calls(e))

ThresholdOf(m) == m.args[1].text[1].value

QuorumIn(m, total) ==
    IF /\ IsNumber(m.args[1])
       /\ Len(KeysOf(m)) = Len(m.args) - 1 /\ Len(KeysOf(m)) = total
       /\ ThresholdOf(m) \in 1 .. total
    THEN [is |-> "quorum", k |-> ThresholdOf(m), keys |-> KeysOf(m)]
    ELSE Nothing

QuorumOf(e) ==
    IF e = Bad \/ Len(Multis(e)) # 1 THEN Nothing ELSE QuorumIn(Multis(e)[1], AllKeys(e))

Quorum(s) == QuorumOf(Parse(s))
=============================================================================
