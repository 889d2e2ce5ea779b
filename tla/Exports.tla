------------------------------ MODULE Exports ------------------------------
(***************************************************************************)
(* The texts that a wallet comes in, and what the tools make of them       *)
(* (Canonical, SplitPlan).  A text is a wallet as some program exports it: *)
(* another program writes it in another way (Reexport), someone alters a   *)
(* word (Alter); or it is any row of tokens (Type).                        *)
(***************************************************************************)
EXTENDS SplitPlan

CONSTANTS
    MaxTyped,   \* bound on the tokens of a text that is typed
    MaxExports, \* bound on the texts of one wallet after one another
    Wallets     \* the texts of wallets, as sequences of tokens

VARIABLES
    desc,   \* its tokens, and its checksum: "none", "right" or "wrong"
    last,   \* what was done to it last
    exports \* how often the wallet was exported

vars == <<desc, last, exports>>

Init == desc = [tokens |-> <<>>, sum |-> "none"] /\ last = "begin" /\ exports = 0

\* Brackets that do not nest are not mended by more tokens.
Type(token) ==
    /\ last \in {"begin", "type"}
    /\ Len(desc.tokens) < MaxTyped
    /\ ~Brackets(desc.tokens).error
    /\ desc.tokens # <<>> /\ ~Structure(token) => Structure(Last(desc.tokens))
    /\ desc' = [desc EXCEPT !.tokens = Append(@, token)]
    /\ last' = "type"
    /\ UNCHANGED exports

Choose(wallet) ==
    /\ last = "begin"
    /\ desc' = [tokens |-> wallet, sum |-> "none"]
    /\ last' = "export"
    /\ exports' = 1

Is(i, kind) == desc.tokens[i].is = kind
Count(kinds, from, to) == Cardinality({i \in from .. to : desc.tokens[i].is \in kinds})

\* The brackets that token i stands in, and the name of the innermost one.
Around(i) ==
    {o \in 1 .. i - 1 : \A j \in o .. i - 1 : Count({"(", "{"}, o, j) > Count({")", "}"}, o, j)}
NameOf(o) == IF Is(o, "(") THEN desc.tokens[o - 1].name ELSE "{"
Inner(i) == Max(Around(i))
InMusig(i) == \E o \in Around(i) : NameOf(o) = "musig"

Keys == {i \in DOMAIN desc.tokens : Is(i, "key") /\ NameOf(Inner(i)) \notin NotKeys}
Hashes == {i \in DOMAIN desc.tokens : Is(i, "key") /\ NameOf(Inner(i)) \in NotKeys}

\* What follows a call, such as the children of a musig.
Behind == {i \in DOMAIN desc.tokens \ {1} : Is(i - 1, ")")}

Put(i, word) == [desc.tokens EXCEPT ![i] = word]
Swapped(i, j) == [desc.tokens EXCEPT ![i] = desc.tokens[j], ![j] = desc.tokens[i]]

Writes(tokens, sum) ==
    /\ last \in {"export", "reexport"} /\ exports < MaxExports
    /\ desc' = [tokens |-> tokens, sum |-> sum]
    /\ last' = "reexport"
    /\ exports' = exports + 1

\* A key with the other mark, or in the other case.
Respelled(i) ==
    LET w == desc.tokens[i]
    IN  {x \in {[w EXCEPT !.mark = IF @ = "h" THEN "'" ELSE "h"], [w EXCEPT !.upper = ~@]} :
            w.origin # 0 \/ (w.kind = "hex" /\ x.mark = w.mark)}

Reexport ==
    \/ \E i \in Keys : \E word \in Respelled(i) : Writes(Put(i, word), "none")
    \/ \E i \in Keys : \E c \in ReceiveChange :
          /\ Extended(desc.tokens[i]) /\ desc.tokens[i].children \in ReceiveChange /\ ~InMusig(i)
          /\ Writes(Put(i, [desc.tokens[i] EXCEPT !.children = c]), "none")
    \/ \E i, j \in Keys :
          /\ i < j /\ Inner(i) = Inner(j) /\ NameOf(Inner(i)) \in SortedNames
          /\ Writes(Swapped(i, j), "none")
    \/ Writes(desc.tokens, "right")

Edit(tokens) ==
    /\ last \in {"export", "reexport"}
    /\ desc' = [tokens |-> tokens, sum |-> IF desc.sum = "right" THEN "wrong" ELSE "none"]
    /\ last' = "edit"
    /\ UNCHANGED exports

Id(i) == desc.tokens[i].id

Alter ==
    \/ \E i \in Keys \cup Hashes : Edit(Put(i, [desc.tokens[i] EXCEPT !.id = @ + 1]))
    \/ \E i \in Hashes : Edit(Put(i, [desc.tokens[i] EXCEPT !.upper = ~@]))
    \/ \E i \in Keys : \E c \in Range(Children) :
          /\ c # desc.tokens[i].children
          /\ InMusig(i) \/ ~Extended(desc.tokens[i]) \/ c \notin ReceiveChange
          /\ Edit(Put(i, [desc.tokens[i] EXCEPT !.children = c]))
    \/ \E i, j \in Keys :
          /\ i < j /\ Inner(i) = Inner(j) /\ NameOf(Inner(i)) \notin SortedNames /\ Id(i) # Id(j)
          /\ Edit(Swapped(i, j))
    \/ \E i \in Keys : \E o \in {BadStep, BadFingerprint} \ {desc.tokens[i].origin} :
          desc.tokens[i].origin # 0 /\ Edit(Put(i, [desc.tokens[i] EXCEPT !.origin = o]))
    \/ \E i \in Behind :
          Is(i, "name") /\ desc.tokens[i].name # "/0H/*" /\ Edit(Put(i, Name("/0H/*")))
    \/ \E i \in DOMAIN desc.tokens :
          Is(i, "number") /\ Edit(Put(i, Number(desc.tokens[i].value + 1)))

Next == \/ \E token \in {Name("wsh")} \cup {T(c) : c \in {"(", ")", "{", "}", ","}} : Type(token)
        \/ \E wallet \in Wallets : Choose(wallet)
        \/ Reexport \/ Alter

Spec == Init /\ [][Next]_vars

-----------------------------------------------------------------------------
(* Properties *)

(* Two exports of one wallet give one canonical text, whatever the program *)
(* that wrote them: the key order of a sortedmulti, ' or h, the case of    *)
(* hex and the three spellings of the children make no difference.  A      *)
(* wallet that differs in anything else gives another text, or an error    *)
(* if a checksum tells.                                                    *)
OneTextPerWallet ==
    [][/\ last' = "reexport" => CanonicalOf(desc') = CanonicalOf(desc)
       /\ last' = "edit" => IF desc.sum = "right" THEN CanonicalOf(desc').error = "checksum"
                            ELSE CanonicalOf(desc').desc # CanonicalOf(desc).desc]_vars

(* The grammar of DESCRIPTOR.md (Canonical form) over tokens lo to hi: an  *)
(* argument is a leaf, a call or a tap tree; arguments have commas between *)
(* them.                                                                   *)
Grammar(s) ==
    LET places == (1 .. Len(s) + 1) \X (0 .. Len(s))
        Word(lo, hi) == lo = hi /\ ~Structure(s[lo])
        Text(lo, hi) == lo > hi \/ Word(lo, hi)
        arg[p \in places \X BOOLEAN] ==
            LET lo == p[1][1]
                hi == p[1][2]
            IN  IF p[2]     \* several arguments
                THEN \/ arg[<<p[1], FALSE>>]
                     \/ \E c \in lo .. hi : /\ s[c].is = ","
                                            /\ arg[<<<<lo, c - 1>>, FALSE>>]
                                            /\ arg[<<<<c + 1, hi>>, TRUE>>]
                ELSE \/ Text(lo, hi)
                     \/ /\ lo < hi /\ s[lo].is = "{" /\ s[hi].is = "}"
                        /\ arg[<<<<lo + 1, hi - 1>>, TRUE>>]
                     \/ /\ hi > lo + 1 /\ Word(lo, lo) /\ s[lo + 1].is = "("
                        /\ \E c \in lo + 2 .. hi : /\ s[c].is = ")"
                                                   /\ arg[<<<<lo + 2, c - 1>>, TRUE>>]
                                                   /\ Text(c + 1, hi)
    IN  arg[<<<<1, Len(s)>>, FALSE>>]

Depth(s) == Max({0} \cup {Count({"(", "{"}, 1, i) - Count({")", "}"}, 1, i) : i \in DOMAIN s})

(* The scanner takes the texts of that grammar, up to the depth it allows, *)
(* and no others, and what it prints again is what it read.                *)
ScansItsGrammar ==
    last = "type" =>
        /\ Parse(desc.tokens) # Bad <=> Grammar(desc.tokens) /\ Depth(desc.tokens) <= MaxDepth
        /\ Parse(desc.tokens) # Bad => Written(Parse(desc.tokens)) = desc.tokens

\* The least number of keys that satisfies an expression.
RECURSIVE KeysNeeded(_)
KeysNeeded(e) ==
    LET need == [j \in DOMAIN e.args |-> KeysNeeded(e.args[j])]
        Sum(J) == FoldSet(LAMBDA j, n : need[j] + n, 0, J)
        Rest == 2 .. Len(e.args)
    IN  IF e.is = "leaf" THEN 1
        ELSE IF e.is = "tree" \/ Fragment(e) = "tr" THEN Min({need[j] : j \in DOMAIN need})
        ELSE IF Fragment(e) \in MultiNames
        THEN Min({Sum(J) : J \in kSubset(e.args[1].text[1].value, Rest)})
        ELSE IF Fragment(e) \in NotKeys THEN 0
        ELSE Sum(DOMAIN need)

(* Where the quorum is read from the descriptor, no smaller group of keys  *)
(* can spend, on any path, and n counts every key: who can sign can gather *)
(* enough plates, with a plate for each cosigner.                          *)
GroupsHoldQuorum ==
    last \in {"export", "reexport", "edit"} =>
        \A q \in {Quorum(desc.tokens)} \ {Nothing} :
            /\ q.k = KeysNeeded(Parse(desc.tokens))
            /\ Len(q.keys) = Cardinality(Keys)

(* The canonical form of a canonical text is that text, as a receiver      *)
(* checks, and it gives the quorum of every export.                        *)
CanonicalStands ==
    \A c \in {CanonicalOf(desc)} : c.error = "none" =>
        /\ CanonicalOf([tokens |-> c.desc, sum |-> "right"]) = c
        /\ \A q \in {Quorum(desc.tokens)}, qc \in {Quorum(c.desc)} :
              \/ q = Nothing /\ qc = Nothing
              \/ q # Nothing /\ qc # Nothing /\ q.k = qc.k /\ Len(q.keys) = Len(qc.keys)

\* What the two tools make of the text, with what was picked or by default.
ByPage(c, pick, open) == RunSplit(desc, c, pick, [k |-> 2, n |-> 3], open)
ByCommand(c, pick, open) ==
    IF pick = Nothing THEN SplitCmd(c, 0, 0, open) ELSE SplitCmd(c, pick.k, pick.n, open)

(* One wallet, one set: where the page cuts a set of a descriptor, or      *)
(* would if its shares fitted a QR code, the command cuts the same one,    *)
(* without flags or with the ones that were picked, unless it refuses for  *)
(* an origin, a path or a bracket, at which the page does not look         *)
(* (SamePlatesInAnyTool).  Where only the command does, a key is not one   *)
(* that the page takes for real, and the page splits the descriptor as     *)
(* text.  Where the page stops, the command makes no set by default        *)
(* either, and it prints the plain descriptor if k is 1, unless it refuses *)
(* for a key.  No open set, of either tool, holds a private key or one     *)
(* that looks like it.                                                     *)
SamePlates ==
    \A c \in {CanonicalOf(desc)}, open \in BOOLEAN, pick \in Quorums \cup {Nothing} :
        \A page \in {ByPage(c, pick, open)}, cmd \in {ByCommand(c, pick, open)} :
            /\ page.is \in {"set", "long"} /\ page.type = "D" =>
                   cmd = IF CheckKeys(c.desc) THEN [page EXCEPT !.is = "set"] ELSE Refuses
            /\ pick = Nothing /\ cmd.is = "set" =>
                   /\ page.is \in {"set", "long"}
                   /\ page.type = "U" => /\ page.payload = desc
                                         /\ \E word \in Words(desc.tokens) : ~RealKey(word)
            /\ pick = Nothing /\ page.is = "stop" =>
                   \/ cmd = Refuses
                   \/ page.k = 1 /\ cmd = [is |-> "plain"] @@ [k |-> 1, n |-> page.n]
            /\ open /\ "set" \in {page.is, cmd.is} => ~HoldsPrivateKey(desc.tokens)

(* "The same wallet and k always cut the same plates, in any tool": where  *)
(* the page cuts a set of a descriptor, the command cuts that set too.     *)
SamePlatesInAnyTool ==
    \A c \in {CanonicalOf(desc)}, open \in BOOLEAN, pick \in Quorums \cup {Nothing} :
        \A page \in {ByPage(c, pick, open)} :
            page.is = "set" /\ page.type = "D" => ByCommand(c, pick, open) = page
=============================================================================
