------------------------------ MODULE Packing ------------------------------
(***************************************************************************)
(* The packed payload of a descriptor backup: Pack and Unpack              *)
(* (descriptor/pack.go, and pack and unpack in js/descriptor.js).          *)
(*                                                                         *)
(* A text is a sequence of items: a key origin, an extended key, a hex key *)
(* of 33 bytes, the children /<0;1>/*, or one other character, of which    *)
(* the class matters: base58 and hex ("both"), one of them, neither, or a  *)
(* character that no descriptor has ("bad").  A hex key ends in characters *)
(* of the class "both", an extended key in ones of "base58", and neither   *)
(* is what a row of characters spells.                                     *)
(* Packed bytes are a sequence of tokens; a character stands for itself.   *)
(* A path has n steps, all like its last one: its length, its last step    *)
(* and whether two paths are equal is all that the code looks at.          *)
(* The payload grows by one item, on its way through Pack, or by one token,*)
(* from whoever wrote it, on its way through Unpack.                       *)
(***************************************************************************)
EXTENDS Integers, Sequences

CONSTANTS
    Paths,      \* the paths of origins, [n : Nat, last : Steps]; Root when n = 0
    ExtendedKeys,       \* the extended keys, as items
    MaxItems,   \* bound on the items of a text
    MaxTokens   \* bound on the tokens of foreign bytes

\* Steps, which are numbers of one byte, with their characters.  As a child
\* number, "0" is also that of a path without steps.
Steps == {"0", "0h"}

\* A path has a number of steps, and a depth is a byte.
ASSUME PathsAssumption == Paths \subseteq [n : Nat, last : Steps]
ASSUME KeysAssumption ==
    ExtendedKeys \subseteq [is : {"key"}, known : BOOLEAN, depth : 0 .. 255, child : Steps]

StepChars == [s \in Steps |-> IF s = "0" THEN 2 ELSE 3]

Root == [n |-> 0, last |-> "0"]

Classes == {"both", "hex", "base58", "neither", "bad"}

Key(known, depth, child) ==
    [is |-> "key", known |-> known, depth |-> depth, child |-> child]

Items ==
    {[is |-> "char", class |-> c] : c \in Classes}
        \cup {[is |-> "origin", path |-> p] : p \in Paths}
        \cup ExtendedKeys
        \cup {[is |-> "hex"], [is |-> "children"]}

-----------------------------------------------------------------------------
(* Tokens *)

Spelled(item) == [is |-> "spelled", item |-> item]
OriginToken(path, padded) == [is |-> "origin", path |-> path, padded |-> padded]
Same == [is |-> "same"]
Implied == [is |-> "implied"]
Explicit(key) == [is |-> "explicit", depth |-> key.depth, child |-> key.child]
Generic(key) == [is |-> "generic", key |-> key]
HexToken == [is |-> "hex"]
ChildrenToken == [is |-> "children"]

\* An unused marker, a number of 2^32 or more, or a token cut short.
Broken == [is |-> "broken"]

\* Padded: one number of the token has a byte more than it needs.
Tokens ==
    {Spelled(i) : i \in Items}
        \cup {OriginToken(p, b) : p \in Paths, b \in BOOLEAN}
        \cup {Explicit(k) : k \in {x \in ExtendedKeys : x.known}}
        \cup {Generic(k) : k \in ExtendedKeys}
        \cup {Same, Implied, HexToken, ChildrenToken, Broken}

Chars(item) ==
    IF item.is = "origin" THEN 10 + item.path.n * StepChars[item.path.last]
    ELSE [char |-> 1, key |-> 111, hex |-> 66, children |-> 8][item.is]

OriginBytes(n) == 5 + (IF n < 128 THEN 1 ELSE 2) + n

Bytes(token) ==
    IF token.is = "spelled" THEN Chars(token.item)
    ELSE IF token.is = "origin"
    THEN OriginBytes(token.path.n) + (IF token.padded THEN 1 ELSE 0)
    ELSE [same |-> 5, implied |-> 69, explicit |-> 74, generic |-> 79,
          hex |-> 34, children |-> 1, broken |-> 1][token.is]

\* The sum of the first n sizes.
Total(sizes, n) ==
    LET sum[i \in 0 .. n] == IF i = 0 THEN 0 ELSE sum[i - 1] + sizes[i]
    IN  sum[n]

CharsIn(text) == Total([i \in DOMAIN text |-> Chars(text[i])], Len(text))
BytesIn(tokens) == Total([i \in DOMAIN tokens |-> Bytes(tokens[i])], Len(tokens))

LongestText(tokens) == 8 * BytesIn(tokens) + 64

TooLong(text, tokens) == CharsIn(text) > LongestText(tokens)

Readable(text) == \A i \in DOMAIN text : text[i] # [is |-> "char", class |-> "bad"]

-----------------------------------------------------------------------------
(* Pack *)

Base58(item) == item.is \in {"key", "hex"} \/ (item.is = "char" /\ item.class \in {"both", "base58"})
HexDigit(item) == item.is = "hex" \/ (item.is = "char" /\ item.class \in {"both", "hex"})

Neighbours(text, i) == {text[j] : j \in {i - 1, i + 1} \cap DOMAIN text}

\* A row of base58 or hex characters that is the item and nothing more.
MatchExtended(text, i) == text[i].is = "key" /\ \A n \in Neighbours(text, i) : ~Base58(n)
MatchHex(text, i) == text[i].is = "hex" /\ \A n \in Neighbours(text, i) : ~HexDigit(n)

\* implied: the origin gives the depth and the child number.
Gives(path, key) == key.depth = path.n /\ key.child = path.last

KeyToken(key, path, afterOrigin) ==
    IF ~key.known THEN Generic(key)
    ELSE IF afterOrigin /\ Gives(path, key) THEN Implied
    ELSE Explicit(key)

OriginOf(path, p) ==
    IF p.originEnd > 0 /\ path = p.path THEN Same ELSE OriginToken(path, FALSE)

\* Fault: any key behind an origin may be implied by it.
SomeOriginBefore(p, i) == p.originEnd > 0

\* Places count from 1, and originEnd is 0 before the first origin.
AfterOrigin(p, i) == p.originEnd = i

\* packer.next: the token of item i by the first rule that matches.
PackedAs(text, p, i) ==
    IF text[i].is = "origin" THEN OriginOf(text[i].path, p)
    ELSE IF MatchExtended(text, i) THEN KeyToken(text[i], p.path, AfterOrigin(p, i))
    ELSE IF MatchHex(text, i) THEN HexToken
    ELSE IF text[i].is = "children" THEN ChildrenToken
    ELSE Spelled(text[i])

PackNext(text, p, i) ==
    LET isOrigin == text[i].is = "origin"
    IN  [out |-> Append(p.out, PackedAs(text, p, i)),
         path |-> IF isOrigin THEN text[i].path ELSE p.path,
         originEnd |-> IF isOrigin THEN i + 1 ELSE p.originEnd]

PackStart == [out |-> <<>>, path |-> Root, originEnd |-> 0]

PackText(text) ==
    LET p[i \in 0 .. Len(text)] == IF i = 0 THEN PackStart ELSE PackNext(text, p[i - 1], i)
    IN  p[Len(text)].out

Refused(error) == [error |-> error, out |-> <<>>]
Given(out) == [error |-> "none", out |-> out]

\* Fault: no look at the length.
PackUnbounded(text) == IF Readable(text) THEN Given(PackText(text)) ELSE Refused("invalid")

Pack(text) ==
    LET packed == PackText(text)
    IN  IF ~Readable(text) THEN Refused("invalid")
        ELSE IF TooLong(text, packed) THEN Refused("too long")
        ELSE Given(packed)

-----------------------------------------------------------------------------
(* Unpack *)

\* The items of a token after what u has read: one, or none for an error.
Read(u, token) ==
    IF token.is = "spelled" THEN {token.item}
    ELSE IF token.is = "origin" THEN {[is |-> "origin", path |-> token.path]}
    ELSE IF token.is = "same" THEN {x \in {[is |-> "origin", path |-> u.path]} : u.haveOrigin}
    ELSE IF token.is = "implied"
    THEN {x \in {Key(TRUE, u.path.n, u.path.last)} : u.afterOrigin /\ u.path.n <= 255}
    ELSE IF token.is = "explicit" THEN {Key(TRUE, token.depth, token.child)}
    ELSE IF token.is = "generic" THEN {token.key}
    ELSE {x \in {[is |-> token.is]} : token.is \in {"hex", "children"}}

\* unpacker.next, and the look at the length behind it.
UnpackNext(tokens, u, token) ==
    IF u.error # "none" THEN u
    ELSE IF Read(u, token) = {} THEN [u EXCEPT !.error = "invalid"]
    ELSE LET item == CHOOSE i \in Read(u, token) : TRUE
             isOrigin == token.is \in {"origin", "same"}
             text == Append(u.out, item)
         IN  [out |-> text,
              path |-> IF isOrigin THEN item.path ELSE u.path,
              haveOrigin |-> u.haveOrigin \/ isOrigin,
              afterOrigin |-> isOrigin,
              error |-> IF TooLong(text, tokens) THEN "too long" ELSE "none"]

ReadStart ==
    [out |-> <<>>, path |-> Root, haveOrigin |-> FALSE, afterOrigin |-> FALSE, error |-> "none"]

ReadAll(tokens) ==
    LET u[i \in 0 .. Len(tokens)] ==
            IF i = 0 THEN ReadStart ELSE UnpackNext(tokens, u[i - 1], tokens[i])
    IN  u[Len(tokens)]

Unpack(tokens) ==
    LET u == ReadAll(tokens)
    IN  IF u.error # "none" THEN Refused(u.error)
        ELSE IF ~Readable(u.out) THEN Refused("invalid")
        ELSE IF PackText(u.out) # tokens THEN Refused("not packed")
        ELSE Given(u.out)

-----------------------------------------------------------------------------
(* The payload *)

VARIABLES
    made,      \* "text" of a sender or "tokens" of anyone
    payload    \* its items, or its tokens

payloadVars == <<made, payload>>

PayloadInit == made \in {"text", "tokens"} /\ payload = <<>>

AddItem == /\ made = "text"
           /\ Len(payload) < MaxItems
           /\ \E i \in Items : payload' = Append(payload, i)
           /\ UNCHANGED made

AddToken == /\ made = "tokens"
            /\ Len(payload) < MaxTokens
            /\ \E t \in Tokens : payload' = Append(payload, t)
            /\ UNCHANGED made

PayloadNext == AddItem \/ AddToken

PayloadSpec == PayloadInit /\ [][PayloadNext]_payloadVars

-----------------------------------------------------------------------------
(* Properties *)

(* What a sender packs, every receiver unpacks to the same text, and Pack  *)
(* refuses for its length exactly the texts whose bytes Unpack would       *)
(* refuse for theirs: no set of shares is cut from a wallet that nobody    *)
(* could read back.                                                        *)
RoundTrip ==
    made = "text" =>
        LET packed == Pack(payload)
        IN  /\ packed.error = "none" => Unpack(packed.out) = Given(payload)
            /\ packed.error = "too long" <=>
                   (Readable(payload) /\ Unpack(PackText(payload)).error = "too long")

\* The path of the last origin before token i, as a set of one path or none.
PathBefore(tokens, i) ==
    LET origins == {j \in 1 .. i - 1 : tokens[j].is = "origin"}
    IN  {tokens[j].path : j \in {x \in origins : \A y \in origins : y <= x}}

IsOrigin(tokens, i) == i \in DOMAIN tokens /\ tokens[i].is \in {"origin", "same"}

\* A character of one of the classes, or one of the other tokens, is right
\* beside token i, also where that is spelled out.
Touches(tokens, i, classes, others) ==
    \E j \in {i - 1, i + 1} \cap DOMAIN tokens :
        \/ tokens[j].is \in others
        \/ /\ tokens[j].is = "spelled"
           /\ \/ tokens[j].item.is \in others
              \/ /\ tokens[j].item.is = "char"
                 /\ tokens[j].item.class \in classes

TouchesBase58(tokens, i) ==
    Touches(tokens, i, {"both", "base58"}, {"key", "implied", "explicit", "generic", "hex"})
TouchesHex(tokens, i) == Touches(tokens, i, {"both", "hex"}, {"hex"})

(* The form that DESCRIPTOR.md (Packed payload) gives every part of a      *)
(* text, told from the tokens alone.                                       *)
InPackedForm(tokens, i) ==
    LET t == tokens[i]
    IN  \/ t.is = "origin" /\ ~t.padded /\ t.path \notin PathBefore(tokens, i)
        \/ t.is = "same" /\ PathBefore(tokens, i) # {}
        \/ /\ t.is = "implied"
           /\ IsOrigin(tokens, i - 1)
           /\ \A p \in PathBefore(tokens, i) : p.n <= 255
           /\ ~TouchesBase58(tokens, i)
        \/ /\ t.is = "explicit"
           /\ IsOrigin(tokens, i - 1) =>
                  [n |-> t.depth, last |-> t.child] \notin PathBefore(tokens, i)
           /\ ~TouchesBase58(tokens, i)
        \/ t.is = "generic" /\ ~t.key.known /\ ~TouchesBase58(tokens, i)
        \/ t.is = "hex" /\ ~TouchesHex(tokens, i)
        \/ t.is = "children"
        \/ /\ t.is = "spelled"
           /\ \/ t.item.is = "char" /\ t.item.class # "bad"
              \/ t.item.is = "key" /\ TouchesBase58(tokens, i)
              \/ t.item.is = "hex" /\ TouchesHex(tokens, i)

(* Whatever bytes a receiver is given, those it takes are the ones that    *)
(* DESCRIPTOR.md writes for a text: a payload has one packed form, so that *)
(* two tools cut the same set of shares from one wallet.                   *)
OnePackedForm ==
    made = "tokens" =>
        (Unpack(payload).error = "none" <=>
            /\ \A i \in DOMAIN payload : InPackedForm(payload, i)
            /\ Unpack(payload).error # "too long")
=============================================================================
