---------------------------- MODULE PrivateKeys ----------------------------
(***************************************************************************)
(* The search for private keys in what is to be split in the open:         *)
(* holdsPrivateKey of the web page (site/app.js), and private of           *)
(* descbackup (cmd/descbackup/main.go), which looks at descriptors only.   *)
(*                                                                         *)
(* A text is a row of pieces: private keys, which may be wrapped over two  *)
(* lines, and single characters between, before and after them.  A WIF key *)
(* is uncompressed ("wif") or compressed ("wifc"); an extended key has the *)
(* letters prv, passes its check ("xprv") or not ("typo"), or has some     *)
(* other version ("odd").  No other row of characters passes a base58check.*)
(* Lengths are scaled: 2 stands for the 50 characters of a run that is     *)
(* looked at, 3 and 4 for the 51 and 52 of a WIF key, 5 for the 100 of a   *)
(* key that looks private, 6 for the 111 of an extended key and 7 for the  *)
(* 112 that no private key exceeds.                                        *)
(***************************************************************************)
EXTENDS Integers, Sequences, FiniteSetsExt

CONSTANT MaxPieces   \* bound on the pieces of a text

Kinds == {"wif", "wifc", "xprv", "typo", "odd"}
Wif == {"wif", "wifc"}
Prv == {"xprv", "typo"}
KeyLength(kind) == IF kind = "wif" THEN 3 ELSE IF kind = "wifc" THEN 4 ELSE 6

Char(is) == [is |-> is, kind |-> "none", at |-> 0, piece |-> 0]
KeyChar(kind, j, p) == [is |-> "base58", kind |-> kind, at |-> j, piece |-> p]

\* The characters of a key, with a line break after the first w of them.
KeyChars(kind, w, p) ==
    [i \in 1 .. KeyLength(kind) + (IF w = 0 THEN 0 ELSE 1) |->
        IF w = 0 \/ i <= w THEN KeyChar(kind, i, p)
        ELSE IF i = w + 1 THEN Char("space") ELSE KeyChar(kind, i - 1, p)]

PieceChars(piece, p) ==
    IF piece.is = "key" THEN KeyChars(piece.kind, piece.wrap, p) ELSE <<Char(piece.is)>>

CharsOf(pieces) ==
    LET chars[p \in 0 .. Len(pieces)] ==
            IF p = 0 THEN <<>> ELSE chars[p - 1] \o PieceChars(pieces[p], p)
    IN  chars[Len(pieces)]

\* What is left of t without its white space.
Bare(t) ==
    LET left[i \in 0 .. Len(t)] ==
            IF i = 0 THEN <<>>
            ELSE IF t[i].is = "space" THEN left[i - 1] ELSE Append(left[i - 1], t[i])
    IN  left[Len(t)]

-----------------------------------------------------------------------------

\* s begins with the first count characters of a key.
Begins(s, count) ==
    /\ Len(s) >= count
    /\ s[1].at = 1
    /\ \A j \in 1 .. count : s[j].at = j /\ s[j].piece = s[1].piece

IsPrivate(s) ==
    /\ Len(s) <= 7 /\ s[1].kind \in Kinds \ {"typo"}
    /\ Len(s) = KeyLength(s[1].kind) /\ Begins(s, Len(s))

LooksPrivate(s) == Len(s) >= 5 /\ s[1].kind \in Prv /\ Begins(s, 4)

From(run, i) == SubSeq(run, i, Len(run))

\* The characters from a to b of t are base58, and the ones beside them not.
RunAt(t, a, b) ==
    /\ a \in DOMAIN t /\ b \in DOMAIN t /\ a < b
    /\ \A i \in a .. b : t[i].is = "base58"
    /\ a = 1 \/ t[a - 1].is # "base58"
    /\ b = Len(t) \/ t[b + 1].is # "base58"

Runs(t) == {SubSeq(t, p[1], p[2]) : p \in {q \in (DOMAIN t) \X (DOMAIN t) : RunAt(t, q[1], q[2])}}

\* Fault: the last place that is looked at is one too early.
KeyPlacesShort(run) == 2 .. Len(run) - 3

\* The places of a run, past its first, where an uncompressed WIF key fits.
KeyPlaces(run) == 2 .. Len(run) - 2

HoldsIn(t, isDescriptor) ==
    \E run \in Runs(t) :
        \/ LooksPrivate(run) \/ IsPrivate(run)
        \/ ~isDescriptor /\ \E i \in KeyPlaces(run) :
               \/ LooksPrivate(From(run, i))
               \/ \E kind \in Wif : /\ i + KeyLength(kind) - 1 <= Len(run)
                                   /\ run[i].kind \in Wif
                                   /\ IsPrivate(SubSeq(run, i, i + KeyLength(kind) - 1))

HoldsPrivateKey(t, isDescriptor) ==
    HoldsIn(t, isDescriptor) \/ (~isDescriptor /\ HoldsIn(Bare(t), FALSE))

(* private of descbackup, of a descriptor in canonical form: a leaf is     *)
(* what stands between two characters of another kind.                     *)
PrivateLeaf(t) ==
    \E leaf \in Runs(t) : IsPrivate(leaf) \/ (leaf[1].kind \in Prv /\ Begins(leaf, 4))

-----------------------------------------------------------------------------
(* The text *)

VARIABLE pieces

KeyPiece(kind, wrap) == [is |-> "key", kind |-> kind, wrap |-> wrap]
CharPiece(is) == [is |-> is]

PiecesInit == pieces = <<>>

AddPiece ==
    /\ Len(pieces) < MaxPieces
    /\ \/ \E kind \in Kinds, wrap \in 0 .. 1 : pieces' = Append(pieces, KeyPiece(kind, wrap))
       \/ \E is \in {"base58", "space", "other"} : pieces' = Append(pieces, CharPiece(is))

PiecesSpec == PiecesInit /\ [][AddPiece]_pieces

-----------------------------------------------------------------------------
(* Properties *)

Text == CharsOf(pieces)
KeyPieces == {p \in DOMAIN pieces : pieces[p].is = "key"}

\* Where piece p is in t, and what is right before and after it there.
Place(t, p) == {i \in DOMAIN t : t[i].piece = p}
TouchedBefore(t, p) == Min(Place(t, p)) > 1 /\ t[Min(Place(t, p)) - 1].is = "base58"
TouchedAfter(t, p) == Max(Place(t, p)) < Len(t) /\ t[Max(Place(t, p)) + 1].is = "base58"
Whole(t, p) == Max(Place(t, p)) - Min(Place(t, p)) + 1 = KeyLength(pieces[p].kind)
Alone(t, p) == Whole(t, p) /\ ~TouchedBefore(t, p) /\ ~TouchedAfter(t, p)

(* However a text wraps its keys and whatever they run on into, one with   *)
(* the letters prv is found, mistyped or not; a WIF key is found if it     *)
(* stands alone or does not begin its row of base58, and any other         *)
(* extended key if it stands alone; and nothing else is taken for a key.   *)
(* In a descriptor, whose white space is deleted, the page and the command *)
(* tell the same keys, so that neither shows what the other one hides.     *)
KeysFound ==
    /\ HoldsPrivateKey(Text, FALSE) <=>
           \E p \in KeyPieces :
               \/ pieces[p].kind \in Prv
               \/ \E t \in {Text, Bare(Text)} :
                     \/ Alone(t, p)
                     \/ pieces[p].kind \in Wif /\ Whole(t, p) /\ TouchedBefore(t, p)
    /\ HoldsPrivateKey(Bare(Text), TRUE) <=> PrivateLeaf(Bare(Text))

(* app.js:403: for text it looks "at every place in a run where a private  *)
(* key can start: a letter and "prv", or the 5, K, L, 9 or c of a WIF key".*)
EveryWifFound ==
    (\E p \in KeyPieces : pieces[p].kind \in Wif) => HoldsPrivateKey(Text, FALSE)
=============================================================================
