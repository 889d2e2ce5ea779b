------------------------------ MODULE TextForm ------------------------------
(***************************************************************************)
(* Finding shares in text that people type: Scan and cut (text.go, and     *)
(* scan in js/shaqr.js), and the warning of descbackup about base32 that   *)
(* is in no share (unprefixed).  A text is a sequence of characters, of    *)
(* which only the class matters: the prefix SHAQR: in either case, which   *)
(* counts as one character here, a base32 character, white space other     *)
(* than a line feed, a line feed, or any other character.                  *)
(* It grows by one character at a time, beside a reader that follows       *)
(* SPEC.md (Text form) without looking ahead or back.                      *)
(***************************************************************************)
EXTENDS Integers, Sequences, FiniteSets, FiniteSetsExt

CONSTANTS
    MaxText,   \* bound on the characters of a text
    MinRun     \* base32 characters in a row that look like a share, 16 in the code

ASSUME MaxTextAssumption == MaxText \in Nat
ASSUME MinRunAssumption == MinRun \in Nat \ {0}

Characters == {"prefix", "base32", "space", "feed", "other"}

VARIABLES
    text,      \* what was typed so far
    open,      \* where the reader's share begins, or 0 outside every share
    read       \* by the place of its prefix, the base32 characters of each
               \* share that the reader met

vars == <<text, open, read>>

Places == DOMAIN text
Feeds(from, to) == Cardinality({p \in from .. to : text[p] = "feed"})

-----------------------------------------------------------------------------
(* Scan *)

Starts == {p \in Places : text[p] = "prefix"}

\* Where the text of the share at p ends at the latest.
Limit(p) == Min({q \in Starts : q > p} \cup {Len(text) + 1})

\* Fault: a share runs on to the last character that may end it.
LastStop(p) == LET others == {q \in p + 1 .. Limit(p) - 1 : text[q] = "other"}
               IN  IF others = {} THEN Limit(p) ELSE Max(others)

\* Fault: the next prefix does not end a share.
StopPastPrefix(p) == Min({q \in p + 1 .. Len(text) : text[q] = "other"} \cup {Len(text) + 1})

\* cut: where it ends.
Stop(p) == Min({q \in p + 1 .. Limit(p) - 1 : text[q] = "other"} \cup {Limit(p)})

\* Fault: the line of the text where the share ends at the latest.
EndLineOfLimit(p) == 1 + Feeds(1, Limit(p) - 1)

Line(p) == 1 + Feeds(1, p - 1)
EndLine(p) == Line(p) + Feeds(p, Stop(p) - 1)

(* A share decodes when base32 can have that many characters.              *)
Found(p) == LET chars == {q \in p + 1 .. Stop(p) - 1 : text[q] = "base32"}
            IN  [chars |-> chars,
                 decodes |-> Cardinality(chars) % 8 \notin {1, 3, 6},
                 line |-> Line(p),
                 endLine |-> EndLine(p),
                 stopped |-> Stop(p) < Limit(p)]

-----------------------------------------------------------------------------
(* unprefixed *)

Lines == 1 .. Feeds(1, Len(text)) + 1
On(l) == {p \in Places : Line(p) = l /\ text[p] # "feed"}

Base32Line(l) ==
    /\ \A p \in On(l) : text[p] \in {"base32", "space"}
    /\ \E p \in On(l) : \A q \in p .. p + MinRun - 1 : q \in On(l) /\ text[q] = "base32"

Inside == UNION {Line(p) .. EndLine(p) : p \in Starts}

Warned == {l \in Lines \ Inside : Base32Line(l)}

-----------------------------------------------------------------------------
(* Typing, and the reader *)

Init == /\ text = <<>>
        /\ open = 0
        /\ read = [p \in {} |-> {}]

Type(c) ==
    LET here == Len(text) + 1
    IN  /\ Len(text) < MaxText
        /\ text' = Append(text, c)
        /\ open' = CASE c = "prefix" -> here
                     [] c = "other" -> 0
                     [] OTHER -> open
        /\ read' = [p \in DOMAIN read \cup (IF c = "prefix" THEN {here} ELSE {}) |->
                        IF p = here THEN {}
                        ELSE IF c = "base32" /\ p = open THEN read[p] \cup {here} ELSE read[p]]

Next == \E c \in Characters : Type(c)

Spec == Init /\ [][Next]_vars

-----------------------------------------------------------------------------
(* Properties *)

(* Scan, which looks for the prefixes first and then for the end of each   *)
(* share, finds the shares that SPEC.md describes, and gives no character  *)
(* to two of them or to none.                                              *)
ReadsAsTyped == [p \in Starts |-> Found(p).chars] = read

(* A line of base32 that looks like a share is in one whole, or descbackup *)
(* warns about it: no text that may be a share is lost without a word,     *)
(* and none that was read is warned about.  Lines that a share only begins *)
(* or ends on are the hard case.                                           *)
LostTextIsReported ==
    \A l \in Lines :
        Base32Line(l) =>
            \/ /\ l \notin Warned
               /\ \E p \in Starts : \A q \in On(l) : text[q] = "base32" => q \in Found(p).chars
            \/ /\ l \in Warned
               /\ \A p \in Starts : On(l) \cap Found(p).chars = {}

(* What is typed after a share that has ended changes nothing about it:    *)
(* its characters, its lines or whether it decodes.                        *)
EndedSharesStand ==
    [][\A p \in Starts : Stop(p) <= Len(text) => p \in Starts' /\ Found(p)' = Found(p)]_vars
=============================================================================
