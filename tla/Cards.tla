------------------------------- MODULE Cards -------------------------------
(***************************************************************************)
(* The 85 x 55 mm card of a plate (site/cards.js): layout and the labels.  *)
(* The share grows by one character at a time.  Lengths are in units of    *)
(* 0.05 mm, the step in which the text shrinks, and areas of text in their *)
(* hundredths where LINE_H asks for it.  The glyphs and the QR code are    *)
(* vendored: DejaVu Sans Mono at 2048 units to the em, 1233 wide and 1493  *)
(* high, and the characters that a code of each version holds.             *)
(***************************************************************************)
EXTENDS Integers, Sequences, FiniteSetsExt

CONSTANTS
    FirstChars,   \* characters of the shortest share that is laid out
    MaxChars      \* bound on the characters of a share

MM == 20
CardW == 85 * MM
CardH == 55 * MM
Margin == 3 * MM
Quiet == 4
ModuleMax == 12
HeadMM == 56
FootMM == 46
BodyMax == 56
BodyMin == 28
LineH == 116     \* hundredths of the text size
QrGap == 30

Em == 2048
Advance == 1233
CapHeight == 1493

Body == CardH - Margin - FootMM - 32 - (Margin + HeadMM + 40)

\* Alphanumeric characters at error correction L, by version.
Capacity == <<25, 47, 77, 114, 154, 195, 224, 279, 335, 395, 468, 535, 619, 667, 758, 854,
              938, 1046, 1153, 1249>>

VARIABLE chars   \* characters of the share, with its prefix

Init == chars = FirstChars

Next == chars < MaxChars /\ chars' = chars + 1

Spec == Init /\ [][Next]_chars

-----------------------------------------------------------------------------
(* layout *)

Size == 17 + 4 * Min({v \in DOMAIN Capacity : chars <= Capacity[v]})

\* The side of the code with its quiet zone: its module is at most ModuleMax.
QrBox == Min({ModuleMax * (Size + 2 * Quiet), Body})
QrX == CardW - Margin - QrBox

Fitting(room, mm) == (room * Em) \div (Advance * mm)

Beside(mm) == Fitting(QrX - Margin - QrGap, mm)
Full(mm) == Fitting(CardW - 2 * Margin, mm)

\* Fault: the text returns to the full width a line early.
QrLinesShort(mm) == (QrBox * 100) \div (LineH * mm) - 1

QrLines(mm) == (QrBox * 100) \div (LineH * mm)

\* wrap: how many lines the text has.
Lines(mm) ==
    LET over == chars - Beside(mm) * QrLines(mm)
        Cuts(length, width) == (length + width - 1) \div width
    IN  IF over <= 0 THEN Cuts(chars, Beside(mm)) ELSE QrLines(mm) + Cuts(over, Full(mm))

Fits(mm) == Lines(mm) * LineH * mm <= Body * 100

Sizes == {mm \in BodyMin .. BodyMax : Fits(mm)}

\* The text size, of a share that fits the card.
TextSize == Max(Sizes)

-----------------------------------------------------------------------------
(* Properties *)

\* Hundredths from the top of the body to the top of the letters of line i.
LetterTop(i) == (i - 1) * LineH * TextSize + (100 * TextSize * (Em - CapHeight)) \div Em

(* A share whose text fits a card can be read from it both ways: no line   *)
(* beside the QR code runs into its gap, no letter below it stands over a  *)
(* module of it, and SHAQR: is on one line.                                *)
CardIsReadable ==
    Sizes # {} =>
        /\ Beside(TextSize) * Advance * TextSize <= (QrX - Margin - QrGap) * Em
        /\ Beside(TextSize) >= 6
        /\ Lines(TextSize) > QrLines(TextSize) =>
               LetterTop(QrLines(TextSize) + 1) * (Size + 2 * Quiet) >= 100 * QrBox * (Size + Quiet)
=============================================================================
