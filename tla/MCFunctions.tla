---------------------------- MODULE MCFunctions ----------------------------
(***************************************************************************)
(* The functions of the program that keep no state, in one instance: a     *)
(* behaviour feeds one subject with larger and larger inputs, or computes  *)
(* one split step by step, and the other subjects stay at their first      *)
(* input.  They share no state.                                            *)
(***************************************************************************)
EXTENDS TextForm, Packing, PrivateKeys, Splitter

CONSTANTS MaxDepth, MaxN, MaxShare, MaxTyped, MaxExports, MaxPoints,
          FirstChars, MaxChars

VARIABLES subject, desc, last, exports, xs, chars

Path(n, last1) == [n |-> n, last |-> last1]

(* Three origins with 170 steps are as long as a payload may unpack to,    *)
(* and with 171 they are over; 256 steps are more than a depth can say.    *)
SomePaths == {Path(0, "0"), Path(1, "0"), Path(1, "0h"), Path(2, "0h"),
              Path(170, "0h"), Path(171, "0h"), Path(256, "0h")}

SomeKeys == {[is |-> "key", known |-> k, depth |-> p.n, child |-> p.last] :
                k \in BOOLEAN, p \in {Path(0, "0"), Path(1, "0h"), Path(2, "0h")}}

\* 0, 1, 2, 3, 128 and 255.
Edges == {{}, {0}, {1}, {0, 1}, {7}, 0 .. 7}

Texts == INSTANCE MCWallets
Exported == INSTANCE Exports WITH Wallets <- Texts!SomeWallets
Gf256 == INSTANCE Field
Card == INSTANCE Cards

Subjects == {"text", "payload", "wallet", "keys", "field", "card", "split"}

walletVars == <<desc, last, exports>>

\* The request of the behaviours that split nothing.
NoRequest == [k |-> 0, n |-> 0, open |-> FALSE, derived |-> FALSE, len |-> 0, minLen |-> 0,
              source |-> "drawn", secure |-> TRUE]

FunctionsInit ==
    /\ subject \in Subjects
    /\ Init /\ PayloadInit /\ Exported!Init /\ PiecesInit /\ Gf256!Init /\ Card!Init /\ SplitInit
    /\ subject # "payload" => made = "text"
    /\ subject # "split" => req = NoRequest

FunctionsNext ==
    \/ /\ subject = "text" /\ Next
       /\ UNCHANGED <<subject, payloadVars, walletVars, pieces, xs, chars, splitVars>>
    \/ /\ subject = "payload" /\ PayloadNext
       /\ UNCHANGED <<subject, vars, walletVars, pieces, xs, chars, splitVars>>
    \/ /\ subject = "wallet" /\ Exported!Next
       /\ UNCHANGED <<subject, vars, payloadVars, pieces, xs, chars, splitVars>>
    \/ /\ subject = "keys" /\ AddPiece
       /\ UNCHANGED <<subject, vars, payloadVars, walletVars, xs, chars, splitVars>>
    \/ /\ subject = "field" /\ Gf256!Next
       /\ UNCHANGED <<subject, vars, payloadVars, walletVars, pieces, chars, splitVars>>
    \/ /\ subject = "card" /\ Card!Next
       /\ UNCHANGED <<subject, vars, payloadVars, walletVars, pieces, xs, splitVars>>
    \/ /\ subject = "split" /\ SplitNext
       /\ UNCHANGED <<subject, vars, payloadVars, walletVars, pieces, xs, chars>>

FunctionsSpec ==
    FunctionsInit
    /\ [][FunctionsNext]_<<subject, vars, payloadVars, walletVars, pieces, xs, chars, splitVars>>

(* Two exports of one wallet give one text (Exports).                      *)
OneTextPerWallet == Exported!OneTextPerWallet

(* The scanner takes the texts of the grammar and no others (Exports).     *)
ScansItsGrammar == subject = "wallet" => Exported!ScansItsGrammar

(* No smaller group of keys than the quorum can spend (Exports).           *)
GroupsHoldQuorum == subject = "wallet" => Exported!GroupsHoldQuorum

(* The canonical form of a canonical text is that text (Exports).          *)
CanonicalStands == subject = "wallet" => Exported!CanonicalStands

(* The page and the command cut the same set of one wallet (Exports).      *)
SamePlates == subject = "wallet" => Exported!SamePlates

(* Interpolation gives back every polynomial (Field).                      *)
InterpolatesExactly == subject = "field" => Gf256!InterpolatesExactly

(* Text and QR code of a card stay apart (Cards).                          *)
CardIsReadable == subject = "card" => Card!CardIsReadable
=============================================================================
