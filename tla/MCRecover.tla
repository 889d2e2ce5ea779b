------------------------------ MODULE MCRecover ------------------------------
(***************************************************************************)
(* An instance of Recover.  MixedInputs are all short sequences over two   *)
(* wallets' sets, right shares of a set that holds text, faulty shares and *)
(* undecoded text; DisputeInputs give every set of shares of one wallet    *)
(* once, in a fixed order, which reaches more disputes and more choices.   *)
(***************************************************************************)
EXTENDS Recover

CONSTANTS MaxInput, MixedXs, w1, w2

MixedShares ==
    {sh \in Good : /\ sh.x \in MixedXs
                   /\ sh.text # w2
                   /\ sh.set \in Descriptors \/ sh.text = Right} \cup Faulty
MixedInputs == BoundedSeq(MixedShares \cup {Undecoded}, MaxInput)

TextOrder == <<w1, Right, w2>>
EveryText(s) ==
    [n \in 1 .. 3 * Max(Xs) |-> [set |-> s,
                                 x |-> (n + 2) \div 3,
                                 text |-> TextOrder[((n - 1) % 3) + 1],
                                 fault |-> "none"]]
DisputeInputs ==
    LET all == EveryText(CHOOSE s \in Descriptors : TRUE)
    IN  {SelectSeq(all, LAMBDA sh : sh \in S) : S \in SUBSET ToSet(all)}

AllInputs == MixedInputs \cup DisputeInputs

\* An -n below K, one below x, none with x in and past the wallet, one that holds.
ReplaceArgs == {[x |-> 1, n |-> 1], [x |-> 3, n |-> 2], [x |-> 3, n |-> 0],
                [x |-> 5, n |-> 0], [x |-> 3, n |-> 3]}
=============================================================================
