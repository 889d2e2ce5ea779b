----------------------------- MODULE MCSplitPage -----------------------------
(***************************************************************************)
(* Instances of SplitPage.  d23 is a descriptor of a 2-of-3 wallet, d11    *)
(* one of a 1-of-1 wallet, dbad one with a mistyped key, dprv one with a   *)
(* private key, note a long text, bad a descriptor whose checksum fails.   *)
(***************************************************************************)
EXTENDS SplitPage, Sequences

CONSTANTS empty, d23, d11, dbad, dprv, note, bad

MaxDepth == 3
MaxShare == 5
Plan == INSTANCE SplitPlan
W == INSTANCE MCWallets

Typed(tokens, sum) == [tokens |-> tokens, sum |-> sum]
Of(keys) == W!Multi("multi", IF Len(keys) > 1 THEN 2 ELSE 1, keys)
ThreeKeys == <<W!Xpub(1), W!Bare, W!Change>>

Typing ==
    [t \in Texts |->
        CASE t = empty -> Typed(<<>>, "none")
          [] t = d23 -> Typed(Of(ThreeKeys), "right")
          [] t = d11 -> Typed(Of(<<W!Bare>>), "none")
          [] t = dbad -> Typed(Of(<<W!Mistyped, W!Xpub(1), W!Bare>>), "none")
          [] t = dprv -> Typed(Of(<<W!Xprv, W!Xpub(1), W!Bare>>), "right")
          [] t = note -> Typed([i \in 1 .. 2 * MaxShare + 1 |-> W!Name("note")], "none")
          [] t = bad -> Typed(Of(ThreeKeys), "wrong")]

Planned(t) == Plan!PlanFor(Typing[t], Plan!CanonicalOf(Typing[t]), Plan!Nothing, [k |-> 2, n |-> 3])

Kinds ==
    [t \in Texts |-> CASE t = empty -> "empty"
                       [] t = bad -> "error"
                       [] t = note -> "text"
                       [] OTHER -> "descriptor"]
Wallets ==
    [t \in {t \in Texts : Kinds[t] = "descriptor"} |->
        IF t = d11 THEN [k |-> 1, n |-> 1] ELSE [k |-> 2, n |-> 3]]
LongPairs == {<<note, 2>>}

\* Those are what planFor, the checks of keys and the look at the QR code make of
\* the texts.
ASSUME PlanAssumption ==
    \A t \in Texts :
        LET plan == Planned(t)
        IN  /\ Kinds[t] = "descriptor" =>
                   /\ plan.is = "stop" \/ plan.type = "D"
                   /\ [k |-> plan.k, n |-> plan.n] = Wallets[t]
            /\ Kinds[t] = "text" => plan.is = "set" /\ plan.type = "U"
            /\ plan.is = "set" =>
                   \A k \in 2 .. MaxN : <<t, k>> \in TooLong <=> ~Plan!Fits([plan EXCEPT !.k = k])
            /\ Kinds[t] = "error" => plan = Plan!Refuses
            /\ Kinds[t] = "empty" => Typing[t].tokens = <<>>
            /\ t \in BadKeys <=> Plan!BadKey(Typing[t].tokens)
            /\ t \in Private <=> Plan!HoldsPrivateKey(Typing[t].tokens)
=============================================================================
