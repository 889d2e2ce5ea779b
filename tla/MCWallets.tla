----------------------------- MODULE MCWallets -----------------------------
(***************************************************************************)
(* Texts of wallets for the instances: keys with and without an origin and *)
(* children, in a multi or a sortedmulti, nested and alone, beside a hash, *)
(* a key of their own or a musig; and keys whose origin or brackets no     *)
(* wallet software takes.                                                  *)
(***************************************************************************)
EXTENDS Canonical

Joined(args) ==
    FoldLeft(LAMBDA out, j : out \o (IF j > 1 THEN <<T(",")>> ELSE <<>>) \o args[j],
             <<>>, [j \in DOMAIN args |-> j])
Call(name, args) == <<Name(name), T("(")>> \o Joined(args) \o <<T(")")>>
Multi(name, k, keys) == Call(name, <<<<Number(k)>>>> \o [i \in DOMAIN keys |-> <<keys[i]>>])

Xpub(id) == Key("xpub", id, id, "/0/*")
Bare == Key("xpub", 2, 2, "")
Change == Key("xpub", 0, 3, "/1/*")
Hex(id) == Key("hex", 0, id, "")
Xprv == Key("xprv", 0, 6, "")
Mistyped == Key("mistyped", 1, 7, "/0/*")
Wif == Key("wif", 0, 5, "")
Zprv == Key("zprv", 0, 6, "")
Word == Key("word", 0, 7, "")
Stray == Key("stray", 0, 7, "")

SomeWallets ==
    {Call("wsh", <<Multi("sortedmulti", 2, <<Xpub(1), Bare>>)>>),
     Call("wsh", <<Multi("multi", 2, <<Bare, Xpub(1)>>)>>),
     Multi("sortedmulti", 1, <<Xpub(1), Hex(4), Change>>),
     Multi("sortedmulti_a", 2, <<Hex(4), Hex(5), Hex(6), Key("hex", 1, 7, "")>>),
     Multi("multi", 2, <<Xprv, Mistyped, Xpub(1)>>),
     Multi("multi", 2, <<Xprv, Xpub(1), Bare>>),
     Multi("multi", 2, <<Zprv, Word, Xpub(1)>>),
     Multi("sortedmulti", 2, <<Key("xpub", BadStep, 3, "/0/*"), Xpub(1)>>),
     Multi("multi", 2, <<Key("hex", BadFingerprint, 4, ""), Bare>>),
     Multi("multi", 2, <<Stray, Xpub(1)>>),
     Call("tr", <<Call("musig", <<<<Xpub(1)>>, <<Bare>>>>)>>),
     Call("tr", <<<<Xpub(1)>>, Multi("sortedmulti_a", 2, <<Bare, Change>>)>>),
     Call("and_v", <<Call("sha256", <<<<Hex(4)>>>>), Multi("sortedmulti", 2, <<Xpub(1), Wif>>)>>),
     Call("sortedmulti", <<<<Number(2)>>,
                           Call("musig", <<<<Xpub(1)>>, <<Bare>>>>) \o <<Name("/1/*")>>,
                           <<Change>>, <<Hex(4)>>>>)}
=============================================================================
