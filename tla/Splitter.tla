------------------------------ MODULE Splitter ------------------------------
(***************************************************************************)
(* Splitting a payload (js/shaqr.js split, and its twin Split in shaqr.go) *)
(* with the self-check of step 6, when the computation of the set goes     *)
(* wrong in up to MaxFaults places.  A value is named for what it was made *)
(* from; Junk is a result that went wrong, and Mixed what comes of values  *)
(* that do not belong together.  The id and the check are perfect hashes.  *)
(* The self-check itself goes right.                                       *)
(***************************************************************************)
EXTENDS Integers, FiniteSets

CONSTANTS
    MaxShares,   \* bound on n
    MaxFaults,   \* bound on the results that go wrong
    MaxSealed,   \* bytes in one ChaCha20 stream
    PayloadLens, \* lengths of the payload
    MinLens      \* values of minLen

ASSUME MaxSharesAssumption == MaxShares \in Nat
ASSUME MaxFaultsAssumption == MaxFaults \in Nat
ASSUME MaxSealedAssumption == MaxSealed \in Nat
ASSUME LensAssumption == PayloadLens \subseteq Nat /\ MinLens \subseteq Nat

Right == "right"
Junk == "junk"
Mixed == "mixed"

Requests == [k : 0 .. MaxShares, n : 0 .. MaxShares, open : BOOLEAN, derived : BOOLEAN,
             len : PayloadLens, minLen : MinLens,
             source : {"drawn", "given", "bad"}, secure : BOOLEAN]

(* Share x: its key and data parts, its header, its check and the text     *)
(* form of it.  Junk is a value of its polynomials that is off them, a     *)
(* header that is not that of share x of this set, the check of other      *)
(* bytes, or a text that reads as another share or as none.                *)
Share == [key : {Right, Junk}, data : {Right, Junk}, head : {Right, Junk},
          check : {Right, Junk}, text : {Right, Junk}]

VARIABLES
    req,       \* the arguments, where r comes from, whether WebCrypto is there
    pc,        \* the step to come
    faults,    \* results that went wrong
    sealed,    \* the payload in sealed, or Junk
    take,      \* the key polynomial: Right when it is drawn as SPEC.md says
    c,         \* C: the key and the sealed payload in it
    id,        \* the set id: the key polynomial and the C it commits to
    shares,    \* the shares built so far, by x
    solution,  \* what the self-check recovered
    mem,       \* the buffers that hold a secret of this split
    out        \* "none" while it runs, then "ok" or "error"

splitVars == <<req, pc, faults, sealed, take, c, id, shares, solution, mem, out>>

-----------------------------------------------------------------------------
(* sealedLen: the payload, T and 0x80, at least minLen, padded to a        *)
(* multiple of k.                                                          *)
SealedLen(len, k, minLen) ==
    LET n == IF len + 2 >= minLen THEN len + 2 ELSE minLen
    IN n + ((k - (n % k)) % k)

Valid(q) ==
    /\ q.k >= 2 /\ q.k <= q.n /\ q.n <= 255
    /\ ~(q.open /\ q.derived)
    /\ q.minLen > 0 => ~q.open /\ ~q.derived
    /\ SealedLen(q.len, q.k, q.minLen) <= MaxSealed

Session == ~req.open /\ ~req.derived

JunkC == [key |-> Junk, sealed |-> Junk]
MixedC == [key |-> Mixed, sealed |-> Mixed]

SplitInit ==
    /\ req \in Requests
    /\ pc = "start"
    /\ faults = 0
    /\ sealed = Junk /\ take = Junk /\ c = JunkC
    /\ id = [key |-> Junk, c |-> JunkC]
    /\ shares = [x \in {} |-> Junk]
    /\ solution = [key |-> Mixed, c |-> MixedC]
    /\ mem = {}
    /\ out = "none"

\* Fault: what a failure leaves behind is not erased.
LeaveUnerased(how, held) ==
    /\ out' = how
    /\ pc' = "end"
    /\ mem' = IF how = "ok" THEN {} ELSE held

(* Every way out of a sealed set goes through finally, which erases what   *)
(* split holds.                                                            *)
Leave(how, held) ==
    /\ out' = how
    /\ pc' = "end"
    /\ mem' = held \ {"rand", "sealed", "msg", "seed", "take"}

Go(step, held) == pc' = step /\ mem' = held /\ UNCHANGED out

Secret(buffers) == IF req.open THEN {} ELSE buffers

\* The result comes out as it should, or, by a fault, as one of the others.
Computed(result, right, wrong) ==
    \/ result = right /\ UNCHANGED faults
    \/ faults < MaxFaults /\ faults' = faults + 1 /\ result \in wrong

-----------------------------------------------------------------------------
(* Making the set *)

Refuse ==
    /\ pc = "start"
    /\ ~Valid(req)
    /\ Leave("error", mem)
    /\ UNCHANGED <<req, faults, sealed, take, c, id, shares, solution>>

\* random: r for a session set, nothing for a derived or an open one.
Random ==
    /\ pc = "start"
    /\ Valid(req)
    /\ IF Session /\ req.source = "bad" THEN Leave("error", mem)
       ELSE Go("seal", mem \cup IF Session THEN {"rand"} ELSE {})
    /\ UNCHANGED <<req, faults, sealed, take, c, id, shares, solution>>

Seal ==
    /\ pc = "seal"
    /\ Computed(sealed', Right, {Junk})
    /\ Go(IF req.open THEN "encrypt" ELSE "take", mem \cup Secret({"sealed"}))
    /\ UNCHANGED <<req, take, c, id, shares, solution>>

\* Without WebCrypto the HMAC of the message throws.
DrawTake ==
    /\ pc = "take"
    /\ IF req.secure
       THEN /\ Computed(take', Right, {Junk})
            /\ Go("encrypt", mem \cup {"msg", "seed", "take"})
       ELSE Leave("error", mem \cup {"msg"}) /\ UNCHANGED <<take, faults>>
    /\ UNCHANGED <<req, sealed, c, id, shares, solution>>

(* An open set has no key, and its C is sealed itself.                     *)
KeyPoly == IF req.open THEN "none" ELSE take

Encrypt ==
    /\ pc = "encrypt"
    /\ IF req.open THEN c' = [key |-> KeyPoly, sealed |-> sealed] /\ UNCHANGED faults
       ELSE Computed(c', [key |-> KeyPoly, sealed |-> sealed], {JunkC})
    /\ Go("id", mem)
    /\ UNCHANGED <<req, sealed, take, id, shares, solution>>

(* A wrong id may still commit to this C with another key.                 *)
SetID ==
    /\ pc = "id"
    /\ IF req.secure
       THEN /\ Computed(id', [key |-> KeyPoly, c |-> c],
                        {[key |-> "wrong", c |-> c], [key |-> KeyPoly, c |-> MixedC]})
            /\ Go("build", mem)
       ELSE Leave("error", mem) /\ UNCHANGED <<id, faults>>
    /\ UNCHANGED <<req, sealed, take, c, shares, solution>>

OnThem == [key |-> Right, data |-> Right, head |-> Right, check |-> Right, text |-> Right]
Parts == DOMAIN OnThem \ IF req.open THEN {"key"} ELSE {}

\* Fault: share i is the value at i, counting from 0.
BuildFromZero(x) ==
    /\ pc = "build"
    /\ DOMAIN shares = 0 .. x - 2
    /\ shares' = [y \in 0 .. x - 1 |-> OnThem]
    /\ Go(IF x = req.n THEN "readback" ELSE "build", mem)
    /\ UNCHANGED <<req, faults, sealed, take, c, id, solution>>

\* build: the next share.
BuildShare(x) ==
    /\ pc = "build"
    /\ DOMAIN shares = 1 .. x - 1
    /\ \E sh \in Share :
          /\ Computed(sh, OnThem, {[OnThem EXCEPT ![part] = Junk] : part \in Parts})
          /\ shares' = [y \in 1 .. x |-> IF y = x THEN sh ELSE shares[y]]
    /\ Go(IF x = req.n THEN "readback" ELSE "build", mem)
    /\ UNCHANGED <<req, sealed, take, c, id, solution>>

-----------------------------------------------------------------------------
(* verify: step 6 *)

ReadBack ==
    /\ pc = "readback"
    /\ IF \E x \in 1 .. req.n : shares[x].text = Junk THEN Leave("error", mem)
       ELSE Go("solve", mem)
    /\ UNCHANGED <<req, faults, sealed, take, c, id, shares, solution>>

\* The key polynomial and the C that the shares of T give.
Through(T) ==
    [key |-> IF \A x \in T : shares[x].key = Right THEN KeyPoly ELSE Mixed,
     c |-> IF \A x \in T : shares[x].data = Right THEN c ELSE MixedC]

(* newSet and solve over exactly k shares: all of them parse, their        *)
(* headers are those of one set, and what they give matches the id.        *)
Solves(T) == /\ \A x \in T : shares[x].check = Right /\ shares[x].head = Right
             /\ id = Through(T)

\* unseal: C decrypts to sealed under the key it was made with.
Unsealed(sol) == IF sol.c.key = sol.key THEN sol.c.sealed ELSE Junk

\* The shares with the highest x.
Highest == req.n - req.k + 1 .. req.n

Solve ==
    /\ pc = "solve"
    /\ IF Solves(Highest)
       THEN solution' = Through(Highest) /\ Go("unseal", mem \cup Secret({"recovered take"}))
       ELSE Leave("error", mem) /\ UNCHANGED solution
    /\ UNCHANGED <<req, faults, sealed, take, c, id, shares>>

(* The payload that unseal copies is erased once it is compared.           *)
CompareInput ==
    /\ pc = "unseal"
    /\ IF Unsealed(solution) = Right THEN Go("compare", mem)
       ELSE Leave("error", mem \ {"recovered take"})
    /\ UNCHANGED <<req, faults, sealed, take, c, id, shares, solution>>

OffThem(x) == [shares[x] EXCEPT !.text = Right] # OnThem

\* Fault: the shares it recovered from are compared, and no others.
CompareHighest ==
    /\ pc = "compare"
    /\ Leave(IF \E x \in Highest : OffThem(x) THEN "error" ELSE "ok", mem \ {"recovered take"})
    /\ UNCHANGED <<req, faults, sealed, take, c, id, shares, solution>>

CompareShares ==
    /\ pc = "compare"
    /\ Leave(IF \E x \in 1 .. req.n : OffThem(x) THEN "error" ELSE "ok", mem \ {"recovered take"})
    /\ UNCHANGED <<req, faults, sealed, take, c, id, shares, solution>>

-----------------------------------------------------------------------------
SplitNext ==
    \/ Refuse \/ Random \/ Seal \/ DrawTake \/ Encrypt \/ SetID
    \/ \E x \in 1 .. req.n : BuildShare(x)
    \/ ReadBack \/ Solve \/ CompareInput \/ CompareShares

SplitSpec == SplitInit /\ [][SplitNext]_splitVars

-----------------------------------------------------------------------------
(* Properties *)

TypeOK ==
    /\ req \in Requests
    /\ pc \in {"start", "seal", "take", "encrypt", "id", "build", "readback", "solve",
               "unseal", "compare", "end"}
    /\ faults \in 0 .. MaxFaults
    /\ sealed \in {Right, Junk} /\ take \in {Right, Junk}
    /\ \E x \in 0 .. req.n : shares \in [1 .. x -> Share]
    /\ mem \subseteq {"rand", "sealed", "msg", "seed", "take", "recovered take"}
    /\ out \in {"none", "ok", "error"}

(* Whatever went wrong on the way, any k of the shares that split gives    *)
(* parse, match the set id and recover the payload that was split.  The    *)
(* self-check recovers from the k highest x only, and the value of the     *)
(* other shares follows from theirs.                                       *)
GivenSetIsSound ==
    out = "ok" =>
        \A T \in SUBSET (1 .. req.n) :
            Cardinality(T) = req.k => Solves(T) /\ Unsealed(Through(T)) = Right

(* However split ends, also when r or WebCrypto fails or the new set fails *)
(* its own check, no secret of a sealed set stays in a buffer of its own.  *)
NothingKept == pc = "end" => mem = {}
=============================================================================
