-------------------------- MODULE Splitter_proofs --------------------------
(***************************************************************************)
(* The set that split gives is sound and its secrets are erased, for every *)
(* k and n and every number of faults.  Split runs straight through, so    *)
(* the invariant says what each step has established: which shares there   *)
(* are, and what the self-check has found by then.                         *)
(***************************************************************************)
EXTENDS Splitter, TLAPS, FiniteSetTheorems

AllBuilt == {"readback", "solve", "unseal", "compare"}

(* Every share that is there was built, and from "readback" on all are.    *)
Built == /\ pc \in AllBuilt \/ out = "ok" => shares \in [1 .. req.n -> Share]
         /\ pc # "start" /\ out # "error" => Valid(req)
         /\ out # "none" <=> pc = "end"

(* What verify has found so far.                                           *)
Verified == /\ pc \in {"unseal", "compare"} \/ out = "ok" => id = Through(Highest)
            /\ pc \in {"unseal", "compare"} => solution = Through(Highest)
            /\ pc = "compare" \/ out = "ok" => Unsealed(Through(Highest)) = Right
            /\ out = "ok" => \A x \in 1 .. req.n : ~OffThem(x)

(* The take that solve recovered is in memory only while verify uses it.   *)
Erased == /\ "recovered take" \in mem => pc \in {"unseal", "compare"}
          /\ NothingKept

IInv == TypeOK /\ Built /\ Verified /\ Erased

(* The initial state: no share is there and nothing has been found.        *)
THEOREM SplitterInit == SplitInit => IInv
<1> SUFFICES ASSUME SplitInit PROVE IInv
  OBVIOUS
<1>1. \E x \in 0 .. req.n : shares \in [1 .. x -> Share]
  <2>1. 0 \in 0 .. req.n
    BY MaxSharesAssumption DEF SplitInit, Requests
  <2>2. shares \in [1 .. 0 -> Share]
    BY DEF SplitInit
  <2> QED
    BY <2>1, <2>2
<1>2. faults \in 0 .. MaxFaults
  BY MaxFaultsAssumption DEF SplitInit
<1>3. TypeOK
  BY <1>1, <1>2 DEF SplitInit, TypeOK
<1> QED
  BY <1>3 DEF SplitInit, IInv, Built, Verified, Erased, NothingKept, AllBuilt

(* A fault is counted up to the bound, and leaves the right result or one  *)
(* of the others.                                                          *)
LEMMA ComputedType ==
  ASSUME faults \in 0 .. MaxFaults, NEW v, NEW right, NEW wrong, Computed(v, right, wrong)
  PROVE  faults' \in 0 .. MaxFaults /\ v \in {right} \cup wrong
BY MaxFaultsAssumption DEF Computed

(* What the shares of T give depends on nothing but the request, the key,  *)
(* C and the shares.                                                       *)
LEMMA SameThrough ==
  ASSUME UNCHANGED <<req, take, c, id, shares>>
  PROVE  UNCHANGED <<Through(Highest), Unsealed(Through(Highest)), Valid(req)>>
         /\ \A x : UNCHANGED OffThem(x)
<1>1. UNCHANGED KeyPoly
  BY DEF KeyPoly
<1>2. UNCHANGED Highest
  BY DEF Highest
<1>3. UNCHANGED Through(Highest)
  BY <1>1, <1>2 DEF Through
<1> QED
  BY <1>3 DEF Unsealed, Valid, OffThem

(* Every step of split keeps the invariant.                                *)
THEOREM SplitterStep == IInv /\ [SplitNext]_splitVars => IInv'
<1> SUFFICES ASSUME IInv, [SplitNext]_splitVars PROVE IInv'
  OBVIOUS
<1>0. faults \in 0 .. MaxFaults /\ req \in Requests /\ take \in {Right, Junk}
      /\ \E z \in 0 .. req.n : shares \in [1 .. z -> Share]
  BY DEF IInv, TypeOK
<1>1. CASE Refuse
  BY <1>1 DEF IInv, TypeOK, Refuse, Leave, Built, Verified, Erased, NothingKept, AllBuilt
<1>2. CASE Random
  BY <1>2 DEF IInv, TypeOK, Random, Leave, Go, Built, Verified, Erased, NothingKept, AllBuilt, Valid
<1>3. CASE Seal
  <2>1. faults' \in 0 .. MaxFaults /\ sealed' \in {Right, Junk}
    BY <1>0, <1>3, MaxFaultsAssumption DEF Seal, Computed
  <2> QED
    BY <1>3, <2>1 DEF IInv, TypeOK, Seal, Go, Secret, Built, Verified, Erased, NothingKept, AllBuilt, Valid
<1>4. CASE DrawTake
  <2>1. faults' \in 0 .. MaxFaults /\ take' \in {Right, Junk}
    BY <1>0, <1>4, MaxFaultsAssumption DEF DrawTake, Computed
  <2>2. UNCHANGED <<req, sealed, c, id, shares, solution>> /\ pc = "take"
    BY <1>4 DEF DrawTake
  <2>3. CASE req.secure
    <3>1. pc' = "encrypt" /\ mem' = mem \cup {"msg", "seed", "take"} /\ out' = out
      BY <1>4, <2>3 DEF DrawTake, Go
    <3> QED
      BY <2>1, <2>2, <3>1 DEF IInv, TypeOK, Built, Verified, Erased, NothingKept, AllBuilt, Valid
  <2>4. CASE ~req.secure
    <3>1. pc' = "end" /\ out' = "error"
          /\ mem' = (mem \cup {"msg"}) \ {"rand", "sealed", "msg", "seed", "take"}
      BY <1>4, <2>4 DEF DrawTake, Leave
    <3> QED
      BY <2>1, <2>2, <3>1 DEF IInv, TypeOK, Built, Verified, Erased, NothingKept, AllBuilt
  <2> QED
    BY <2>3, <2>4
<1>5. CASE Encrypt
  <2>1. faults' \in 0 .. MaxFaults
    BY <1>0, <1>5, ComputedType DEF Encrypt
  <2> QED
    BY <1>5, <2>1 DEF IInv, TypeOK, Encrypt, Go, Built, Verified, Erased, NothingKept, AllBuilt, Valid
<1>6. CASE SetID
  <2>1. faults' \in 0 .. MaxFaults
    BY <1>0, <1>6, ComputedType DEF SetID
  <2> QED
    BY <1>6, <2>1
       DEF IInv, TypeOK, SetID, Leave, Go, Built, Verified, Erased, NothingKept, AllBuilt, Valid
<1>7. ASSUME NEW x \in 1 .. req.n, BuildShare(x) PROVE IInv'
  <2>1. PICK sh \in Share :
           /\ faults' \in 0 .. MaxFaults
           /\ shares' = [y \in 1 .. x |-> IF y = x THEN sh ELSE shares[y]]
    BY <1>0, <1>7, ComputedType DEF BuildShare
  <2>2. x \in Nat /\ x >= 1 /\ x \in 0 .. req.n /\ req.n \in Nat
    <3>1. req.n \in 0 .. MaxShares
      BY <1>0 DEF Requests
    <3> QED
      BY <1>7, <3>1, MaxSharesAssumption
  <2>3. shares \in [1 .. x - 1 -> Share]
    <3>1. PICK z \in 0 .. req.n : shares \in [1 .. z -> Share]
      BY <1>0
    <3>2. DOMAIN shares = 1 .. x - 1
      BY <1>7 DEF BuildShare
    <3> QED
      BY <3>1, <3>2
  <2>4. shares' \in [1 .. x -> Share]
    <3>1. \A y \in 1 .. x : y # x => y \in 1 .. x - 1
      BY <2>2, <1>7
    <3> QED
      BY <2>1, <2>3, <3>1
  <2>5. UNCHANGED <<req, sealed, take, out, mem>> /\ pc = "build"
        /\ pc' = IF x = req.n THEN "readback" ELSE "build"
    BY <1>7 DEF BuildShare, Go
  <2>6. TypeOK'
    BY <2>1, <2>2, <2>4, <2>5 DEF IInv, TypeOK
  <2>7. Built'
    BY <2>4, <2>5 DEF IInv, TypeOK, Built, AllBuilt, Valid
  <2> QED
    BY <2>5, <2>6, <2>7 DEF IInv, TypeOK, Built, Verified, Erased, NothingKept
<1>8. CASE ReadBack
  BY <1>8, SameThrough
     DEF IInv, TypeOK, ReadBack, Leave, Go, Built, Verified, Erased, NothingKept, AllBuilt
<1>9. CASE Solve
  <2>1. Verified'
    BY <1>9, SameThrough DEF IInv, TypeOK, Solve, Solves, Leave, Go, Built, Verified
  <2> QED
    BY <1>9, <2>1, SameThrough
       DEF IInv, TypeOK, Solve, Leave, Go, Secret, Built, Erased, NothingKept, AllBuilt
<1>10. CASE CompareInput
  BY <1>10, SameThrough
     DEF IInv, TypeOK, CompareInput, Leave, Go, Built, Verified, Erased, NothingKept, AllBuilt
<1>11. CASE CompareShares
  <2>1. out' = "ok" => \A x \in 1 .. req.n : ~OffThem(x)
    BY <1>11 DEF CompareShares, Leave
  <2> QED
    BY <1>11, <2>1, SameThrough
       DEF IInv, TypeOK, CompareShares, Leave, Built, Verified, Erased, NothingKept, AllBuilt
<1>12. CASE UNCHANGED splitVars
  BY <1>12, SameThrough DEF IInv, TypeOK, splitVars, Built, Verified, Erased, NothingKept, AllBuilt
<1> QED
  BY <1>1, <1>2, <1>3, <1>4, <1>5, <1>6, <1>7, <1>8, <1>9, <1>10, <1>11, <1>12 DEF SplitNext

LEMMA SplitterInvariant == SplitSpec => []IInv
BY SplitterInit, SplitterStep, PTL DEF SplitSpec

-----------------------------------------------------------------------------
(* Results *)

(* Shares that pass the last comparison hold what the highest k gave.      *)
LEMMA SoundWhenGiven == IInv => GivenSetIsSound
<1> SUFFICES ASSUME IInv, out = "ok",
                    NEW T \in SUBSET (1 .. req.n), Cardinality(T) = req.k
             PROVE  Solves(T) /\ Unsealed(Through(T)) = Right
  BY DEF GivenSetIsSound
<1>1. shares \in [1 .. req.n -> Share] /\ Valid(req)
  BY DEF IInv, Built, TypeOK
<1>2. \A x \in 1 .. req.n : shares[x].key = Right /\ shares[x].data = Right
                            /\ shares[x].head = Right /\ shares[x].check = Right
  <2> SUFFICES ASSUME NEW x \in 1 .. req.n
               PROVE  shares[x].key = Right /\ shares[x].data = Right
                      /\ shares[x].head = Right /\ shares[x].check = Right
    OBVIOUS
  <2>1. [shares[x] EXCEPT !.text = Right] = OnThem
    BY DEF IInv, Verified, OffThem
  <2>2. shares[x] \in Share
    BY <1>1
  <2> QED
    BY <2>1, <2>2 DEF OnThem, Share
<1>3. Highest \subseteq 1 .. req.n
  <2>1. req.k \in 0 .. MaxShares /\ req.n \in 0 .. MaxShares
    BY DEF IInv, TypeOK, Requests
  <2>2. req.k \in Nat /\ req.n \in Nat /\ req.k <= req.n
    BY <1>1, <2>1, MaxSharesAssumption DEF Valid
  <2> QED
    BY <2>2 DEF Highest
<1>4. Through(T) = Through(Highest)
  BY <1>2, <1>3 DEF Through
<1> QED
  BY <1>2, <1>4 DEF IInv, Verified, Solves

(* Every variable of split keeps its type for all k, n and faults: the     *)
(* shares are 1 to n and no other buffer than those named holds a secret.  *)
THEOREM SplitterTypeCorrect == SplitSpec => []TypeOK
BY SplitterInvariant, PTL DEF IInv

(* A set that split gives is sound whatever went wrong on the way: any k   *)
(* of its shares recover the payload (js/shaqr.js verify).                 *)
THEOREM SplitIsSound == SplitSpec => []GivenSetIsSound
BY SplitterInvariant, SoundWhenGiven, PTL

(* Split erases its secrets on every way out.                              *)
THEOREM SplitErases == SplitSpec => []NothingKept
<1>1. IInv => NothingKept
  BY DEF IInv, Erased
<1> QED
  BY <1>1, SplitterInvariant, PTL

-----------------------------------------------------------------------------
LEMMA SmallRemainder ==
  ASSUME NEW a \in Nat, NEW k \in Nat, a < k
  PROVE  a % k = a
OBVIOUS

LEMMA MultipleRemainder ==
  ASSUME NEW q \in Nat, NEW k \in Nat, k > 0
  PROVE  (k * q) % k = 0
OBVIOUS

(* sealedLen gives room for the payload and its two bytes, and for minLen, *)
(* in the fewest blocks of k (shaqr.go and js/shaqr.js sealedLen).         *)
THEOREM SealedLenFits ==
  ASSUME NEW len \in Nat, NEW k \in Nat, k > 0, NEW minLen \in Nat
  PROVE  LET size == SealedLen(len, k, minLen)
         IN /\ size \in Nat /\ size >= len + 2 /\ size >= minLen
            /\ size % k = 0
            /\ size - k < len + 2 \/ size - k < minLen
<1> DEFINE n == IF len + 2 >= minLen THEN len + 2 ELSE minLen
           size == SealedLen(len, k, minLen)
<1>1. n \in Nat /\ n >= len + 2 /\ n >= minLen /\ (n = len + 2 \/ n = minLen)
  OBVIOUS
<1>2. size = n + ((k - (n % k)) % k)
  BY DEF SealedLen
<1> HIDE DEF n, size
<1>3. n % k \in 0 .. k - 1 /\ n = k * (n \div k) + (n % k) /\ n \div k \in Nat
  BY <1>1
<1>4. CASE n % k = 0
  <2>1. size = n
    BY <1>1, <1>2, <1>4
  <2> QED
    BY <1>1, <1>4, <2>1 DEF size
<1>5. CASE n % k > 0
  <2>1. (k - (n % k)) % k = k - (n % k)
    <3>1. k - (n % k) \in Nat /\ k - (n % k) < k
      BY <1>3, <1>5
    <3> QED
      BY <3>1, SmallRemainder
  <2>2. size = k * (n \div k) + k
    BY <1>1, <1>2, <1>3, <2>1
  <2>3. size = k * (n \div k + 1)
    BY <1>3, <2>2
  <2>4. size % k = 0
    <3>1. n \div k + 1 \in Nat
      BY <1>3
    <3>2. (k * (n \div k + 1)) % k = 0
      BY <3>1, MultipleRemainder
    <3> QED
      BY <2>3, <3>2
  <2> QED
    BY <1>1, <1>2, <1>3, <2>1, <2>4 DEF size
<1> QED
  BY <1>3, <1>4, <1>5
=============================================================================
